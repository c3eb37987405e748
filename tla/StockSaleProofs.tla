-------------------------- MODULE StockSaleProofs ---------------------------
(***************************************************************************)
(* Theorems about StockSale for every number of sellers and every stock:   *)
(* on macOS the sales are atomic, elsewhere no sale is invented.           *)
(***************************************************************************)
EXTENDS StockSale, FiniteSetTheorems, TLAPS

Labels == {"lock", "test", "load_stock", "store_stock",
           "load_sold", "store_sold", "unlock", "done"}
Labelled == pc \in [Sellers -> Labels]
Inside(t) == pc[t] \notin {"lock", "done"}

\* The types, and which registers are in use.
Typed ==
  /\ platform \in Platforms
  /\ pc = [t \in Sellers |-> pc[t]]
  /\ mutex \in {0, 1}
  /\ stock \in Int /\ sold \in Nat
  /\ reg \in [Sellers -> Int]
  /\ \A t \in Sellers : pc[t] = "store_sold" => reg[t] \in Nat
  /\ message \in {"none", "All_done", "What_just_happened"}

\* On macOS: whoever is inside has the semaphore, and what it has loaded is
\* still what is stored.
Exclusion ==
  platform = "__APPLE__" =>
    /\ stock >= 0
    /\ \A t \in Sellers : Inside(t) => mutex = 0
    /\ \A s, t \in Sellers : Inside(s) /\ Inside(t) => s = t
    /\ \A t \in Sellers : /\ pc[t] = "load_stock" => stock > 0
                          /\ pc[t] = "store_stock" => stock > 0 /\ reg[t] = stock
                          /\ pc[t] = "store_sold" => reg[t] = sold

SaleInv == Labelled /\ Typed /\ Exclusion

LEMMA SaleInit == Init => SaleInv
  BY StockAssumption DEF Init, SaleInv, Labelled, Typed, Exclusion, Inside, Labels

LEMMA LabelledStep == SaleInv /\ [Next]_vars => Labelled'
<1> SUFFICES ASSUME SaleInv, [Next]_vars PROVE Labelled'
  OBVIOUS
<1> USE DEF SaleInv, Labelled, Go, Labels
<1>1. ASSUME NEW t \in Sellers, lock(t) PROVE Labelled'
  BY <1>1 DEF lock
<1>2. ASSUME NEW t \in Sellers, Test(t) PROVE Labelled'
  BY <1>2 DEF Test
<1>3. ASSUME NEW t \in Sellers, LoadStock(t) PROVE Labelled'
  BY <1>3 DEF LoadStock
<1>4. ASSUME NEW t \in Sellers, StoreStock(t) PROVE Labelled'
  BY <1>4 DEF StoreStock
<1>5. ASSUME NEW t \in Sellers, LoadSold(t) PROVE Labelled'
  BY <1>5 DEF LoadSold
<1>6. ASSUME NEW t \in Sellers, StoreSold(t) PROVE Labelled'
  BY <1>6 DEF StoreSold
<1>7. ASSUME NEW t \in Sellers, unlock(t) PROVE Labelled'
  BY <1>7 DEF unlock
<1>8. CASE main
  BY <1>8 DEF main
<1>9. CASE UNCHANGED vars
  BY <1>9 DEF vars
<1> QED
  BY <1>1, <1>2, <1>3, <1>4, <1>5, <1>6, <1>7, <1>8, <1>9 DEF Next, sell

LEMMA TypedStep == SaleInv /\ [Next]_vars => Typed'
<1> SUFFICES ASSUME SaleInv, [Next]_vars PROVE Typed'
  OBVIOUS
<1> USE DEF SaleInv, Typed, Exclusion, Inside, Go
<1>1. ASSUME NEW t \in Sellers, lock(t) PROVE Typed'
  BY <1>1 DEF lock, psem_wait
<1>2. ASSUME NEW t \in Sellers, Test(t) PROVE Typed'
  BY <1>2 DEF Test
<1>3. ASSUME NEW t \in Sellers, LoadStock(t) PROVE Typed'
  BY <1>3 DEF LoadStock
<1>4. ASSUME NEW t \in Sellers, StoreStock(t) PROVE Typed'
  BY <1>4 DEF StoreStock
<1>5. ASSUME NEW t \in Sellers, LoadSold(t) PROVE Typed'
  BY <1>5 DEF LoadSold
<1>6. ASSUME NEW t \in Sellers, StoreSold(t) PROVE Typed'
  BY <1>6 DEF StoreSold
<1>7. ASSUME NEW t \in Sellers, unlock(t) PROVE Typed'
  BY <1>7 DEF unlock, psem_post
<1>8. CASE main
  BY <1>8 DEF main
<1>9. CASE UNCHANGED vars
  BY <1>9 DEF vars
<1> QED
  BY <1>1, <1>2, <1>3, <1>4, <1>5, <1>6, <1>7, <1>8, <1>9 DEF Next, sell

LEMMA ExclusionStep == SaleInv /\ [Next]_vars => Exclusion'
<1> SUFFICES ASSUME SaleInv, [Next]_vars PROVE Exclusion'
  OBVIOUS
<1> USE DEF SaleInv, Typed, Exclusion, Inside, Go
<1>1. ASSUME NEW t \in Sellers, lock(t) PROVE Exclusion'
  BY <1>1 DEF lock, psem_wait
<1>2. ASSUME NEW t \in Sellers, Test(t) PROVE Exclusion'
  BY <1>2 DEF Test
<1>3. ASSUME NEW t \in Sellers, LoadStock(t) PROVE Exclusion'
  BY <1>3 DEF LoadStock
<1>4. ASSUME NEW t \in Sellers, StoreStock(t) PROVE Exclusion'
  BY <1>4 DEF StoreStock
<1>5. ASSUME NEW t \in Sellers, LoadSold(t) PROVE Exclusion'
  BY <1>5 DEF LoadSold
<1>6. ASSUME NEW t \in Sellers, StoreSold(t) PROVE Exclusion'
  BY <1>6 DEF StoreSold
<1>7. ASSUME NEW t \in Sellers, unlock(t) PROVE Exclusion'
  BY <1>7 DEF unlock, psem_post
<1>8. CASE main
  BY <1>8 DEF main
<1>9. CASE UNCHANGED vars
  BY <1>9 DEF vars
<1> QED
  BY <1>1, <1>2, <1>3, <1>4, <1>5, <1>6, <1>7, <1>8, <1>9 DEF Next, sell

LEMMA SaleStep == SaleInv /\ [Next]_vars => SaleInv'
  BY LabelledStep, TypedStep, ExclusionStep DEF SaleInv

\* The semaphore is 0 or 1, the stock and the registers are integers, and so on.
THEOREM TypeTheorem == Spec => []TypeOK
<1>1. SaleInv => TypeOK
  BY DEF SaleInv, Labelled, Typed, TypeOK, Labels
<1> QED
  BY <1>1, SaleInit, SaleStep, PTL DEF Spec

-----------------------------------------------------------------------------
\* Where the semaphore is a reference, the sales are atomic.
LEMMA SaleMapped ==
  SaleInv /\ [Next]_vars /\ platform = "__APPLE__" => [Sale!Sell]_(Sale!vars)
<1> SUFFICES ASSUME SaleInv, [Next]_vars, platform = "__APPLE__"
             PROVE  [Sale!Sell]_(Sale!vars)
  OBVIOUS
<1> USE DEF SaleInv, Typed, Exclusion, Inside, Go, Labels, Midway, At, Sale!Sell, Sale!vars
<1>1. ASSUME NEW t \in Sellers, lock(t) PROVE UNCHANGED Sale!vars
  BY <1>1 DEF lock
<1>2. ASSUME NEW t \in Sellers, Test(t) PROVE UNCHANGED Sale!vars
  BY <1>2 DEF Test
<1>3. ASSUME NEW t \in Sellers, LoadStock(t) PROVE UNCHANGED Sale!vars
  BY <1>3 DEF LoadStock
<1>4. ASSUME NEW t \in Sellers, StoreStock(t) PROVE UNCHANGED Sale!vars
  <2>1. Midway = {} /\ Midway' # {}
    BY <1>4 DEF StoreStock
  <2>2. stock' = stock - 1 /\ sold' = sold
    BY <1>4 DEF StoreStock
  <2> QED
    BY <2>1, <2>2
<1>5. ASSUME NEW t \in Sellers, LoadSold(t) PROVE UNCHANGED Sale!vars
  BY <1>5 DEF LoadSold
<1>6. ASSUME NEW t \in Sellers, StoreSold(t) PROVE Sale!Sell
  <2>1. Midway # {} /\ Midway' = {}
    BY <1>6 DEF StoreSold
  <2>2. stock' = stock /\ sold' = sold + 1
    BY <1>6 DEF StoreSold
  <2> QED
    BY <2>1, <2>2
<1>7. ASSUME NEW t \in Sellers, unlock(t) PROVE UNCHANGED Sale!vars
  BY <1>7 DEF unlock
<1>8. CASE main
  BY <1>8 DEF main
<1>9. CASE UNCHANGED vars
  BY <1>9 DEF vars
<1> QED
  BY <1>1, <1>2, <1>3, <1>4, <1>5, <1>6, <1>7, <1>8, <1>9 DEF Next, sell

\* Where the semaphore is a reference, the loads and stores amount to sales in
\* one step each (SalesAreAtomic), for any number of sellers and any stock.
THEOREM SalesTheorem == Spec => SalesAreAtomic
<1>1. Init => (platform = "__APPLE__" => Sale!Init)
  <2> SUFFICES ASSUME Init PROVE Sale!Init
    OBVIOUS
  <2>1. Midway = {}
    BY DEF Init, Midway, At
  <2> QED
    BY <2>1, StockAssumption DEF Init, Sale!Init
<1>2. SaleInv /\ [Next]_vars => [platform = "__APPLE__" => [Sale!Sell]_(Sale!vars)]_vars
  BY SaleMapped
<1> QED
  BY <1>1, <1>2, SaleInit, SaleStep, PTL DEF Spec, SalesAreAtomic

-----------------------------------------------------------------------------
\* So nothing gets lost on the way from the stock to the sold.
InFlight == IF Midway = {} THEN 0 ELSE 1

Balance ==
  platform = "__APPLE__" =>
    /\ stock + InFlight = total_stock - sold
    /\ message # "What_just_happened"

LEMMA BalanceStep == SaleInv /\ Balance /\ [Next]_vars => Balance'
<1> SUFFICES ASSUME SaleInv, Balance, [Next]_vars, platform' = "__APPLE__"
             PROVE  Balance'
  BY DEF Balance
<1>1. platform = "__APPLE__"
  BY DEF Next, sell, lock, Test, LoadStock, StoreStock, LoadSold, StoreSold, unlock, main, vars
<1>2. [Sale!Sell]_(Sale!vars)
  BY <1>1, SaleMapped
<1>3. stock \in Int /\ sold \in Int /\ stock' \in Int /\ sold' \in Int /\ total_stock \in Int
  BY SaleStep, StockAssumption DEF SaleInv, Typed
<1>4. stock' + InFlight' = total_stock - sold'
  <2>1. InFlight \in Nat /\ InFlight' \in Nat /\ stock + InFlight = total_stock - sold
    BY <1>1 DEF Balance, InFlight
  <2>2. CASE Sale!Sell
    <3>1. stock' + InFlight' = (stock + InFlight) - 1
      BY <2>2 DEF Sale!Sell, InFlight
    <3>2. sold' = sold + 1
      BY <2>2 DEF Sale!Sell
    <3>3. (total_stock - sold) - 1 = total_stock - (sold + 1)
      BY <1>3
    <3> QED
      BY <2>1, <3>1, <3>2, <3>3, Zenon
  <2>3. CASE UNCHANGED Sale!vars
    <3>1. stock' + InFlight' = stock + InFlight /\ sold' = sold
      BY <2>3 DEF Sale!vars, InFlight
    <3> QED
      BY <1>3, <2>1, <3>1
  <2> QED
    BY <1>2, <2>2, <2>3
<1>5. message' # "What_just_happened"
  <2>1. CASE main
    <3>1. Midway = {}
      BY <2>1 DEF main, Midway, At
    <3> QED
      BY <1>1, <1>3, <2>1, <3>1 DEF main, Balance, InFlight
  <2>2. CASE ~main
    BY <1>1, <2>2 DEF Balance, Next, sell, lock, Test, LoadStock, StoreStock, LoadSold,
       StoreSold, unlock, vars
  <2> QED
    BY <2>1, <2>2
<1> QED
  BY <1>4, <1>5 DEF Balance

\* Where the semaphore is a reference, main's test of the outcome always
\* comes out well (p2.c:104).
THEOREM OutcomeTheorem == Spec => [](platform = "__APPLE__" => AllDone)
<1>1. Init => Balance
  BY StockAssumption DEF Init, Balance, InFlight, Midway, At
<1>2. Balance => (platform = "__APPLE__" => AllDone)
  BY DEF Balance, AllDone
<1> QED
  BY <1>1, <1>2, SaleInit, SaleStep, BalanceStep, PTL DEF Spec

-----------------------------------------------------------------------------
\* On either platform: how far each seller has come bounds what it may store.
Took == At({"load_sold", "store_sold", "unlock", "done"})
Sold == At({"unlock", "done"})

Bounded ==
  /\ stock >= total_stock - Cardinality(Took)
  /\ sold <= Cardinality(Sold)
  /\ \A t \in Sellers : /\ pc[t] = "store_stock" => reg[t] >= total_stock - Cardinality(Took)
                        /\ pc[t] = "store_sold" => reg[t] <= Cardinality(Sold)

LEMMA Counts ==
  ASSUME NEW S \in SUBSET Sellers, NEW T \in SUBSET Sellers
  PROVE  /\ Cardinality(S) \in Nat
         /\ S \subseteq T => Cardinality(S) <= Cardinality(T)
         /\ \A t : t \notin S => Cardinality(S \cup {t}) = Cardinality(S) + 1
<1>1. IsFiniteSet(S) /\ IsFiniteSet(T)
  BY SellersAssumption, FS_Subset
<1> QED
  BY <1>1, FS_CardinalityType, FS_Subset, FS_AddElement

LEMMA BoundedStep == SaleInv /\ Bounded /\ [Next]_vars => Bounded'
<1> SUFFICES ASSUME SaleInv, Bounded, [Next]_vars PROVE Bounded'
  OBVIOUS
<1>1. /\ Took \in SUBSET Sellers /\ Took' \in SUBSET Sellers
      /\ Sold \in SUBSET Sellers /\ Sold' \in SUBSET Sellers
  BY DEF Took, Sold, At
<1>2. /\ Cardinality(Took) \in Nat /\ Cardinality(Took') \in Nat
      /\ Cardinality(Sold) \in Nat /\ Cardinality(Sold') \in Nat
  BY <1>1, Counts
<1> USE <1>2, StockAssumption DEF SaleInv, Typed, Go, Bounded
<1>5. ASSUME NEW t \in Sellers, lock(t) \/ LoadStock(t) \/ LoadSold(t) \/ unlock(t)
      PROVE  Bounded'
  <2>1. Took' = Took /\ Sold' = Sold
    <3>1. CASE lock(t)
      BY <3>1 DEF lock, Took, Sold, At
    <3>2. CASE LoadStock(t)
      BY <3>2 DEF LoadStock, Took, Sold, At
    <3>3. CASE LoadSold(t)
      BY <3>3 DEF LoadSold, Took, Sold, At
    <3>4. CASE unlock(t)
      BY <3>4 DEF unlock, Took, Sold, At
    <3> QED
      BY <1>5, <3>1, <3>2, <3>3, <3>4
  <2> QED
    BY <1>5, <2>1 DEF lock, LoadStock, LoadSold, unlock
<1>9. ASSUME NEW t \in Sellers, Test(t) PROVE Bounded'
  <2>1. Took \subseteq Took' /\ Sold \subseteq Sold'
    BY <1>9 DEF Test, Took, Sold, At
  <2>2. Cardinality(Took) <= Cardinality(Took') /\ Cardinality(Sold) <= Cardinality(Sold')
    BY <1>1, <2>1, Counts
  <2> QED
    BY <1>9, <2>2 DEF Test
<1>6. ASSUME NEW t \in Sellers, StoreStock(t) PROVE Bounded'
  <2>1. Took' = Took \cup {t} /\ t \notin Took /\ Sold' = Sold
    BY <1>6 DEF StoreStock, Took, Sold, At
  <2>2. Cardinality(Took') = Cardinality(Took) + 1
    BY <1>1, <2>1, Counts
  <2> QED
    BY <1>6, <2>1, <2>2 DEF StoreStock
<1>7. ASSUME NEW t \in Sellers, StoreSold(t) PROVE Bounded'
  <2>1. Sold' = Sold \cup {t} /\ t \notin Sold /\ Took' = Took
    BY <1>7 DEF StoreSold, Took, Sold, At
  <2>2. Cardinality(Sold') = Cardinality(Sold) + 1
    BY <1>1, <2>1, Counts
  <2> QED
    BY <1>7, <2>1, <2>2 DEF StoreSold
<1>8. CASE main \/ UNCHANGED vars
  <2>1. Took' = Took /\ Sold' = Sold
    BY <1>8 DEF main, vars, Took, Sold, At
  <2> QED
    BY <1>8, <2>1 DEF main, vars
<1> QED
  BY <1>5, <1>6, <1>7, <1>8, <1>9 DEF Next, sell

\* On either platform no seller takes or sells more than one (NoneInvented),
\* so lost updates never turn 700 sellers into more than 1000 sales.
THEOREM NoneInventedTheorem == Spec => []NoneInvented
<1>1. Init => Bounded
  <2>1. ASSUME Init PROVE Took = {} /\ Sold = {}
    BY <2>1 DEF Init, Took, Sold, At
  <2> QED
    BY <2>1, FS_EmptySet, StockAssumption DEF Init, Bounded
<1>2. Bounded => NoneInvented
  BY DEF Bounded, NoneInvented, Took, Sold
<1> QED
  BY <1>1, <1>2, SaleInit, SaleStep, BoundedStep, PTL DEF Spec
=============================================================================
