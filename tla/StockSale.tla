----------------------------- MODULE StockSale ------------------------------
(***************************************************************************)
(* hw2/p2.c: many threads sell from one stock.  lock and unlock hand the   *)
(* semaphore on by value.  On macOS it is a reference; elsewhere sem_wait  *)
(* and sem_post work on a copy, and the semaphore itself stays at 1.       *)
(*                                                                         *)
(* `stock -= 1` and `sold += 1` are plain memory accesses: a load and a    *)
(* store, between which another processor may access the same variable.    *)
(***************************************************************************)
EXTENDS Integers, FiniteSets

CONSTANTS Sellers,      \* the threads trigger_race_condition creates: 700
          total_stock,  \* 1000
          Platforms     \* the systems p2.c is compiled on

ASSUME SellersAssumption == IsFiniteSet(Sellers)
ASSUME StockAssumption == total_stock \in Nat
ASSUME PlatformAssumption == Platforms \subseteq {"__APPLE__", "Linux"}

VARIABLES
  platform,
  pc,          \* pc[t]: where seller t is
  mutex,       \* the value of the semaphore
  stock, sold,
  reg,         \* reg[t]: what seller t has loaded
  message      \* what main prints at the end

vars == <<platform, pc, mutex, stock, sold, reg, message>>

Init ==
  /\ platform \in Platforms
  /\ pc = [t \in Sellers |-> "lock"]
  /\ mutex = 1
  /\ stock = total_stock
  /\ sold = 0
  /\ reg = [t \in Sellers |-> 0]
  /\ message = "none"

Go(t, from, to) == pc[t] = from /\ pc' = [pc EXCEPT ![t] = to]

-----------------------------------------------------------------------------
psem_wait ==
  /\ mutex > 0
  /\ mutex' = IF platform = "__APPLE__" THEN mutex - 1 ELSE mutex

\* Mutants: the semaphore is not released, or released twice.
psem_post_Never == UNCHANGED mutex
psem_post_Twice == mutex' = IF platform = "__APPLE__" THEN mutex + 2 ELSE mutex

psem_post == mutex' = IF platform = "__APPLE__" THEN mutex + 1 ELSE mutex

lock(t) ==
  /\ Go(t, "lock", "test")
  /\ psem_wait
  /\ UNCHANGED <<platform, stock, sold, reg, message>>

\* Mutant: sells the stock that is not there.
Test_None(t) ==
  /\ Go(t, "test", IF stock >= 0 THEN "load_stock" ELSE "unlock")
  /\ UNCHANGED <<platform, mutex, stock, sold, reg, message>>

Test(t) ==
  /\ Go(t, "test", IF stock > 0 THEN "load_stock" ELSE "unlock")
  /\ UNCHANGED <<platform, mutex, stock, sold, reg, message>>

LoadStock(t) ==
  /\ Go(t, "load_stock", "store_stock")
  /\ reg' = [reg EXCEPT ![t] = stock]
  /\ UNCHANGED <<platform, mutex, stock, sold, message>>

StoreStock(t) ==
  /\ Go(t, "store_stock", "load_sold")
  /\ stock' = reg[t] - 1
  /\ UNCHANGED <<platform, mutex, sold, reg, message>>

LoadSold(t) ==
  /\ Go(t, "load_sold", "store_sold")
  /\ reg' = [reg EXCEPT ![t] = sold]
  /\ UNCHANGED <<platform, mutex, stock, sold, message>>

\* Mutant: sells twice.
StoreSold_Twice(t) ==
  /\ Go(t, "store_sold", "unlock")
  /\ sold' = reg[t] + 2
  /\ UNCHANGED <<platform, mutex, stock, reg, message>>

StoreSold(t) ==
  /\ Go(t, "store_sold", "unlock")
  /\ sold' = reg[t] + 1
  /\ UNCHANGED <<platform, mutex, stock, reg, message>>

unlock(t) ==
  /\ Go(t, "unlock", "done")
  /\ psem_post
  /\ UNCHANGED <<platform, stock, sold, reg, message>>

sell(t) ==
  \/ lock(t) \/ Test(t) \/ LoadStock(t) \/ StoreStock(t)
  \/ LoadSold(t) \/ StoreSold(t) \/ unlock(t)

\* main joins the sellers and says whether the numbers add up.
main ==
  /\ message = "none"
  /\ \A t \in Sellers : pc[t] = "done"
  /\ message' = IF stock + sold = total_stock THEN "All_done" ELSE "What_just_happened"
  /\ UNCHANGED <<platform, pc, mutex, stock, sold, reg>>

Next == main \/ \E t \in Sellers : sell(t)

Spec == Init /\ [][Next]_vars

\* The threads are scheduled; a seller that waits gets the semaphore once it
\* has been released, since no seller asks for it twice.
FairSpec == Spec /\ WF_vars(main) /\ \A t \in Sellers : WF_vars(sell(t))

-----------------------------------------------------------------------------
(* Properties *)

TypeOK ==
  /\ platform \in Platforms
  /\ pc \in [Sellers -> {"lock", "test", "load_stock", "store_stock",
                          "load_sold", "store_sold", "unlock", "done"}]
  /\ mutex \in {0, 1}
  /\ stock \in Int
  /\ sold \in Nat
  /\ reg \in [Sellers -> Int]
  /\ message \in {"none", "All_done", "What_just_happened"}

At(labels) == {t \in Sellers : pc[t] \in labels}

\* The sellers in the middle of a sale: out of the stock, not yet sold.
Midway == At({"load_sold", "store_sold"})

\* Where the semaphore is a reference, the loads and stores amount to sales
\* in one step each: none is lost, and no more is sold than there is.
Sale == INSTANCE AtomicSale
  WITH Stock <- total_stock,
       stock <- stock + (IF Midway = {} THEN 0 ELSE 1)

SalesAreAtomic ==
  /\ platform = "__APPLE__" => Sale!Init
  /\ [][platform = "__APPLE__" => [Sale!Sell]_(Sale!vars)]_vars

\* Elsewhere updates are lost but never invented: no seller takes or sells
\* more than one, so 700 sellers never sell more than 1000 (the comment at
\* p2.c:63 expects "more sales than stocks available").
NoneInvented ==
  /\ stock >= total_stock - Cardinality(At({"load_sold", "store_sold", "unlock", "done"}))
  /\ sold <= Cardinality(At({"unlock", "done"}))

\* main's own test of the outcome, p2.c:104.
AllDone == message # "What_just_happened"

\* Every sale comes to an end, on either platform.
Termination == <>(message # "none")
=============================================================================
