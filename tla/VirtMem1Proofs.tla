--------------------------- MODULE VirtMem1Proofs ---------------------------
(***************************************************************************)
(* Theorems about VirtMem1 for every number of pages, size of the TLB and  *)
(* input.  The types hold for all of them; that translation and memory     *)
(* agree, as long as every page fits the TLB's unsigned chars.             *)
(***************************************************************************)
EXTENDS VirtMem1, RingProofs, FiniteSetTheorems, TLAPS

-----------------------------------------------------------------------------
LEMMA LookupType ==
  ASSUME TypeOK, NEW p \in Pages
  PROVE  Lookup(p) \in Frames \cup {-1}
<1>1. CASE Holding(tlb, tlbindex, TLB_SIZE, p % UCHAR) = {}
  BY <1>1 DEF Lookup, search_tlb
<1>2. CASE Holding(tlb, tlbindex, TLB_SIZE, p % UCHAR) # {}
  BY <1>2, SearchFinds, SizeAssumption DEF Lookup, TypeOK, Holding
<1> QED
  BY <1>1, <1>2

LEMMA InsertType ==
  ASSUME TypeOK, NEW p \in Pages, NEW f \in Frames, Insert(p, f)
  PROVE  /\ tlb' \in [0 .. TLB_SIZE - 1 -> [logical : Frames, physical : Frames]]
         /\ tlbindex' \in Nat
<1>1. p % UCHAR \in Frames /\ f % UCHAR \in Frames /\ tlbindex % TLB_SIZE \in 0 .. TLB_SIZE - 1
  BY Remainder, SizeAssumption DEF Pages, Frames, TypeOK
<1> QED
  BY <1>1 DEF Insert, add_to_tlb, TypeOK

LEMMA TypeStep == TypeOK /\ [Next]_vars => TypeOK'
<1> SUFFICES ASSUME TypeOK, [Next]_vars PROVE TypeOK'
  OBVIOUS
<1>0. Referenced \subseteq Pages /\ Frames \subseteq Pages /\ -1 \notin Frames /\ Frames \subseteq Int
  BY SizeAssumption, ReferencedAssumption DEF Pages, Frames
<1>1. ASSUME NEW p \in Referenced, TLBHit(p) PROVE TypeOK'
  <2>1. Lookup(p) \in Frames
    BY <1>0, <1>1, LookupType DEF TLBHit
  <2> QED
    <3>1. output' \in Pages \X Frames \X (Pages \cup {Zero})
      BY <1>0, <1>1, <2>1 DEF TLBHit, PrintLine, TypeOK
    <3> QED
      BY <1>1, <3>1 DEF TLBHit, ReadLine, TypeOK
<1>2. ASSUME NEW p \in Referenced, TableHit(p) PROVE TypeOK'
  <2>1. pagetable[p] \in Frames
    BY <1>0, <1>2 DEF TableHit, TypeOK
  <2>2. /\ tlb' \in [0 .. TLB_SIZE - 1 -> [logical : Frames, physical : Frames]]
        /\ tlbindex' \in Nat
    BY <1>0, <1>2, <2>1, InsertType DEF TableHit
  <2> QED
    <3>1. output' \in Pages \X Frames \X (Pages \cup {Zero})
      BY <1>0, <1>2, <2>1 DEF TableHit, PrintLine, TypeOK
    <3> QED
      BY <1>2, <2>2, <3>1 DEF TableHit, ReadLine, TypeOK
<1>3. ASSUME NEW p \in Referenced, PageFault(p) PROVE TypeOK'
  <2>1. free_page \in Frames /\ free_page' \in Frames
    BY <1>3, Remainder, SizeAssumption DEF PageFault, TypeOK, Frames
  <2>2. /\ tlb' \in [0 .. TLB_SIZE - 1 -> [logical : Frames, physical : Frames]]
        /\ tlbindex' \in Nat
    BY <1>0, <1>3, <2>1, InsertType DEF PageFault
  <2>3. pagetable' \in [Pages -> Frames \cup {-1}]
    BY <1>3, <2>1 DEF PageFault, TypeOK
  <2>4. main_memory' \in [Pages -> Pages \cup {Zero}]
    BY <1>0, <1>3, <2>1 DEF PageFault, TypeOK
  <2>5. output' \in Pages \X Frames \X (Pages \cup {Zero})
    BY <1>0, <1>3, <2>1, <2>4 DEF PageFault, PrintLine
  <2> QED
    BY <1>3, <2>1, <2>2, <2>3, <2>4, <2>5 DEF PageFault, ReadLine, TypeOK
<1>4. CASE UNCHANGED vars
  BY <1>4 DEF vars, counters, TypeOK
<1> QED
  BY <1>1, <1>2, <1>3, <1>4 DEF Next

LEMMA TypeInit == Init => TypeOK
  BY SizeAssumption DEF Init, TypeOK, Frames, Pages

\* Whatever the input, every frame number fits its unsigned char and every
\* page number that is stored is one.
THEOREM TypeTheorem == Spec => []TypeOK
  BY TypeInit, TypeStep, PTL DEF Spec

-----------------------------------------------------------------------------
\* The inductive invariant: the TLB repeats the page table, the frame of a
\* page holds that page, and the frames are given away once each, in order.
Filled == \A p \in Mapped : main_memory[pagetable[p]] = p
Allotted ==
  /\ Mapped \subseteq Referenced
  /\ page_faults = Cardinality(Mapped)
  /\ \A p \in Mapped : pagetable[p] < page_faults
  /\ page_faults < UCHAR => free_page = page_faults
Coherent == TypeOK /\ TLBCoherent /\ Filled /\ Allotted /\ ReadsRight

LEMMA SmallEnough ==
  ASSUME NEW x \in Frames
  PROVE  x % UCHAR = x
  BY Remainder, SizeAssumption DEF Frames

LEMMA CoherentRepeats ==
  ASSUME TypeOK
  PROVE  TLBCoherent <=> Repeats(tlb, tlbindex, TLB_SIZE, pagetable)
<1>1. DOMAIN pagetable = Pages /\ Slots(tlbindex, TLB_SIZE) = Written
  BY DEF TypeOK, Slots, Written
<1> QED
  BY <1>1 DEF TLBCoherent, Repeats, Mapped

LEMMA LookupRight ==
  ASSUME TypeOK, TLBCoherent, NEW p \in Frames
  PROVE  Lookup(p) # -1 => p \in Mapped /\ Lookup(p) = pagetable[p]
<1>1. Lookup(p) = search_tlb(tlb, tlbindex, TLB_SIZE, p)
  BY SmallEnough DEF Lookup
<1>2. TLB_SIZE \in Nat \ {0} /\ tlbindex \in Nat /\ DOMAIN pagetable = Pages
  BY SizeAssumption DEF TypeOK
<1>3. Repeats(tlb, tlbindex, TLB_SIZE, pagetable)
  BY CoherentRepeats
<1>4. search_tlb(tlb, tlbindex, TLB_SIZE, p) # -1 =>
        /\ p \in DOMAIN pagetable /\ pagetable[p] # -1
        /\ search_tlb(tlb, tlbindex, TLB_SIZE, p) = pagetable[p]
  BY ONLY <1>2, <1>3, SearchAgrees
<1> QED
  BY <1>1, <1>2, <1>4 DEF Mapped

LEMMA InsertCoherent ==
  ASSUME TypeOK, TLBCoherent, TypeOK', NEW p \in Frames, NEW f \in Frames, Insert(p, f), Lookup(p) = -1,
         pagetable[p] \in {-1, f}, pagetable' = [pagetable EXCEPT ![p] = f]
  PROVE  TLBCoherent'
<1>1. p % UCHAR = p /\ f % UCHAR = f
  BY SmallEnough
<1>2. p \in Pages /\ f # -1
  BY SizeAssumption DEF Frames, Pages
<1>3. /\ tlb' = add_to_tlb(tlb, tlbindex, TLB_SIZE, p, f) /\ tlbindex' = tlbindex + 1
      /\ search_tlb(tlb, tlbindex, TLB_SIZE, p) = -1
  BY <1>1 DEF Insert, Lookup
<1>4. /\ TLB_SIZE \in Nat \ {0} /\ tlbindex \in Nat
      /\ DOMAIN tlb = 0 .. TLB_SIZE - 1 /\ tlb = [k \in DOMAIN tlb |-> tlb[k]]
      /\ DOMAIN pagetable = Pages /\ pagetable = [q \in DOMAIN pagetable |-> pagetable[q]]
  BY SizeAssumption DEF TypeOK
<1>5. Repeats(tlb, tlbindex, TLB_SIZE, pagetable)
  BY CoherentRepeats
<1>6. Repeats(tlb', tlbindex', TLB_SIZE, pagetable')
  BY ONLY <1>2, <1>3, <1>4, <1>5, AddAgrees, pagetable[p] \in {-1, f},
     pagetable' = [pagetable EXCEPT ![p] = f]
<1>7. DOMAIN pagetable' = Pages /\ Slots(tlbindex', TLB_SIZE) = Written'
  BY DEF TypeOK, Slots, Written
<1> QED
  BY <1>6, <1>7 DEF TLBCoherent, Repeats, Mapped

\* A page that is not in memory finds a frame that no other page is in.
LEMMA FrameLeft ==
  ASSUME Referenced \subseteq Frames, TypeOK, Allotted, NEW p \in Referenced \ Mapped
  PROVE  /\ page_faults \in 0 .. UCHAR - 1 /\ free_page = page_faults
         /\ Cardinality(Mapped \cup {p}) = page_faults + 1
<1>1. IsFiniteSet(Frames) /\ Cardinality(Frames) = UCHAR
  BY FS_Interval, SizeAssumption DEF Frames
<1>2. Mapped \cup {p} \in SUBSET Frames /\ Mapped \in SUBSET Frames
  BY DEF Allotted
<1>3. IsFiniteSet(Mapped) /\ Cardinality(Mapped) \in Nat
  BY <1>1, <1>2, FS_Subset, FS_CardinalityType
<1>4. Cardinality(Mapped \cup {p}) = page_faults + 1
  BY <1>3, FS_AddElement DEF Allotted
<1>5. Cardinality(Mapped \cup {p}) <= UCHAR
  BY <1>1, <1>2, FS_Subset
<1>6. page_faults < UCHAR
  BY <1>3, <1>4, <1>5, SizeAssumption DEF Allotted
<1> QED
  BY <1>3, <1>4, <1>6, SizeAssumption DEF Allotted

LEMMA CoherentStep ==
  ASSUME Referenced \subseteq Frames
  PROVE  Coherent /\ [Next]_vars => Coherent'
<1> SUFFICES ASSUME Coherent, [Next]_vars PROVE Coherent'
  OBVIOUS
<1>0. TypeOK' /\ Frames \subseteq Pages /\ -1 \notin Frames
  BY TypeStep, SizeAssumption DEF Coherent, Frames, Pages
<1>1. ASSUME NEW p \in Referenced, TLBHit(p) PROVE Coherent'
  <2>1. p \in Mapped /\ Lookup(p) = pagetable[p]
    BY <1>1, LookupRight DEF Coherent, TLBHit
  <2>2. output' = <<p, pagetable[p], main_memory[pagetable[p]]>>
    BY <1>1, <2>1 DEF TLBHit, PrintLine
  <2>3. ReadsRight'
    BY <2>1, <2>2 DEF Coherent, Filled, ReadsRight
  <2> QED
    BY <1>0, <1>1, <2>3 DEF TLBHit, Coherent, TLBCoherent, Filled, Allotted, Mapped, Written
<1>2. ASSUME NEW p \in Referenced, TableHit(p) PROVE Coherent'
  <2>1. p \in Frames /\ p \in Mapped /\ pagetable[p] \in Frames
    BY <1>0, <1>2 DEF TableHit, Coherent, TypeOK, Mapped
  <2>2. pagetable' = pagetable /\ pagetable' = [pagetable EXCEPT ![p] = pagetable[p]]
    BY <1>2 DEF TableHit, Coherent, TypeOK
  <2>3. TLBCoherent'
    BY <1>0, <1>2, <2>1, <2>2, InsertCoherent DEF TableHit, Coherent
  <2>4. output' = <<p, pagetable[p], main_memory[pagetable[p]]>>
    BY <1>2 DEF TableHit, PrintLine
  <2>5. ReadsRight'
    BY <2>1, <2>4 DEF Coherent, Filled, ReadsRight
  <2> QED
    BY <1>0, <1>2, <2>3, <2>5 DEF TableHit, Coherent, Filled, Allotted, Mapped
<1>3. ASSUME NEW p \in Referenced, PageFault(p) PROVE Coherent'
  <2>1. p \in Frames /\ p \in Pages /\ p \notin Mapped /\ pagetable[p] = -1
    BY <1>0, <1>3 DEF PageFault, Mapped
  <2>2. /\ page_faults \in 0 .. UCHAR - 1 /\ free_page = page_faults
        /\ Cardinality(Mapped \cup {p}) = page_faults + 1
    BY <2>1, FrameLeft DEF Coherent
  <2>3. free_page \in Frames /\ free_page \in Pages
    BY <1>0, <2>2 DEF Frames
  <2>4. /\ pagetable' = [pagetable EXCEPT ![p] = free_page]
        /\ main_memory' = [main_memory EXCEPT ![free_page] = p]
        /\ page_faults' = page_faults + 1
        /\ free_page' = (free_page + 1) % UCHAR
    BY <1>3 DEF PageFault
  <2>5. TLBCoherent'
    BY <1>0, <1>3, <2>1, <2>3, <2>4, InsertCoherent DEF PageFault, Coherent
  <2>6. /\ Mapped' = Mapped \cup {p} /\ pagetable'[p] = free_page
        /\ \A q \in Mapped : pagetable'[q] = pagetable[q]
    BY <1>0, <2>1, <2>3, <2>4 DEF Mapped, Coherent, TypeOK
  <2>7. \A q \in Mapped : pagetable[q] \in Frames /\ pagetable[q] < free_page
    BY <2>2 DEF Coherent, Allotted, TypeOK, Mapped
  <2>8. Filled'
    <3>1. main_memory'[free_page] = p
      BY <2>3, <2>4 DEF Coherent, TypeOK
    <3>2. \A q \in Mapped : pagetable[q] # free_page
      BY <2>2, <2>7 DEF Frames
    <3>3. \A q \in Mapped : main_memory'[pagetable[q]] = main_memory[pagetable[q]]
      BY <1>0, <2>4, <2>7, <3>2 DEF Coherent, TypeOK
    <3> QED
      BY <2>6, <3>1, <3>3 DEF Coherent, Filled
  <2>9. Allotted'
    <3>1. Mapped' \subseteq Referenced /\ page_faults' = Cardinality(Mapped')
      BY <2>2, <2>4, <2>6 DEF Coherent, Allotted
    <3>2. \A q \in Mapped' : pagetable'[q] < page_faults'
      BY <2>2, <2>4, <2>6, <2>7 DEF Frames
    <3>3. page_faults' < UCHAR => free_page' = page_faults'
      <4>1. free_page + 1 < UCHAR => (free_page + 1) % UCHAR = free_page + 1
        BY <2>2, SizeAssumption
      <4> QED
        BY <2>2, <2>4, <4>1
    <3> QED
      BY <3>1, <3>2, <3>3 DEF Allotted
  <2>10. ReadsRight'
    <3>1. output' = <<p, free_page, main_memory'[free_page]>>
      BY <1>3 DEF PageFault, PrintLine
    <3>2. main_memory'[free_page] = p
      BY <2>3, <2>4 DEF Coherent, TypeOK
    <3> QED
      BY <3>1, <3>2 DEF ReadsRight
  <2> QED
    BY <1>0, <2>5, <2>8, <2>9, <2>10 DEF Coherent
<1>4. CASE UNCHANGED vars
  BY <1>0, <1>4 DEF vars, counters, Coherent, TLBCoherent, Filled, Allotted, ReadsRight, Mapped, Written
<1> QED
  BY <1>1, <1>2, <1>3, <1>4 DEF Next

LEMMA CoherentInit == Init => Coherent
<1> SUFFICES ASSUME Init PROVE Coherent
  OBVIOUS
<1>1. Mapped = {} /\ Written = {}
  BY DEF Init, Mapped, Written
<1> QED
  BY <1>1, TypeInit, FS_EmptySet DEF Init, Coherent, TLBCoherent, Filled, Allotted, ReadsRight

\* If every page fits the unsigned chars, a read returns the page that was
\* asked for, whichever of the TLB and the page table translated it.
THEOREM ReadTheorem ==
  ASSUME Referenced \subseteq Frames
  PROVE  Spec => []ReadsRight
<1>1. Coherent => ReadsRight
  BY DEF Coherent
<1> QED
  BY <1>1, CoherentInit, CoherentStep, PTL DEF Spec

\* Under the same assumption the TLB never contradicts the page table, and no
\* page is in it twice.
THEOREM CoherenceTheorem ==
  ASSUME Referenced \subseteq Frames
  PROVE  Spec => []TLBCoherent
<1>1. Coherent => TLBCoherent
  BY DEF Coherent
<1> QED
  BY <1>1, CoherentInit, CoherentStep, PTL DEF Spec

-----------------------------------------------------------------------------
\* Every access of part1.c is an access of demand paging.
Table  == [p \in Mapped |-> pagetable[p]]
Access == IF output = <<>> THEN <<>> ELSE <<output[1], output[2]>>

LEMMA PagingStep ==
  ASSUME Referenced \subseteq Frames
  PROVE  Coherent /\ [Next]_vars => [Paging!Next]_(Paging!vars)
<1> SUFFICES ASSUME Coherent, [Next]_vars
             PROVE  [Paging!Next]_(Paging!vars)
  OBVIOUS
<1>0. TypeOK /\ Frames \subseteq Pages /\ -1 \notin Frames
  BY SizeAssumption DEF Coherent, Frames, Pages
<1>1. ASSUME NEW p \in Referenced, TLBHit(p) PROVE Paging!Next
  <2>1. p \in Mapped /\ Lookup(p) = pagetable[p]
    BY <1>1, LookupRight DEF Coherent, TLBHit
  <2>2. output' = <<p, pagetable[p], main_memory[pagetable[p]]>> /\ pagetable' = pagetable
    BY <1>1, <2>1 DEF TLBHit, PrintLine
  <2>3. Table' = Table /\ Access' = <<p, Table[p]>>
    BY <2>1, <2>2 DEF Table, Access, Mapped
  <2> QED
    BY <2>1, <2>3 DEF Paging!Next, Paging!Use, Table, Access
<1>2. ASSUME NEW p \in Referenced, TableHit(p) PROVE Paging!Next
  <2>1. p \in Mapped
    BY <1>0, <1>2 DEF TableHit, Mapped
  <2>2. output' = <<p, pagetable[p], main_memory[pagetable[p]]>> /\ pagetable' = pagetable
    BY <1>2 DEF TableHit, PrintLine
  <2>3. Table' = Table /\ Access' = <<p, Table[p]>>
    BY <2>1, <2>2 DEF Table, Access, Mapped
  <2> QED
    BY <2>1, <2>3 DEF Paging!Next, Paging!Use, Table, Access
<1>3. ASSUME NEW p \in Referenced, PageFault(p) PROVE Paging!Next
  <2>1. p \in Pages /\ p \notin Mapped
    BY <1>0, <1>3 DEF PageFault, Mapped
  <2>2. page_faults \in 0 .. UCHAR - 1 /\ free_page = page_faults
    BY <2>1, FrameLeft DEF Coherent
  <2>3. free_page \in Frames
    BY <2>2 DEF Frames
  <2>4. /\ pagetable' = [pagetable EXCEPT ![p] = free_page]
        /\ output' = <<p, free_page, main_memory'[free_page]>>
    BY <1>3 DEF PageFault, PrintLine
  <2>5. /\ Mapped' = Mapped \cup {p} /\ pagetable'[p] = free_page
        /\ \A q \in Mapped : pagetable'[q] = pagetable[q]
    BY <1>0, <2>1, <2>3, <2>4 DEF Mapped, TypeOK
  <2>6. \A q \in Mapped : pagetable[q] # free_page
    BY <2>2 DEF Coherent, Allotted, TypeOK, Mapped, Frames
  <2>7. DOMAIN Table = Mapped /\ \A q \in DOMAIN Table : Table[q] # free_page
    BY <2>6 DEF Table
  <2>8. Access' = <<p, free_page>>
    BY <2>4 DEF Access
  <2>9. Table' = [q \in DOMAIN Table \cup {p} |-> IF q = p THEN free_page ELSE Table[q]]
    BY <2>1, <2>5, <2>7 DEF Table
  <2>10. Paging!BringIn(p)
    BY <2>1, <2>3, <2>7, <2>8, <2>9 DEF Paging!BringIn, Paging!Maps, Table, Access
  <2> QED
    BY <2>10 DEF Paging!Next
<1>4. CASE UNCHANGED vars
  BY <1>4 DEF vars, Paging!vars, Mapped
<1> QED
  BY <1>1, <1>2, <1>3, <1>4 DEF Next

\* The TLB and the counters add nothing to what a program sees: as long as
\* every page fits the unsigned chars, part1.c implements DemandPaging.
THEOREM PagingTheorem ==
  ASSUME Referenced \subseteq Frames
  PROVE  Spec => PagingSpec
<1>1. Init => Paging!Init
  <2> SUFFICES ASSUME Init PROVE Paging!Init
    OBVIOUS
  <2>1. Mapped = {}
    BY DEF Init, Mapped
  <2> QED
    BY <2>1 DEF Init, Paging!Init
<1> QED
  BY <1>1, CoherentInit, CoherentStep, PagingStep, PTL DEF Spec, PagingSpec, Paging!Spec
=============================================================================
