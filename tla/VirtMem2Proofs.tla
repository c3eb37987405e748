--------------------------- MODULE VirtMem2Proofs ---------------------------
(***************************************************************************)
(* Theorems about VirtMem2 for every number of pages and frames, size of   *)
(* the TLB, input and speed of the clock, under either policy.             *)
(***************************************************************************)
EXTENDS VirtMem2, RingProofs, FiniteSetTheorems, TLAPS

\* Counting on by one turns the remainder over at the divisor.
LEMMA NextRemainder ==
  ASSUME NEW m \in Nat \ {0}, NEW n \in Nat
  PROVE  (n + 1) % m = IF n % m = m - 1 THEN 0 ELSE (n % m) + 1
<1>1. PICK q \in Nat : n = m * q + (n % m) /\ n % m \in 0 .. m - 1
  <2>1. n \div m \in Nat /\ n = m * (n \div m) + (n % m) /\ n % m \in 0 .. m - 1
    OBVIOUS
  <2> QED
    BY <2>1
<1>2. ASSUME NEW k \in Nat, NEW r \in 0 .. m - 1, NEW x \in Nat, x = m * k + r
      PROVE  x % m = r
  BY <1>2
<1>3. CASE n % m = m - 1
  <2> DEFINE k == q + 1
             x == n + 1
  <2>1. k \in Nat /\ x \in Nat /\ 0 \in 0 .. m - 1 /\ x = m * k + 0
    BY <1>1, <1>3
  <2> HIDE DEF k, x
  <2>2. x % m = 0
    BY ONLY <1>2, <2>1
  <2> QED
    BY <1>3, <2>2 DEF x
<1>4. CASE n % m # m - 1
  <2> DEFINE r == (n % m) + 1
             x == n + 1
  <2>1. r \in 0 .. m - 1 /\ x \in Nat /\ x = m * q + r
    BY <1>1, <1>4
  <2> HIDE DEF r, x
  <2>2. x % m = r
    BY ONLY <1>1, <1>2, <2>1
  <2> QED
    BY <1>4, <2>2 DEF r, x
<1> QED
  BY <1>3, <1>4

-----------------------------------------------------------------------------
\* The clock is ahead of every use, frame FRAME-1 is never used, and under
\* policy 1 every line uses some frame.
Times ==
  /\ \A f \in Frames : physicalPageCount[f] <= clock
  /\ physicalPageCount[FRAME - 1] = 0
  /\ policyChoice = 1 => \E f \in Frames : physicalPageCount[f] = clock

\* Under policy 0 free_page follows the number of page faults round.
Turn ==
  policyChoice = 0 =>
    free_page = IF page_faults = 0 THEN 0 ELSE ((page_faults - 1) % (FRAME - 1)) + 1

Paged == TypeOK /\ TLBCoherent /\ ColdFaultsOnly /\ LastFrameIdle /\ Times /\ Turn

LEMMA CoherentRepeats ==
  ASSUME TypeOK
  PROVE  TLBCoherent <=> Repeats(tlb, tlbindex, TLB_SIZE, pagetable)
<1>1. DOMAIN pagetable = Pages /\ Slots(tlbindex, TLB_SIZE) = Written
  BY DEF TypeOK, Slots, Written
<1> QED
  BY <1>1 DEF TLBCoherent, Repeats, Mapped

LEMMA LookupRight ==
  ASSUME TypeOK, TLBCoherent, NEW p \in Pages, Lookup(p) # -1
  PROVE  p \in Mapped /\ Lookup(p) = pagetable[p]
<1>1. TLB_SIZE \in Nat \ {0} /\ tlbindex \in Nat /\ DOMAIN pagetable = Pages
  BY SizeAssumption DEF TypeOK
<1>2. Repeats(tlb, tlbindex, TLB_SIZE, pagetable)
  BY CoherentRepeats
<1>3. search_tlb(tlb, tlbindex, TLB_SIZE, p) # -1 =>
        /\ p \in DOMAIN pagetable /\ pagetable[p] # -1
        /\ search_tlb(tlb, tlbindex, TLB_SIZE, p) = pagetable[p]
  BY ONLY <1>1, <1>2, SearchAgrees
<1> QED
  BY <1>1, <1>3 DEF Lookup, Mapped

LEMMA InsertCoherent ==
  ASSUME TypeOK, TLBCoherent, TypeOK', NEW p \in Pages, NEW f \in Frames, Insert(p, f), Lookup(p) = -1,
         pagetable[p] \in {-1, f}, pagetable' = [pagetable EXCEPT ![p] = f]
  PROVE  TLBCoherent'
<1>1. f # -1
  BY SizeAssumption DEF Frames
<1>2. /\ tlb' = add_to_tlb(tlb, tlbindex, TLB_SIZE, p, f) /\ tlbindex' = tlbindex + 1
      /\ search_tlb(tlb, tlbindex, TLB_SIZE, p) = -1
  BY DEF Insert, Lookup
<1>3. /\ TLB_SIZE \in Nat \ {0} /\ tlbindex \in Nat
      /\ DOMAIN tlb = 0 .. TLB_SIZE - 1 /\ tlb = [k \in DOMAIN tlb |-> tlb[k]]
      /\ p \in DOMAIN pagetable /\ pagetable = [q \in DOMAIN pagetable |-> pagetable[q]]
  BY SizeAssumption DEF TypeOK
<1>4. Repeats(tlb, tlbindex, TLB_SIZE, pagetable)
  BY CoherentRepeats
<1>5. Repeats(tlb', tlbindex', TLB_SIZE, pagetable')
  BY ONLY <1>1, <1>2, <1>3, <1>4, AddAgrees, pagetable[p] \in {-1, f},
     pagetable' = [pagetable EXCEPT ![p] = f]
<1>6. DOMAIN pagetable' = Pages /\ Slots(tlbindex', TLB_SIZE) = Written'
  BY DEF TypeOK, Slots, Written
<1> QED
  BY <1>5, <1>6 DEF TLBCoherent, Repeats, Mapped

\* findLastRecentlyUsed finds a frame: one with the largest time, and never
\* the last one, which ties with all others at best.
LEMMA FindsNewest ==
  ASSUME TypeOK, Times
  PROVE  /\ findLastRecentlyUsed \in 0 .. FRAME - 2
         /\ \A g \in Frames : physicalPageCount[g] <= physicalPageCount[findLastRecentlyUsed]
<1> DEFINE Best(f) == \A g \in Frames : \/ physicalPageCount[g] < physicalPageCount[f]
                                        \/ physicalPageCount[g] = physicalPageCount[f] /\ f <= g
           waits == {clock - physicalPageCount[f] : f \in Frames}
<1>1. Frames # {} /\ Frames \in SUBSET Nat /\ 0 \in Frames /\ FRAME - 1 \in Frames /\ FRAME - 1 # 0
  BY SizeAssumption DEF Frames
<1>2. \A f \in Frames : physicalPageCount[f] \in Nat /\ clock - physicalPageCount[f] \in Nat
  BY DEF TypeOK, Times
<1>3. PICK f \in Frames : \A g \in Frames : physicalPageCount[g] <= physicalPageCount[f]
  <2>1. waits \in SUBSET Nat /\ waits # {}
    BY <1>1, <1>2
  <2>2. PICK w \in waits : \A v \in waits : w <= v
    <3> HIDE DEF waits
    <3> QED
      BY ONLY <2>1, Least
  <2>3. PICK f \in Frames : w = clock - physicalPageCount[f]
    OBVIOUS
  <2>4. \A g \in Frames : clock - physicalPageCount[f] <= clock - physicalPageCount[g]
    BY <2>2, <2>3
  <2>5. clock \in Nat
    BY DEF TypeOK
  <2> QED
    BY ONLY <1>2, <2>4, <2>5
<1> DEFINE newest == {g \in Frames : physicalPageCount[g] = physicalPageCount[f]}
<1>4. newest \in SUBSET Nat /\ newest # {}
  BY <1>1
<1>5. PICK b \in newest : \A g \in newest : b <= g
  <2> HIDE DEF newest
  <2> QED
    BY ONLY <1>4, Least
<1>6. b \in Frames /\ Best(b)
  BY <1>2, <1>3, <1>5
<1>7. findLastRecentlyUsed \in Frames /\ Best(findLastRecentlyUsed)
  <2> HIDE DEF Best
  <2>1. findLastRecentlyUsed = CHOOSE h \in Frames : Best(h)
    BY DEF findLastRecentlyUsed, Best
  <2> QED
    BY ONLY <1>6, <2>1
<1>8. findLastRecentlyUsed # FRAME - 1
  BY <1>1, <1>2, <1>7, SizeAssumption DEF Times
<1> HIDE DEF findLastRecentlyUsed
<1>9. findLastRecentlyUsed \in 0 .. FRAME - 2
  BY <1>7, <1>8, SizeAssumption DEF Frames
<1> QED
  BY <1>2, <1>7, <1>9

\* Policy 0's next frame is the number of faults so far, counted round.
LEMMA NextFrame ==
  ASSUME Turn, policyChoice = 0, page_faults \in Nat
  PROVE  (IF free_page = FRAME - 1 THEN 0 ELSE free_page) = page_faults % (FRAME - 1)
<1> DEFINE m == FRAME - 1
           n == page_faults - 1
<1>1. m \in Nat \ {0}
  BY SizeAssumption
<1>2. CASE page_faults = 0
  <2>1. free_page = 0
    BY <1>2 DEF Turn
  <2> HIDE DEF m
  <2>2. 0 \in 0 .. m - 1 /\ m # 0
    BY ONLY <1>1
  <2>3. 0 % m = 0
    BY <1>1, <2>2, Remainder
  <2> QED
    BY <1>2, <2>1, <2>2, <2>3 DEF m
<1>3. CASE page_faults # 0
  <2>1. n \in Nat /\ n + 1 = page_faults
    BY <1>3
  <2>2. free_page = (n % m) + 1
    BY <1>3 DEF Turn
  <2> HIDE DEF m, n
  <2>3. (n + 1) % m = IF n % m = m - 1 THEN 0 ELSE (n % m) + 1
    BY <1>1, <2>1, NextRemainder
  <2>4. n % m \in 0 .. m - 1
    BY <1>1, <2>1, Remainder
  <2>5. (IF free_page = m THEN 0 ELSE free_page) = (n + 1) % m
    BY <1>1, <2>2, <2>3, <2>4
  <2> QED
    BY <2>1, <2>5 DEF m
<1> QED
  BY <1>2, <1>3

-----------------------------------------------------------------------------
LEMMA Sizes ==
  /\ Referenced \subseteq Pages /\ 0 .. FRAME - 2 \subseteq Frames /\ -1 \notin Frames
  /\ FRAME - 1 \in Frames /\ 0 \in Frames /\ Frames \subseteq Nat /\ FRAME - 1 \in Nat \ {0}
  BY SizeAssumption, ReferencedAssumption DEF Pages, Frames

LEMMA InsertType ==
  ASSUME TypeOK, NEW p \in Pages, NEW f \in Frames, Insert(p, f)
  PROVE  /\ tlb' \in [0 .. TLB_SIZE - 1 -> [logical : Pages \cup {0}, physical : Frames]]
         /\ tlbindex' \in Nat
<1>1. tlbindex % TLB_SIZE \in 0 .. TLB_SIZE - 1
  BY Remainder, SizeAssumption DEF TypeOK
<1> QED
  BY <1>1 DEF Insert, add_to_tlb, TypeOK

LEMMA LineType ==
  ASSUME TypeOK, ReadLine
  PROVE  /\ clock' \in Nat /\ clock' >= clock /\ total_addresses' \in Nat
         /\ policyChoice' = policyChoice
  BY BoundAssumption DEF TypeOK, ReadLine

\* A use of a frame other than the last makes it the newest.
LEMMA StampTimes ==
  ASSUME TypeOK, Times, ReadLine, NEW f \in 0 .. FRAME - 2, Stamp(f)
  PROVE  Times' /\ physicalPageCount' \in [Frames -> Nat]
<1>1. /\ physicalPageCount \in [Frames -> Nat] /\ clock \in Nat
      /\ physicalPageCount' = [physicalPageCount EXCEPT ![f] = clock']
  BY DEF TypeOK, Stamp
<1>2. clock' \in Nat /\ clock' >= clock
  BY LineType
<1>3. f \in Frames /\ f # FRAME - 1
  BY SizeAssumption DEF Frames
<1>4. \A g \in Frames : physicalPageCount'[g] = IF g = f THEN clock' ELSE physicalPageCount[g]
  BY <1>1, <1>3
<1>5. physicalPageCount' \in [Frames -> Nat]
  BY <1>1, <1>2
<1>6. \A g \in Frames : physicalPageCount'[g] <= clock'
  BY <1>1, <1>2, <1>4 DEF Times
<1>7. physicalPageCount'[FRAME - 1] = 0
  BY <1>3, <1>4, Sizes DEF Times
<1>8. physicalPageCount'[f] = clock'
  BY <1>3, <1>4
<1> QED
  BY <1>3, <1>5, <1>6, <1>7, <1>8 DEF Times

\* A page fault maps one page more, to the frame it is given.
LEMMA FaultMaps ==
  ASSUME TypeOK, ColdFaultsOnly, LastFrameIdle, NEW p \in Pages, NEW f \in 0 .. FRAME - 2,
         PageFault(p, f)
  PROVE  ColdFaultsOnly' /\ LastFrameIdle' /\ pagetable' \in [Pages -> Frames \cup {-1}]
<1>1. /\ f \in Frames /\ f # -1 /\ f < FRAME - 1
      /\ p \notin Mapped /\ pagetable' = [pagetable EXCEPT ![p] = f] /\ page_faults' = page_faults + 1
  BY SizeAssumption DEF PageFault, Mapped, Frames
<1>2. /\ pagetable' \in [Pages -> Frames \cup {-1}]
      /\ Mapped' = Mapped \cup {p} /\ pagetable'[p] = f
      /\ \A q \in Mapped : pagetable'[q] = pagetable[q]
  BY <1>1 DEF TypeOK, Mapped
<1>3. LastFrameIdle'
  BY <1>1, <1>2 DEF LastFrameIdle
<1>4. IsFiniteSet(Mapped)
  <2>1. IsFiniteSet(Pages)
    BY FS_Interval, SizeAssumption DEF Pages
  <2> QED
    BY <2>1, FS_Subset DEF Mapped
<1>5. Cardinality(Mapped') = Cardinality(Mapped) + 1
  BY <1>1, <1>2, <1>4, FS_AddElement
<1> QED
  BY <1>1, <1>2, <1>3, <1>5 DEF ColdFaultsOnly

\* What a hit leaves alone.
LEMMA HitKeeps ==
  ASSUME Paged, UNCHANGED <<policyChoice, pagetable, free_page, page_faults>>
  PROVE  ColdFaultsOnly' /\ LastFrameIdle' /\ Turn'
  BY DEF Paged, ColdFaultsOnly, LastFrameIdle, Turn, Mapped

LEMMA PagedStep == Paged /\ [Next]_vars => Paged'
<1> SUFFICES ASSUME Paged, [Next]_vars PROVE Paged'
  OBVIOUS
<1>0. TypeOK /\ TLBCoherent /\ ColdFaultsOnly /\ LastFrameIdle /\ Times /\ Turn
  BY DEF Paged
<1>1. ASSUME NEW p \in Referenced, TLBHit(p) PROVE Paged'
  <2>1. p \in Pages /\ ReadLine /\ Lookup(p) # -1 /\ Stamp(Lookup(p)) /\ physical_page' = Lookup(p)
        /\ tlb_hits' = tlb_hits + 1 /\ UNCHANGED <<replacement, tlb, tlbindex>>
    BY <1>1, Sizes DEF TLBHit
  <2>2. p \in Mapped /\ Lookup(p) = pagetable[p]
    BY <1>0, <2>1, LookupRight
  <2>3. Lookup(p) \in 0 .. FRAME - 2
    BY <1>0, <2>2, SizeAssumption DEF LastFrameIdle, Mapped, TypeOK, Frames
  <2>4. Times' /\ physicalPageCount' \in [Frames -> Nat]
    BY ONLY <1>0, <2>1, <2>3, StampTimes
  <2>5. /\ clock' \in Nat /\ total_addresses' \in Nat /\ policyChoice' = policyChoice
    BY <1>0, <2>1, LineType
  <2>6. ColdFaultsOnly' /\ LastFrameIdle' /\ Turn'
    BY <2>1, <2>5, HitKeeps DEF replacement
  <2>7. TLBCoherent'
    BY <1>0, <2>1 DEF TLBCoherent, Written, Mapped, replacement
  <2>8. TypeOK'
    <3>1. physical_page' \in Frames \cup {-1}
      BY <2>1, <2>3, Sizes
    <3>2. UNCHANGED <<pagetable, free_page, free_frame, page_faults, tlb, tlbindex>>
      BY <2>1 DEF replacement
    <3>3. tlb_hits' \in Nat
      BY <1>0, <2>1 DEF TypeOK
    <3> QED
      BY ONLY <1>0, <2>4, <2>5, <3>1, <3>2, <3>3 DEF TypeOK
  <2> QED
    BY <2>4, <2>6, <2>7, <2>8 DEF Paged
<1>2. ASSUME NEW p \in Referenced, TableHit(p) PROVE Paged'
  <2> DEFINE f == pagetable[p]
  <2>1. /\ p \in Pages /\ ReadLine /\ Lookup(p) = -1 /\ p \in Mapped /\ Stamp(f) /\ physical_page' = f
        /\ Insert(p, f) /\ UNCHANGED <<replacement, tlb_hits>>
    BY <1>2, Sizes DEF TableHit, Mapped
  <2>2. f \in 0 .. FRAME - 2 /\ f \in Frames
    BY <1>0, <2>1, SizeAssumption DEF LastFrameIdle, Mapped, TypeOK, Frames
  <2>3. Times' /\ physicalPageCount' \in [Frames -> Nat]
    BY ONLY <1>0, <2>1, <2>2, StampTimes
  <2>4. clock' \in Nat /\ total_addresses' \in Nat /\ policyChoice' = policyChoice
    BY <1>0, <2>1, LineType
  <2>5. ColdFaultsOnly' /\ LastFrameIdle' /\ Turn'
    BY <2>1, <2>4, HitKeeps DEF replacement
  <2>6. /\ tlb' \in [0 .. TLB_SIZE - 1 -> [logical : Pages \cup {0}, physical : Frames]]
        /\ tlbindex' \in Nat
    BY <1>0, <2>1, <2>2, InsertType
  <2>7. TypeOK'
    BY <1>0, <2>1, <2>2, <2>3, <2>4, <2>6 DEF TypeOK, replacement
  <2>8. pagetable' = [pagetable EXCEPT ![p] = f]
    BY <1>0, <2>1 DEF TypeOK, replacement
  <2>9. TLBCoherent'
    BY ONLY <1>0, <2>1, <2>2, <2>7, <2>8, InsertCoherent
  <2> QED
    BY <2>3, <2>5, <2>7, <2>9 DEF Paged
<1>3. ASSUME NEW p \in Referenced, NEW f \in 0 .. FRAME - 2, PageFault(p, f),
             physicalPageCount' \in [Frames -> Nat], free_page' \in Frames, free_frame' \in Frames
      PROVE  TypeOK' /\ TLBCoherent' /\ ColdFaultsOnly' /\ LastFrameIdle'
  <2>1. p \in Pages /\ f \in Frames
    BY Sizes
  <2>2. ColdFaultsOnly' /\ LastFrameIdle' /\ pagetable' \in [Pages -> Frames \cup {-1}]
    BY ONLY <1>0, <1>3, <2>1, FaultMaps
  <2>3. /\ ReadLine /\ Insert(p, f) /\ pagetable' = [pagetable EXCEPT ![p] = f]
        /\ Lookup(p) = -1 /\ pagetable[p] = -1 /\ physical_page' = f
        /\ page_faults' = page_faults + 1 /\ tlb_hits' = tlb_hits
    BY <1>3 DEF PageFault
  <2>4. clock' \in Nat /\ total_addresses' \in Nat /\ policyChoice' = policyChoice
    BY <1>0, <2>3, LineType
  <2>5. /\ tlb' \in [0 .. TLB_SIZE - 1 -> [logical : Pages \cup {0}, physical : Frames]]
        /\ tlbindex' \in Nat
    BY <1>0, <2>1, <2>3, InsertType
  <2>6. TypeOK'
    <3>1. physical_page' \in Frames \cup {-1}
      BY <2>1, <2>3
    <3>2. tlb_hits' \in Nat /\ page_faults' \in Nat
      BY <1>0, <2>3 DEF TypeOK
    <3> QED
      BY ONLY <1>0, <1>3, <2>2, <2>4, <2>5, <3>1, <3>2 DEF TypeOK
  <2>7. TLBCoherent'
    BY <1>0, <2>1, <2>3, <2>6, InsertCoherent
  <2> QED
    BY <2>2, <2>6, <2>7
<1>4. ASSUME NEW p \in Referenced, FirstInFirstOut(p) PROVE Paged'
  <2> DEFINE next == IF free_page = FRAME - 1 THEN 0 ELSE free_page
  <2>1. /\ policyChoice = 0 /\ PageFault(p, next) /\ free_page' = next + 1
        /\ UNCHANGED <<free_frame, physicalPageCount>>
    BY <1>4 DEF FirstInFirstOut
  <2>2. next \in 0 .. FRAME - 2 /\ next + 1 \in Frames
    BY <1>0, SizeAssumption DEF TypeOK, Frames
  <2>3. next = page_faults % (FRAME - 1) /\ page_faults \in Nat
    BY <1>0, <2>1, NextFrame DEF TypeOK
  <2> HIDE DEF next
  <2>4. TypeOK' /\ TLBCoherent' /\ ColdFaultsOnly' /\ LastFrameIdle'
    BY <1>0, <1>3, <2>1, <2>2 DEF TypeOK
  <2>5. clock' \in Nat /\ clock' >= clock /\ policyChoice' = policyChoice
    BY <1>0, <2>1, LineType DEF PageFault
  <2>6. Times'
    BY <1>0, <2>1, <2>5 DEF Times, TypeOK
  <2>7. page_faults' = page_faults + 1
    BY <2>1 DEF PageFault
  <2>8. Turn'
    BY <2>1, <2>3, <2>7 DEF Turn
  <2> QED
    BY <2>4, <2>6, <2>8 DEF Paged
<1>5. ASSUME NEW p \in Referenced, RecentlyUsed(p) PROVE Paged'
  <2> DEFINE next == IF free_frame = FRAME - 1 THEN findLastRecentlyUsed ELSE free_frame
  <2>1. /\ policyChoice = 1 /\ PageFault(p, next) /\ Stamp(next) /\ free_page' = free_page
        /\ free_frame' = IF free_frame = FRAME - 1 THEN free_frame ELSE free_frame + 1
    BY <1>5 DEF RecentlyUsed
  <2>2. next \in 0 .. FRAME - 2
    <3>1. findLastRecentlyUsed \in 0 .. FRAME - 2
      BY <1>0, FindsNewest
    <3>2. free_frame # FRAME - 1 => free_frame \in 0 .. FRAME - 2
      BY <1>0, SizeAssumption DEF TypeOK, Frames
    <3> QED
      BY ONLY <3>1, <3>2
  <2>3. free_frame' \in Frames
    BY <1>0, <2>1, SizeAssumption DEF TypeOK, Frames
  <2> HIDE DEF next
  <2>4. ReadLine
    BY <2>1 DEF PageFault
  <2>5. Times' /\ physicalPageCount' \in [Frames -> Nat]
    BY ONLY <1>0, <2>1, <2>2, <2>4, StampTimes
  <2>6. TypeOK' /\ TLBCoherent' /\ ColdFaultsOnly' /\ LastFrameIdle'
    BY <1>0, <1>3, <2>1, <2>2, <2>3, <2>5 DEF TypeOK
  <2>7. Turn'
    BY <1>0, <2>1, <2>4, LineType DEF Turn
  <2> QED
    BY <2>5, <2>6, <2>7 DEF Paged
<1>6. CASE UNCHANGED vars
  BY <1>6 DEF vars, replacement, Paged, TypeOK, TLBCoherent, ColdFaultsOnly, LastFrameIdle,
     Times, Turn, Mapped, Written
<1> QED
  BY ONLY [Next]_vars, <1>1, <1>2, <1>4, <1>5, <1>6 DEF Next

LEMMA PagedInit == Init => Paged
<1> SUFFICES ASSUME Init PROVE Paged
  OBVIOUS
<1>1. Mapped = {} /\ Written = {}
  BY DEF Init, Mapped, Written
<1>2. TypeOK
  BY Sizes DEF Init, TypeOK
<1>3. TLBCoherent /\ ColdFaultsOnly /\ LastFrameIdle
  BY <1>1, FS_EmptySet DEF Init, TLBCoherent, ColdFaultsOnly, LastFrameIdle
<1>4. Times /\ Turn
  BY Sizes DEF Init, Times, Turn
<1> QED
  BY <1>2, <1>3, <1>4 DEF Paged

LEMMA PagedHolds == Spec => []Paged
  BY PagedInit, PagedStep, PTL DEF Spec

\* Every variable has its type: no policy gives away a frame that does not
\* exist, and the TLB holds pages and frames only (part2.c), for any sizes.
THEOREM TypeTheorem == Spec => []TypeOK
<1>1. Paged => TypeOK
  BY DEF Paged
<1> QED
  BY <1>1, PagedHolds, PTL

\* The TLB never contradicts the page table and holds no page twice, however
\* often frames are given away again, because nothing is ever unmapped.
THEOREM CoherenceTheorem == Spec => []TLBCoherent
<1>1. Paged => TLBCoherent
  BY DEF Paged
<1> QED
  BY <1>1, PagedHolds, PTL

\* part2.c counts one fault per page, however few frames there are.
THEOREM ColdFaultsTheorem == Spec => []ColdFaultsOnly
<1>1. Paged => ColdFaultsOnly
  BY DEF Paged
<1> QED
  BY <1>1, PagedHolds, PTL

\* No page is ever in frame FRAME-1 (part2.c:195, 207), under either policy:
\* findLastRecentlyUsed cannot choose it, since it would have to have been
\* used later than some frame.
THEOREM IdleTheorem == Spec => []LastFrameIdle
<1>1. Paged => LastFrameIdle
  BY DEF Paged
<1> QED
  BY <1>1, PagedHolds, PTL

\* Policy 0 gives the frames below FRAME-1 away round and round.
THEOREM TurnTheorem == Spec => InTurn
<1>1. Paged /\ [Next]_vars
        => [policyChoice = 0 /\ page_faults' # page_faults
              => physical_page' = page_faults % (FRAME - 1)]_vars
  <2> SUFFICES ASSUME Paged, Next, policyChoice = 0, page_faults' # page_faults
               PROVE  physical_page' = page_faults % (FRAME - 1)
    BY DEF vars, replacement
  <2>1. PICK p \in Referenced : FirstInFirstOut(p)
    BY DEF Next, TLBHit, TableHit, RecentlyUsed, replacement
  <2>2. physical_page' = IF free_page = FRAME - 1 THEN 0 ELSE free_page
    BY <2>1 DEF FirstInFirstOut, PageFault
  <2> QED
    BY <2>2, NextFrame DEF Paged, TypeOK
<1> QED
  BY <1>1, PagedHolds, PTL DEF Spec, InTurn

\* Policy 1 replaces the frame of the line before, the most recently used.
THEOREM NewestTheorem == Spec => TakesNewest
<1>1. Paged /\ [Next]_vars
        => [ReplacesUnderPolicy1 => physicalPageCount[physical_page'] = clock]_vars
  <2> SUFFICES ASSUME Paged, Next, ReplacesUnderPolicy1
               PROVE  physicalPageCount[physical_page'] = clock
    BY DEF vars, replacement, ReplacesUnderPolicy1
  <2>1. PICK p \in Referenced : RecentlyUsed(p)
    BY DEF Next, TLBHit, TableHit, FirstInFirstOut, ReplacesUnderPolicy1, replacement
  <2>2. physical_page' = findLastRecentlyUsed
    BY <2>1 DEF RecentlyUsed, PageFault, ReplacesUnderPolicy1
  <2>3. /\ findLastRecentlyUsed \in Frames
        /\ \A g \in Frames : physicalPageCount[g] <= physicalPageCount[findLastRecentlyUsed]
    BY FindsNewest, Sizes DEF Paged
  <2>4. PICK g \in Frames : physicalPageCount[g] = clock
    BY DEF Paged, Times, ReplacesUnderPolicy1
  <2>5. /\ \A f \in Frames : physicalPageCount[f] \in Nat /\ physicalPageCount[f] <= clock
        /\ clock \in Nat
    BY DEF Paged, TypeOK, Times
  <2> QED
    BY ONLY <2>2, <2>3, <2>4, <2>5
<1> QED
  BY <1>1, PagedHolds, PTL DEF Spec, TakesNewest
=============================================================================
