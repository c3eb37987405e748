------------------------------ MODULE VirtMem2 ------------------------------
(***************************************************************************)
(* prj3/part2.c: translation with fewer frames than pages.  Policy 0 gives *)
(* the frames away in turn, policy 1 chooses by the time of the last use.  *)
(* The code translates only: nothing is copied into main_memory.           *)
(*                                                                         *)
(* The times are microseconds since the start, computed in floats, so two  *)
(* uses may have the same time: clock grows by 0 or more with each line.   *)
(***************************************************************************)
EXTENDS Integers, FiniteSets, TLBOps

CONSTANTS PAGES,      \* 1024
          FRAME,      \* 256: the frames
          TLB_SIZE,   \* 16
          Referenced, \* the pages that the input refers to
          MaxLines,   \* bound: the lines of the input
          MaxStep     \* bound: the time between two lines

ASSUME SizeAssumption ==
  PAGES \in Nat /\ TLB_SIZE \in Nat \ {0} /\ FRAME \in Nat \ {0, 1}
ASSUME ReferencedAssumption == Referenced \subseteq 0 .. PAGES - 1
ASSUME BoundAssumption == MaxLines \in Nat /\ MaxStep \in Nat

Pages  == 0 .. PAGES - 1
Frames == 0 .. FRAME - 1

VARIABLES
  policyChoice,      \* argv[4]
  pagetable,         \* pagetable[p]: the frame of page p or -1
  tlb, tlbindex,
  physicalPageCount, \* physicalPageCount[f]: the time of the last use of frame f
  free_page,         \* policy 0: the next frame
  free_frame,        \* policy 1: the next frame that was never used
  clock,
  total_addresses, tlb_hits, page_faults,
  physical_page      \* the frame that the last line was translated to

replacement == <<pagetable, free_page, free_frame, page_faults>>
vars == <<policyChoice, replacement, tlb, tlbindex, physicalPageCount, clock,
          total_addresses, tlb_hits, physical_page>>

Init ==
  /\ policyChoice \in {0, 1}
  /\ pagetable = [p \in Pages |-> -1]
  /\ tlb = [k \in 0 .. TLB_SIZE - 1 |-> [logical |-> 0, physical |-> 0]]
  /\ tlbindex = 0
  /\ physicalPageCount = [f \in Frames |-> 0]
  /\ free_page = 0 /\ free_frame = 0
  /\ clock = 0
  /\ total_addresses = 0 /\ tlb_hits = 0 /\ page_faults = 0
  /\ physical_page = -1

-----------------------------------------------------------------------------
Lookup(p) == search_tlb(tlb, tlbindex, TLB_SIZE, p)

Insert(p, f) ==
  /\ tlb' = add_to_tlb(tlb, tlbindex, TLB_SIZE, p, f)
  /\ tlbindex' = tlbindex + 1

ReadLine ==
  /\ total_addresses < MaxLines
  /\ total_addresses' = total_addresses + 1
  /\ clock' \in clock .. clock + MaxStep
  /\ UNCHANGED policyChoice

\* Mutant: the time of the first use only.
Stamp_Once(f) ==
  physicalPageCount' = [physicalPageCount EXCEPT ![f] = IF @ = 0 THEN clock' ELSE @]

Stamp(f) == physicalPageCount' = [physicalPageCount EXCEPT ![f] = clock']

\* The first frame with the largest time.
findLastRecentlyUsed ==
  CHOOSE f \in Frames :
    \A g \in Frames : \/ physicalPageCount[g] < physicalPageCount[f]
                      \/ physicalPageCount[g] = physicalPageCount[f] /\ f <= g

TLBHit(p) ==
  /\ ReadLine
  /\ Lookup(p) # -1
  /\ tlb_hits' = tlb_hits + 1
  /\ physical_page' = Lookup(p)
  /\ Stamp(Lookup(p))
  /\ UNCHANGED <<replacement, tlb, tlbindex>>

TableHit(p) ==
  /\ ReadLine
  /\ Lookup(p) = -1
  /\ pagetable[p] # -1
  /\ physical_page' = pagetable[p]
  /\ Stamp(pagetable[p])
  /\ Insert(p, pagetable[p])
  /\ UNCHANGED <<replacement, tlb_hits>>

\* Mutant: the frame is taken from the page that had it.
PageFault_Evicts(p, f) ==
  /\ ReadLine
  /\ Lookup(p) = -1
  /\ pagetable[p] = -1
  /\ page_faults' = page_faults + 1
  /\ physical_page' = f
  /\ pagetable' = [q \in Pages |-> IF q = p THEN f ELSE
                                   IF pagetable[q] = f THEN -1 ELSE pagetable[q]]
  /\ Insert(p, f)
  /\ UNCHANGED tlb_hits

\* What a page fault does once the policy has chosen frame f.
PageFault(p, f) ==
  /\ ReadLine
  /\ Lookup(p) = -1
  /\ pagetable[p] = -1
  /\ page_faults' = page_faults + 1
  /\ physical_page' = f
  /\ pagetable' = [pagetable EXCEPT ![p] = f]
  /\ Insert(p, f)
  /\ UNCHANGED tlb_hits

\* Mutant: starts over one frame too late to be in memory.
FirstInFirstOut_Late(p) ==
  LET next == IF free_page = FRAME THEN 0 ELSE free_page
  IN  /\ policyChoice = 0
      /\ PageFault(p, next)
      /\ free_page' = next + 1
      /\ UNCHANGED <<free_frame, physicalPageCount>>

\* Policy 0: free_page starts over at FRAME-1.
FirstInFirstOut(p) ==
  LET next == IF free_page = FRAME - 1 THEN 0 ELSE free_page
  IN  /\ policyChoice = 0
      /\ PageFault(p, next)
      /\ free_page' = next + 1
      /\ UNCHANGED <<free_frame, physicalPageCount>>

\* Policy 1: the frames below FRAME-1 once each, then one of those in use.
RecentlyUsed(p) ==
  LET full == free_frame = FRAME - 1
      next == IF full THEN findLastRecentlyUsed ELSE free_frame
  IN  /\ policyChoice = 1
      /\ PageFault(p, next)
      /\ Stamp(next)
      /\ free_frame' = IF full THEN free_frame ELSE free_frame + 1
      /\ UNCHANGED free_page

Next ==
  \E p \in Referenced : TLBHit(p) \/ TableHit(p) \/ FirstInFirstOut(p) \/ RecentlyUsed(p)

Spec == Init /\ [][Next]_vars
-----------------------------------------------------------------------------
(* Properties *)

TypeOK ==
  /\ policyChoice \in {0, 1}
  /\ pagetable \in [Pages -> Frames \cup {-1}]
  /\ tlb \in [0 .. TLB_SIZE - 1 -> [logical : Pages \cup {0}, physical : Frames]]
  /\ tlbindex \in Nat
  /\ physicalPageCount \in [Frames -> Nat]
  /\ free_page \in Frames /\ free_frame \in Frames
  /\ clock \in Nat
  /\ total_addresses \in Nat /\ tlb_hits \in Nat /\ page_faults \in Nat
  /\ physical_page \in Frames \cup {-1}

Mapped == {p \in Pages : pagetable[p] # -1}
Written == {k \in 0 .. TLB_SIZE - 1 : k < tlbindex}

\* The TLB never contradicts the page table, and no page is in it twice.
TLBCoherent ==
  /\ \A k \in Written : tlb[k].logical \in Mapped
                           /\ pagetable[tlb[k].logical] = tlb[k].physical
  /\ \A j, k \in Written : tlb[j].logical = tlb[k].logical => j = k

\* A frame given to another page is not taken from the one that had it: under
\* either policy, and with however few frames, each page faults once.
ColdFaultsOnly == page_faults = Cardinality(Mapped)

\* Nor is the last frame ever used: both policies take memory for full with
\* one frame still free (part2.c:195, 207).
LastFrameIdle == \A p \in Mapped : pagetable[p] < FRAME - 1

\* Policy 0 gives the frames away in turn: the next one is always the one
\* that was given away longest ago.
InTurn ==
  [][policyChoice = 0 /\ page_faults' # page_faults
       => physical_page' = page_faults % (FRAME - 1)]_vars

ReplacesUnderPolicy1 ==
  policyChoice = 1 /\ free_frame = FRAME - 1 /\ page_faults' # page_faults

\* Policy 1 takes the frame that was in use just before: findLastRecentlyUsed
\* looks for the largest time (part2.c:87).
TakesNewest ==
  [][ReplacesUnderPolicy1 => physicalPageCount[physical_page'] = clock]_vars

\* What the comment at part2.c:205 says of policy 1: "Least Recently Used".
LeastRecentlyUsed ==
  [][ReplacesUnderPolicy1 =>
       \A f \in 0 .. FRAME - 2 : physicalPageCount[physical_page'] <= physicalPageCount[f]]_vars
=============================================================================
