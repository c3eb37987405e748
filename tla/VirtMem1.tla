------------------------------ MODULE VirtMem1 ------------------------------
(***************************************************************************)
(* prj3/part1.c: each line of the input is an address, which is looked up  *)
(* in the TLB, then in the page table; if it is in neither, its page is    *)
(* copied from the backing file into the next free frame.  An access is    *)
(* one step, and pages stand for addresses: the offset only passes through.*)
(*                                                                         *)
(* The TLB entries and free_page are unsigned char, 0 .. UCHAR - 1.        *)
(***************************************************************************)
EXTENDS Integers, TLBOps

CONSTANTS PAGES,      \* 1024: the pages, and also the frames of main_memory
          TLB_SIZE,   \* 16
          UCHAR,      \* 256
          Referenced, \* the pages that the input refers to
          MaxLines    \* bound: the lines of the input

ASSUME SizeAssumption ==
  PAGES \in Nat /\ TLB_SIZE \in Nat \ {0} /\ UCHAR \in 1 .. PAGES
ASSUME ReferencedAssumption == Referenced \subseteq 0 .. PAGES - 1
ASSUME LinesAssumption == MaxLines \in Nat

Pages == 0 .. PAGES - 1
Zero  == -1    \* what a frame holds before a page is copied into it

VARIABLES
  pagetable,        \* pagetable[p]: the frame of page p or -1
  tlb, tlbindex,
  main_memory,      \* main_memory[f]: the page whose bytes are in frame f
  free_page,        \* the next frame to give away
  total_addresses, tlb_hits, page_faults,
  output            \* the last line printed: the page, its frame, what was read

counters == <<total_addresses, tlb_hits, page_faults>>
vars == <<pagetable, tlb, tlbindex, main_memory, free_page, counters, output>>

Init ==
  /\ pagetable = [p \in Pages |-> -1]
  /\ tlb = [k \in 0 .. TLB_SIZE - 1 |-> [logical |-> 0, physical |-> 0]]
  /\ tlbindex = 0
  /\ main_memory = [f \in Pages |-> Zero]
  /\ free_page = 0
  /\ total_addresses = 0 /\ tlb_hits = 0 /\ page_faults = 0
  /\ output = <<>>

-----------------------------------------------------------------------------
\* search_tlb(logical_page): the argument becomes an unsigned char.
Lookup(p) == search_tlb(tlb, tlbindex, TLB_SIZE, p % UCHAR)

\* Both arguments of add_to_tlb become unsigned chars.
Insert(p, f) ==
  /\ tlb' = add_to_tlb(tlb, tlbindex, TLB_SIZE, p % UCHAR, f % UCHAR)
  /\ tlbindex' = tlbindex + 1

ReadLine ==
  /\ total_addresses < MaxLines
  /\ total_addresses' = total_addresses + 1

PrintLine(p, f) == output' = <<p, f, main_memory'[f]>>

TLBHit(p) ==
  /\ ReadLine
  /\ Lookup(p) # -1
  /\ tlb_hits' = tlb_hits + 1
  /\ UNCHANGED <<pagetable, tlb, tlbindex, main_memory, free_page, page_faults>>
  /\ PrintLine(p, Lookup(p))

TableHit(p) ==
  /\ ReadLine
  /\ Lookup(p) = -1
  /\ pagetable[p] # -1
  /\ Insert(p, pagetable[p])
  /\ UNCHANGED <<pagetable, main_memory, free_page, tlb_hits, page_faults>>
  /\ PrintLine(p, pagetable[p])

\* Mutant: nothing is copied into the frame.
PageFault_NotCopied(p) ==
  /\ ReadLine
  /\ Lookup(p) = -1
  /\ pagetable[p] = -1
  /\ page_faults' = page_faults + 1
  /\ free_page' = (free_page + 1) % UCHAR
  /\ pagetable' = [pagetable EXCEPT ![p] = free_page]
  /\ Insert(p, free_page)
  /\ UNCHANGED <<tlb_hits, main_memory>>
  /\ PrintLine(p, free_page)

\* Mutant: free_page is an int.
PageFault_Wide(p) ==
  /\ ReadLine
  /\ Lookup(p) = -1
  /\ pagetable[p] = -1
  /\ page_faults' = page_faults + 1
  /\ free_page' = free_page + 1
  /\ pagetable' = [pagetable EXCEPT ![p] = free_page]
  /\ main_memory' = [main_memory EXCEPT ![free_page] = p]
  /\ Insert(p, free_page)
  /\ UNCHANGED tlb_hits
  /\ PrintLine(p, free_page)

PageFault(p) ==
  /\ ReadLine
  /\ Lookup(p) = -1
  /\ pagetable[p] = -1
  /\ page_faults' = page_faults + 1
  /\ free_page' = (free_page + 1) % UCHAR
  /\ pagetable' = [pagetable EXCEPT ![p] = free_page]
  /\ main_memory' = [main_memory EXCEPT ![free_page] = p]
  /\ Insert(p, free_page)
  /\ UNCHANGED tlb_hits
  /\ PrintLine(p, free_page)

Next == \E p \in Referenced : TLBHit(p) \/ TableHit(p) \/ PageFault(p)

Spec == Init /\ [][Next]_vars

-----------------------------------------------------------------------------
(* Properties *)

Frames == 0 .. UCHAR - 1

TypeOK ==
  /\ pagetable \in [Pages -> Frames \cup {-1}]
  /\ tlb \in [0 .. TLB_SIZE - 1 -> [logical : Frames, physical : Frames]]
  /\ tlbindex \in Nat
  /\ main_memory \in [Pages -> Pages \cup {Zero}]
  /\ free_page \in Frames
  /\ total_addresses \in Nat /\ tlb_hits \in Nat /\ page_faults \in Nat
  /\ output = <<>> \/ output \in Pages \X Frames \X (Pages \cup {Zero})

Mapped == {p \in Pages : pagetable[p] # -1}
Written == {k \in 0 .. TLB_SIZE - 1 : k < tlbindex}

\* A read returns the contents of the page it was meant for, whichever of the
\* TLB and the page table translated it.  With pages from UCHAR on the TLB
\* confuses pages (search_tlb) and the frames run out (free_page).
ReadsRight == output # <<>> => output[3] = output[1]

\* The TLB never contradicts the page table, and no page is in it twice, so
\* the order of the search does not matter (search_tlb, add_to_tlb).
TLBCoherent ==
  /\ \A k \in Written : tlb[k].logical \in Mapped
                           /\ pagetable[tlb[k].logical] = tlb[k].physical
  /\ \A j, k \in Written : tlb[j].logical = tlb[k].logical => j = k

\* The TLB and the counters add nothing to what a program sees: the accesses
\* are those of demand paging with a frame of its own for each page.
Paging == INSTANCE DemandPaging
  WITH Page <- Referenced, Frame <- Frames,
       table <- [p \in Mapped |-> pagetable[p]],
       access <- IF output = <<>> THEN <<>> ELSE <<output[1], output[2]>>

PagingSpec == Paging!Spec
=============================================================================
