------------------------------- MODULE TLBOps -------------------------------
(***************************************************************************)
(* The translation lookaside buffer of prj3 (part1.c and part2.c): the     *)
(* array tlb of [logical, physical] entries, written round and round, and  *)
(* tlbindex, the number of insertions so far.                              *)
(***************************************************************************)
EXTENDS Integers

\* Mutant: also looks at the entries that were never written.
Holding_Unwritten(tlb, tlbindex, size, logical_page) ==
  {k \in 0 .. size - 1 : tlb[k].logical = logical_page}

\* The written entries that hold logical_page.
Holding(tlb, tlbindex, size, logical_page) ==
  {k \in 0 .. size - 1 : k < tlbindex /\ tlb[k].logical = logical_page}

\* How many insertions ago entry k was written: the order of the search.
Age(tlbindex, size, k) == (tlbindex - 1 - k) % size

\* The newest of them decides, or -1.
search_tlb(tlb, tlbindex, size, logical_page) ==
  LET holding == Holding(tlb, tlbindex, size, logical_page)
  IN  IF holding = {} THEN -1
      ELSE tlb[CHOOSE k \in holding :
                 \A j \in holding : Age(tlbindex, size, k) <= Age(tlbindex, size, j)].physical

\* Mutant: the next entry is counted from 1.
add_to_tlb_Next(tlb, tlbindex, size, logical, physical) ==
  [tlb EXCEPT ![(tlbindex + 1) % size] = [logical |-> logical, physical |-> physical]]

\* add_to_tlb, whose caller also increments tlbindex.
add_to_tlb(tlb, tlbindex, size, logical, physical) ==
  [tlb EXCEPT ![tlbindex % size] = [logical |-> logical, physical |-> physical]]
=============================================================================
