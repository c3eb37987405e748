---------------------------- MODULE DemandPaging ----------------------------
(***************************************************************************)
(* What a program sees of paging, without TLB, counters or bytes: a page   *)
(* is brought into a frame of its own when it is first used and found      *)
(* there from then on.                                                     *)
(***************************************************************************)
EXTENDS Naturals

CONSTANTS Page, Frame

VARIABLES table,  \* the frame of each page that has been brought in
          access  \* the last access: <<page, frame>>, or <<>>

vars == <<table, access>>

\* Page p is, from then on, in frame f.
Maps(p, f) == [q \in DOMAIN table \cup {p} |-> IF q = p THEN f ELSE table[q]]

Init == DOMAIN table = {} /\ access = <<>>

Use(p) ==
  /\ p \in DOMAIN table
  /\ access' = <<p, table[p]>>
  /\ UNCHANGED table

BringIn(p) ==
  /\ p \notin DOMAIN table
  /\ \E f \in Frame :
       /\ \A q \in DOMAIN table : table[q] # f
       /\ table' = Maps(p, f)
       /\ access' = <<p, f>>

Next == \E p \in Page : Use(p) \/ BringIn(p)

Spec == Init /\ [][Next]_vars
=============================================================================
