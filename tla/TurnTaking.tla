----------------------------- MODULE TurnTaking -----------------------------
(***************************************************************************)
(* What prj2 promises its audience, without threads or mutexes: the        *)
(* commentators who have an answer wait in line, the floor is given to the *)
(* one who has waited longest, and it is given to nobody else until that   *)
(* commentator has finished.                                               *)
(***************************************************************************)
EXTENDS Naturals, Sequences

CONSTANT Commentators

VARIABLES waiting, \* who waits for the floor, in the order of their answers
          floor    \* the commentators who have the floor

vars == <<waiting, floor>>

Init == waiting = <<>> /\ floor = {}

\* A commentator who neither waits nor speaks joins the line.
Raise(c) ==
  /\ c \notin floor
  /\ \A k \in DOMAIN waiting : waiting[k] # c
  /\ waiting' = Append(waiting, c)
  /\ UNCHANGED floor

\* The floor goes to the head of the line.
Grant ==
  /\ floor = {}
  /\ waiting # <<>>
  /\ floor' = {Head(waiting)}
  /\ waiting' = Tail(waiting)

Release ==
  /\ floor # {}
  /\ floor' = {}
  /\ UNCHANGED waiting

Next == Grant \/ Release \/ \E c \in Commentators : Raise(c)

Spec == Init /\ [][Next]_vars
=============================================================================
