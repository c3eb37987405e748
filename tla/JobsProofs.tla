----------------------------- MODULE JobsProofs -----------------------------
(***************************************************************************)
(* Proofs about Jobs, for any number of processes.                         *)
(***************************************************************************)
EXTENDS Jobs, FiniteSetTheorems, WellFoundedInduction, TLAPS

Labels == {"unborn", "tcgetattr", "tcsetattr", "prompt", "wait",
           "child", "program", "zombie", "gone"}

-----------------------------------------------------------------------------
(* Sets *)

LEMMA Least ==
  ASSUME NEW S \in SUBSET Nat, S # {}
  PROVE  Min(S) \in S /\ \A b \in S : Min(S) <= b
<1>1. PICK a \in S : \A b \in S : ~(<<b, a>> \in OpToRel(<, Nat))
  BY NatLessThanWellFounded, WFMin
<1>2. ASSUME NEW b \in S PROVE a <= b
  <2>1. b < a => <<b, a>> \in OpToRel(<, Nat)
    BY DEF OpToRel
  <2>2. ~(b < a)
    BY <1>1, <2>1, Zenon
  <2> QED
    BY <2>2
<1>3. \E x \in S : \A y \in S : x <= y
  BY <1>2
<1> QED
  BY <1>3 DEF Min

LEMMA ProcsFinite ==
  IsFiniteSet(Procs) /\ \A S \in SUBSET Procs : IsFiniteSet(S) /\ Cardinality(S) \in Nat
<1>1. IsFiniteSet(Procs)
  BY MaxProcsAssumption, FS_Interval DEF Procs
<1>2. ASSUME NEW S \in SUBSET Procs PROVE IsFiniteSet(S) /\ Cardinality(S) \in Nat
  BY <1>1, FS_Subset, FS_CardinalityType
<1> QED
  BY <1>1, <1>2

\* A set of at most one element.
LEMMA OneAtMost ==
  ASSUME NEW S, IsFiniteSet(S), ~(Cardinality(S) > 1), NEW x \in S, NEW y \in S
  PROVE  x = y
<1> SUFFICES ASSUME x # y PROVE FALSE
  OBVIOUS
<1>1. IsFiniteSet({x}) /\ Cardinality({x}) = 1
  BY FS_Singleton
<1>2. IsFiniteSet({x} \cup {y}) /\ Cardinality({x} \cup {y}) = 2
  <2>1. Cardinality({x} \cup {y}) = IF y \in {x} THEN Cardinality({x}) ELSE Cardinality({x}) + 1
    BY <1>1, FS_AddElement, Zenon
  <2>2. IsFiniteSet({x} \cup {y})
    BY <1>1, FS_AddElement, Zenon
  <2> QED
    BY <1>1, <2>1, <2>2
<1>3. ({x} \cup {y}) \in SUBSET S
  OBVIOUS
<1>4. Cardinality({x} \cup {y}) <= Cardinality(S) /\ Cardinality(S) \in Nat
  BY <1>3, FS_Subset, FS_CardinalityType
<1> QED
  BY <1>2, <1>4

-----------------------------------------------------------------------------
(* Processes *)

\* Processes are born in turn, of a shell; who has not run a line has no
\* children.
Births ==
  /\ \A p, q \in Procs : p < q /\ pc[p] = "unborn" => pc[q] = "unborn"
  /\ \A p \in Procs : pc[p] = "unborn" => parent[p] = 0 /\ ~background[p]
  /\ \A p \in Procs : pc[p] \in {"unborn", "child"} => \A c \in Procs : parent[c] # p

Family == TypeOK /\ Births

LEMMA InitFamily == Init => Family
<1> SUFFICES ASSUME Init PROVE Family
  OBVIOUS
<1>1. \A p \in Procs : p \in Nat /\ p > 0
  BY DEF Procs
<1>2. /\ \A p \in Procs : pc[p] = IF p = 1 THEN "tcgetattr" ELSE "unborn"
      /\ \A p \in Procs : parent[p] = 0 /\ ~background[p]
  BY DEF Init
<1>3. Births
  BY <1>1, <1>2 DEF Births
<1>4. /\ pc \in [Procs -> Labels] /\ parent \in [Procs -> 0..MaxProcs]
      /\ background \in [Procs -> BOOLEAN] /\ backup \in [Procs -> {"cooked", "raw"}]
      /\ terminal = "cooked" /\ dropped = FALSE /\ crowded = FALSE
  BY MaxProcsAssumption DEF Init, Labels
<1>5. At({"wait"}) = {}
  BY <1>2 DEF At
<1> QED
  BY <1>1, <1>2, <1>3, <1>4, <1>5 DEF Family, TypeOK, Labels

\* A step within one process.
Moves(p, from, to) == p \in Procs /\ pc[p] \in from /\ pc' = [pc EXCEPT ![p] = to]

\* What the end of a process does to the others.
LEMMA Ending ==
  ASSUME Family, NEW p \in Procs, pc[p] \in {"prompt", "child", "program"}, End(p)
  PROVE  /\ pc' \in [Procs -> Labels]
         /\ pc'[p] \in {"zombie", "gone"}
         /\ parent[p] \in Shells => pc'[p] = "zombie"
         /\ \A q \in Procs \ {p} :
              \/ pc'[q] = pc[q]
              \/ parent[q] = p /\ pc[q] = "zombie" /\ pc'[q] = "gone"
BY DEF End, Family, TypeOK, Labels

\* The process forked is the least of those not born.
Forks(p, c, bg) ==
  /\ pc[p] = "prompt" /\ c \in Procs /\ pc[c] = "unborn" /\ p < c
  /\ \A q \in Procs : q < c => pc[q] # "unborn"
  /\ pc' = [pc EXCEPT ![c] = "child", ![p] = IF bg THEN "tcgetattr" ELSE "wait"]
  /\ parent' = [parent EXCEPT ![c] = p]
  /\ background' = [background EXCEPT ![c] = bg]
  /\ terminal' = backup[p] /\ UNCHANGED <<backup, dropped>>

LEMMA Forking ==
  ASSUME Family, NEW p \in Procs, fork(p)
  PROVE  \E c \in Procs, bg \in BOOLEAN : Forks(p, c, bg)
<1> DEFINE c == Min(At({"unborn"}))
<1>1. At({"unborn"}) \in SUBSET Nat /\ At({"unborn"}) # {}
  BY MaxProcsAssumption DEF At, Procs, fork
<1>2. c \in At({"unborn"}) /\ \A q \in At({"unborn"}) : c <= q
  BY <1>1, Least
<1>3. c \in Procs /\ pc[c] = "unborn" /\ \A q \in Procs : pc[q] = "unborn" => c <= q
  BY <1>2 DEF At
<1>4. PICK bg \in BOOLEAN :
        /\ pc' = [pc EXCEPT ![c] = "child", ![p] = IF bg THEN "tcgetattr" ELSE "wait"]
        /\ parent' = [parent EXCEPT ![c] = p]
        /\ background' = [background EXCEPT ![c] = bg]
  BY DEF fork
<1>5. pc[p] = "prompt" /\ terminal' = backup[p] /\ UNCHANGED <<backup, dropped>>
  BY DEF fork, Restore
<1> HIDE DEF c
<1>6. \A q \in Procs : q \in Nat
  BY DEF Procs
<1>7. \A q \in Procs : q < c => pc[q] # "unborn"
  BY <1>3, <1>6
<1>8. p < c
  BY <1>3, <1>5, <1>6 DEF Family, Births
<1> QED
  BY <1>3, <1>4, <1>5, <1>7, <1>8 DEF Forks

\* The child that has ended, and the shell that waited for it.
Waits(p, c) ==
  /\ pc[p] = "wait" /\ c \in Procs /\ pc[c] = "zombie" /\ parent[c] = p
  /\ pc' = [pc EXCEPT ![c] = "gone", ![p] = "tcgetattr"]
  /\ UNCHANGED <<parent, background, backup, terminal, dropped>>

LEMMA Waiting == ASSUME NEW p \in Procs, wait(p) PROVE \E c \in Procs : Waits(p, c)
BY DEF wait, Waits, At

\* Every step is one of these.
Quiet == UNCHANGED <<parent, background, backup, terminal, dropped>>
Restores(p) == terminal' = backup[p] /\ UNCHANGED <<parent, background, backup, dropped>>

Steps(p) ==
  \/ /\ Moves(p, {"tcgetattr"}, "tcsetattr")
     /\ backup' = [backup EXCEPT ![p] = terminal]
     /\ UNCHANGED <<parent, background, terminal, dropped>>
  \/ /\ Moves(p, {"tcsetattr"}, "prompt") /\ terminal' = "raw"
     /\ UNCHANGED <<parent, background, backup, dropped>>
  \/ Moves(p, {"prompt"}, "tcgetattr") /\ Restores(p)
  \/ pc[p] = "prompt" /\ End(p) /\ Restores(p)
  \/ /\ pc[p] = "prompt" /\ End(p) /\ dropped'
     /\ UNCHANGED <<parent, background, backup, terminal>>
  \/ \E c \in Procs, bg \in BOOLEAN : Forks(p, c, bg)
  \/ \E c \in Procs : Waits(p, c)
  \/ Moves(p, {"child"}, "program") /\ Quiet
  \/ Moves(p, {"child"}, "tcgetattr") /\ Quiet
  \/ pc[p] \in {"child", "program"} /\ End(p) /\ Quiet

LEMMA EveryStep ==
  ASSUME Family, Next
  PROVE  /\ \E p \in Procs : Steps(p)
         /\ crowded' = (crowded \/ Cardinality(Working') > 1)
         /\ dropped => dropped'
         /\ dropped' \in BOOLEAN
<1>1. crowded' = (crowded \/ Cardinality(Working') > 1)
  BY DEF Next
<1>2. PICK p \in Procs : prompt(p) \/ process_command(p) \/ exit(p)
  BY DEF Next
<1>3. CASE fork(p)
  BY <1>1, <1>3, Forking DEF Steps, fork, Restore, Family, TypeOK
<1>4. CASE wait(p)
  BY <1>1, <1>4, Waiting DEF Steps, wait, Family, TypeOK
<1>5. CASE tcgetattr(p)
  BY <1>1, <1>5 DEF tcgetattr, Goto, Steps, Moves, Family, TypeOK
<1>6. CASE tcsetattr(p)
  BY <1>1, <1>6 DEF tcsetattr, Goto, Steps, Moves, Family, TypeOK
<1>7. CASE drop(p)
  BY <1>1, <1>7 DEF drop, Steps
<1>8. CASE stay(p)
  BY <1>1, <1>8 DEF stay, Restore, Goto, Steps, Moves, Restores, Family, TypeOK
<1>9. CASE leave(p)
  BY <1>1, <1>9 DEF leave, Restore, Steps, Restores, Family, TypeOK
<1>10. CASE execv(p) \/ not_found(p) \/ exit(p)
  BY <1>1, <1>10 DEF execv, not_found, exit, Goto, Steps, Moves, Quiet, Family, TypeOK
<1> QED
  BY <1>2, <1>3, <1>4, <1>5, <1>6, <1>7, <1>8, <1>9, <1>10 DEF prompt, process_command

-----------------------------------------------------------------------------
(* The type invariant *)

\* Whoever waits has a child to wait for.
Expects(p) == pc[p] = "wait" => \E c \in Procs : parent[c] = p /\ pc[c] # "gone"

Types ==
  /\ pc \in [Procs -> Labels] /\ parent \in [Procs -> 0..MaxProcs]
  /\ background \in [Procs -> BOOLEAN] /\ backup \in [Procs -> {"cooked", "raw"}]
  /\ terminal \in {"cooked", "raw"} /\ dropped \in BOOLEAN /\ crowded \in BOOLEAN
  /\ \A p \in Procs : parent[p] < p

LEMMA FamilyParts == Family <=> Types /\ Births /\ \A p \in Procs : Expects(p)
BY DEF Family, Types, TypeOK, Expects, Labels, At

LEMMA FamilyPartsNext ==
  Family' <=> Types' /\ Births' /\ \A p \in Procs : Expects(p)'
BY DEF Family, Types, TypeOK, Expects, Labels, At

LEMMA StepTypes ==
  ASSUME Family, NEW p \in Procs, Steps(p), dropped' \in BOOLEAN, crowded' \in BOOLEAN
  PROVE  Types'
<1>1. Types
  BY FamilyParts
<1>2. CASE pc[p] \in {"prompt", "child", "program"} /\ End(p)
  <2>1. pc' \in [Procs -> Labels]
    BY <1>2, Ending
  <2>2. UNCHANGED <<parent, background, backup>> /\ terminal' \in {terminal, backup[p]}
    BY <1>2 DEF Steps, Moves, Forks, Waits, Quiet, Restores, End
  <2> QED
    BY <1>1, <2>1, <2>2 DEF Types
<1>3. ASSUME NEW c \in Procs, NEW bg \in BOOLEAN, Forks(p, c, bg) PROVE Types'
  <2>1. pc' \in [Procs -> Labels] /\ background' \in [Procs -> BOOLEAN]
    BY <1>1, <1>3 DEF Types, Forks, Labels
  <2>2. parent' \in [Procs -> 0..MaxProcs] /\ \A q \in Procs : parent'[q] < q
    BY <1>1, <1>3, MaxProcsAssumption DEF Types, Forks, Procs
  <2>3. backup' = backup /\ terminal' \in {"cooked", "raw"}
    BY <1>1, <1>3 DEF Types, Forks
  <2> QED
    BY <1>1, <2>1, <2>2, <2>3 DEF Types
<1>4. ASSUME NEW c \in Procs, Waits(p, c) PROVE Types'
  BY <1>1, <1>4 DEF Types, Waits, Labels
<1>5. ASSUME NEW from, NEW to \in Labels, Moves(p, from, to),
             UNCHANGED <<parent, background>>,
             backup' \in {backup, [backup EXCEPT ![p] = terminal]},
             terminal' \in {terminal, "raw", backup[p]}
      PROVE  Types'
  BY <1>1, <1>5 DEF Types, Moves
<1> QED
  BY <1>1, <1>2, <1>3, <1>4, <1>5 DEF Steps, Quiet, Restores, Labels

LEMMA StepBirths ==
  ASSUME Family, NEW p \in Procs, Steps(p)
  PROVE  Births'
<1>1. Types /\ Births /\ \A q \in Procs : q \in Nat
  BY FamilyParts DEF Procs
<1>2. ASSUME parent' = parent, background' = background,
             \A q \in Procs : pc'[q] = "unborn" <=> pc[q] = "unborn",
             \A q \in Procs : pc'[q] = "child" => pc[q] = "child"
      PROVE  Births'
  BY <1>1, <1>2 DEF Births
<1>3. CASE pc[p] \in {"prompt", "child", "program"} /\ End(p)
  <2>1. UNCHANGED <<parent, background>>
    BY <1>3 DEF Steps, Moves, Forks, Waits, Quiet, Restores, End
  <2> QED
    BY <1>2, <1>3, <2>1, Ending
<1>4. ASSUME NEW c \in Procs, NEW bg \in BOOLEAN, Forks(p, c, bg) PROVE Births'
  <2>1. /\ pc'[c] = "child" /\ pc'[p] \in {"wait", "tcgetattr"} /\ c # p
        /\ \A q \in Procs \ {c, p} : pc'[q] = pc[q]
        /\ parent'[c] = p /\ background'[c] = bg
        /\ \A q \in Procs \ {c} : parent'[q] = parent[q] /\ background'[q] = background[q]
    BY <1>1, <1>4 DEF Forks, Types
  <2>2. ASSUME NEW a \in Procs, NEW b \in Procs, a < b, pc'[a] = "unborn"
        PROVE  pc'[b] = "unborn"
    <3>1. pc[a] = "unborn" /\ pc[b] = "unborn"
      BY <1>1, <2>1, <2>2 DEF Births
    <3>2. b # c
      BY <1>1, <1>4, <2>2, <3>1 DEF Forks
    <3> QED
      BY <1>4, <2>1, <3>1, <3>2 DEF Forks
  <2>3. \A q \in Procs : pc'[q] = "unborn" => parent'[q] = 0 /\ ~background'[q]
    BY <1>1, <2>1 DEF Births
  <2>4. ASSUME NEW a \in Procs, pc'[a] \in {"unborn", "child"}, NEW b \in Procs
        PROVE  parent'[b] # a
    <3>1. a # p /\ pc[a] \in {"unborn", "child"}
      BY <1>4, <2>1, <2>4 DEF Forks
    <3> QED
      BY <1>1, <2>1, <3>1 DEF Births
  <2> QED
    BY <2>2, <2>3, <2>4 DEF Births
<1>5. ASSUME NEW c \in Procs, Waits(p, c) PROVE Births'
  BY <1>1, <1>2, <1>5 DEF Types, Waits
<1>6. ASSUME NEW from, NEW to, Moves(p, from, to), UNCHANGED <<parent, background>>,
             "unborn" \notin from, to \notin {"unborn", "child"}
      PROVE  Births'
  BY <1>1, <1>2, <1>6 DEF Types, Moves
<1> QED
  BY <1>1, <1>3, <1>4, <1>5, <1>6 DEF Steps, Quiet, Restores

LEMMA StepExpects ==
  ASSUME Family, NEW p \in Procs, Steps(p), NEW w \in Procs
  PROVE  Expects(w)'
<1>1. Types /\ Births /\ Expects(w)
  BY FamilyParts
<1>2. ASSUME pc'[w] = "wait" => pc[w] = "wait",
             \A c \in Procs : parent[c] = w /\ pc[c] # "gone"
                                => parent'[c] = w /\ pc'[c] # "gone"
      PROVE  Expects(w)'
  BY <1>1, <1>2 DEF Expects
<1>3. CASE pc[p] \in {"prompt", "child", "program"} /\ End(p)
  <2>1. parent' = parent
    BY <1>3 DEF Steps, Moves, Forks, Waits, Quiet, Restores, End
  <2>2. /\ pc'[p] \in {"zombie", "gone"} /\ (parent[p] \in Shells => pc'[p] = "zombie")
        /\ \A q \in Procs \ {p} :
             pc'[q] = pc[q] \/ (parent[q] = p /\ pc[q] = "zombie" /\ pc'[q] = "gone")
    BY <1>3, Ending
  <2>3. pc[w] = "wait" => w \in Shells /\ w # p
    BY <1>3 DEF Shells, At
  <2> QED
    BY <1>1, <2>1, <2>2, <2>3 DEF Expects
<1>4. ASSUME NEW c \in Procs, NEW bg \in BOOLEAN, Forks(p, c, bg) PROVE Expects(w)'
  <2>1. /\ pc'[c] = "child" /\ pc'[p] \in {"wait", "tcgetattr"} /\ c # p
        /\ \A q \in Procs \ {c, p} : pc'[q] = pc[q]
        /\ parent'[c] = p /\ pc[c] = "unborn"
        /\ \A q \in Procs \ {c} : parent'[q] = parent[q]
    BY <1>1, <1>4 DEF Forks, Types
  <2>2. CASE w = p
    BY <2>1, <2>2 DEF Expects
  <2>3. CASE w # p
    <3>1. parent[c] # w
      BY <1>1, <2>1 DEF Births, Procs
    <3> QED
      BY <1>1, <1>2, <2>1, <2>3, <3>1
  <2> QED
    BY <2>2, <2>3
<1>5. ASSUME NEW c \in Procs, Waits(p, c) PROVE Expects(w)'
  <2>1. /\ pc'[c] = "gone" /\ pc'[p] = "tcgetattr" /\ parent' = parent /\ parent[c] = p
        /\ \A q \in Procs \ {c, p} : pc'[q] = pc[q]
    BY <1>1, <1>5 DEF Types, Waits
  <2> QED
    BY <1>1, <2>1 DEF Expects
<1>6. ASSUME NEW from, NEW to, Moves(p, from, to), parent' = parent,
             to \notin {"wait", "gone"}
      PROVE  Expects(w)'
  BY <1>1, <1>2, <1>6 DEF Types, Moves
<1> QED
  BY <1>1, <1>3, <1>4, <1>5, <1>6 DEF Steps, Quiet, Restores

LEMMA StepFamily ==
  ASSUME Family, [Next]_vars
  PROVE  Family'
<1>1. CASE Next
  <2>1. PICK p \in Procs : Steps(p)
    BY <1>1, EveryStep
  <2>2. dropped' \in BOOLEAN /\ crowded' \in BOOLEAN
    BY <1>1, EveryStep DEF Family, TypeOK
  <2> QED
    BY <2>1, <2>2, StepTypes, StepBirths, StepExpects, FamilyPartsNext
<1>2. CASE UNCHANGED vars
  BY <1>2 DEF vars, Family, TypeOK, Births, At
<1> QED
  BY <1>1, <1>2

LEMMA Families == Spec => []Family
BY InitFamily, StepFamily, PTL DEF Spec

\* A shell that waits has a child to wait for: wait(0) neither fails nor
\* returns early (process_command, seashell.c:178).
THEOREM TypeTheorem == Spec => []TypeOK
BY Families, PTL DEF Family

-----------------------------------------------------------------------------
(* The terminal *)

\* As long as one shell is at work at a time and none has ended at its prompt,
\* the mode it found was cooked.
Alone ==
  dropped \/ crowded \/
    /\ \A p, q \in Working : p = q
    /\ \A p \in At({"tcsetattr", "prompt"}) : backup[p] = "cooked"

LEMMA InitTerminal == Init => Alone /\ TerminalGivenBack
<1> SUFFICES ASSUME Init PROVE Alone /\ TerminalGivenBack
  OBVIOUS
<1>1. \A p \in Procs : pc[p] = IF p = 1 THEN "tcgetattr" ELSE "unborn"
  BY DEF Init
<1>2. terminal = "cooked"
  BY DEF Init
<1> QED
  BY <1>1, <1>2 DEF Alone, TerminalGivenBack, Working, At

LEMMA StepTerminal ==
  ASSUME Family, Alone, TerminalGivenBack, [Next]_vars
  PROVE  Alone' /\ TerminalGivenBack'
<1>1. CASE UNCHANGED vars
  BY <1>1 DEF vars, Alone, TerminalGivenBack, Working, At
<1> SUFFICES ASSUME Next, ~dropped', ~crowded'
             PROVE  Alone' /\ TerminalGivenBack'
  BY <1>1 DEF Alone, TerminalGivenBack
<1>2. PICK p \in Procs : Steps(p)
  BY EveryStep
<1>3. ~dropped /\ ~crowded /\ ~(Cardinality(Working') > 1)
  BY EveryStep
<1>4. \A x, y \in Working' : x = y
  <2>1. Working' \in SUBSET Procs
    BY DEF Working, At
  <2>2. IsFiniteSet(Working')
    BY <2>1, ProcsFinite
  <2> QED
    BY <1>3, <2>2, OneAtMost
<1>5. /\ \A x, y \in Working : x = y
      /\ \A x \in At({"tcsetattr", "prompt"}) : backup[x] = "cooked"
      /\ terminal = "raw" <=> At({"prompt"}) # {}
      /\ terminal \in {"cooked", "raw"}
  BY <1>3 DEF Alone, TerminalGivenBack, Family, TypeOK
<1>6. Types
  BY FamilyParts
<1>7. ASSUME backup' = backup, terminal' = terminal,
             \A x \in Procs : pc'[x] = "prompt" <=> pc[x] = "prompt",
             \A x \in Procs : pc'[x] = "tcsetattr" => pc[x] = "tcsetattr"
      PROVE  Alone' /\ TerminalGivenBack'
  BY <1>4, <1>5, <1>7 DEF Alone, TerminalGivenBack, At
<1>8. ASSUME backup' = backup, terminal' = backup[p], pc[p] = "prompt",
             \A x \in Procs : pc'[x] \in {"prompt", "tcsetattr"} => pc'[x] = pc[x] /\ x # p
      PROVE  Alone' /\ TerminalGivenBack'
  <2>1. terminal' = "cooked"
    BY <1>5, <1>8 DEF At
  <2>2. At({"prompt"})' = {}
    BY <1>5, <1>8 DEF At, Working
  <2>3. \A x \in At({"tcsetattr", "prompt"})' : backup'[x] = "cooked"
    BY <1>5, <1>8 DEF At
  <2> QED
    BY <1>4, <2>1, <2>2, <2>3 DEF Alone, TerminalGivenBack
<1>9. CASE Moves(p, {"tcgetattr"}, "tcsetattr") /\ backup' = [backup EXCEPT ![p] = terminal]
           /\ terminal' = terminal
  <2>1. /\ pc[p] = "tcgetattr" /\ pc'[p] = "tcsetattr"
        /\ \A x \in Procs \ {p} : pc'[x] = pc[x]
        /\ backup'[p] = terminal /\ \A x \in Procs \ {p} : backup'[x] = backup[x]
    BY <1>6, <1>9 DEF Moves, Types
  <2>2. At({"prompt"}) = {}
    BY <1>5, <2>1 DEF At, Working
  <2>3. At({"prompt"})' = {} /\ terminal' = "cooked"
    BY <1>5, <1>9, <2>1, <2>2 DEF At
  <2>4. \A x \in At({"tcsetattr", "prompt"})' : backup'[x] = "cooked"
    BY <1>5, <1>9, <2>1, <2>3 DEF At
  <2> QED
    BY <1>4, <2>3, <2>4 DEF Alone, TerminalGivenBack
<1>10. CASE Moves(p, {"tcsetattr"}, "prompt") /\ terminal' = "raw" /\ backup' = backup
  <2>1. pc[p] = "tcsetattr" /\ pc'[p] = "prompt" /\ \A x \in Procs \ {p} : pc'[x] = pc[x]
    BY <1>6, <1>10 DEF Moves, Types
  <2>2. At({"prompt"})' # {}
    BY <2>1 DEF At
  <2>3. \A x \in At({"tcsetattr", "prompt"})' : backup'[x] = "cooked"
    BY <1>5, <1>10, <2>1 DEF At
  <2> QED
    BY <1>4, <1>10, <2>2, <2>3 DEF Alone, TerminalGivenBack
<1>11. CASE pc[p] = "prompt" /\ End(p) /\ Restores(p)
  BY <1>8, <1>11, Ending DEF Restores
<1>12. CASE Moves(p, {"prompt"}, "tcgetattr") /\ Restores(p)
  BY <1>6, <1>8, <1>12 DEF Restores, Moves, Types
<1>13. CASE pc[p] \in {"child", "program"} /\ End(p) /\ Quiet
  BY <1>7, <1>13, Ending DEF Quiet
<1>14. ASSUME NEW c \in Procs, NEW bg \in BOOLEAN, Forks(p, c, bg)
       PROVE  Alone' /\ TerminalGivenBack'
  <2>1. \A x \in Procs : pc'[x] \in {"prompt", "tcsetattr"} => pc'[x] = pc[x] /\ x # p
    BY <1>6, <1>14 DEF Forks, Types
  <2> QED
    BY <1>8, <1>14, <2>1 DEF Forks
<1>15. ASSUME NEW c \in Procs, Waits(p, c) PROVE Alone' /\ TerminalGivenBack'
  BY <1>6, <1>7, <1>15 DEF Waits, Types
<1>16. CASE (Moves(p, {"child"}, "program") \/ Moves(p, {"child"}, "tcgetattr")) /\ Quiet
  BY <1>6, <1>7, <1>16 DEF Quiet, Moves, Types
<1> QED
  BY <1>2, <1>9, <1>10, <1>11, <1>12, <1>13, <1>14, <1>15, <1>16 DEF Steps

\* The terminal is raw just while a shell prompts, unless a shell has ended at
\* its prompt or two have been at work at the same time (prompt,
\* seashell.c:463-470 and 570-572).
THEOREM TerminalTheorem == Spec => []TerminalGivenBack
BY Families, InitTerminal, StepTerminal, PTL DEF Spec

-----------------------------------------------------------------------------
(* Readers *)

\* Who is there and does not wait: each one a reader, or one that its parent
\* may have to collect before it reads again.
Present == {p \in Procs : pc[p] \notin {"unborn", "gone", "wait"}}
Detached == {c \in Procs : background[c]}

Places == Cardinality(Present) <= 1 + Cardinality(Detached)

LEMMA SetsFinite ==
  /\ IsFiniteSet(Present) /\ IsFiniteSet(Detached)
  /\ Cardinality(Present) \in Nat /\ Cardinality(Detached) \in Nat
  /\ IsFiniteSet(Present') /\ IsFiniteSet(Detached')
  /\ Cardinality(Present') \in Nat /\ Cardinality(Detached') \in Nat
BY ProcsFinite DEF Present, Detached

LEMMA InitPlaces == Init => Places
<1> SUFFICES ASSUME Init PROVE Places
  OBVIOUS
<1>1. Present = {1}
  BY MaxProcsAssumption DEF Init, Present, Procs
<1>2. Cardinality(Present) = 1
  BY <1>1, FS_Singleton
<1> QED
  BY <1>2, SetsFinite DEF Places

LEMMA StepPlaces ==
  ASSUME Family, Places, [Next]_vars
  PROVE  Places'
<1>1. CASE UNCHANGED vars
  BY <1>1 DEF vars, Places, Present, Detached
<1> SUFFICES ASSUME Next PROVE Places'
  BY <1>1
<1>2. PICK p \in Procs : Steps(p)
  BY EveryStep
<1>3. Types /\ Births
  BY FamilyParts
<1>4. ASSUME background' = background, Present' \subseteq Present PROVE Places'
  <2>1. Cardinality(Present') <= Cardinality(Present)
    BY <1>4, SetsFinite, FS_Subset
  <2>2. Detached' = Detached
    BY <1>4 DEF Detached
  <2> QED
    BY <2>1, <2>2, SetsFinite DEF Places
<1>5. CASE /\ pc[p] \in {"prompt", "child", "program"} /\ End(p)
           /\ background' = background
  <2>1. Present' \subseteq Present
    BY <1>5, Ending DEF Present
  <2> QED
    BY <1>4, <1>5, <2>1
<1>6. ASSUME NEW c \in Procs, NEW bg \in BOOLEAN, Forks(p, c, bg) PROVE Places'
  <2>1. /\ pc'[c] = "child" /\ pc[c] = "unborn" /\ pc[p] = "prompt" /\ c # p
        /\ pc'[p] = IF bg THEN "tcgetattr" ELSE "wait"
        /\ \A q \in Procs \ {c, p} : pc'[q] = pc[q]
        /\ background'[c] = bg /\ ~background[c]
        /\ \A q \in Procs \ {c} : background'[q] = background[q]
    BY <1>3, <1>6 DEF Forks, Types, Births
  <2>2. CASE bg
    <3>1. Present' = Present \cup {c} /\ c \notin Present
      BY <2>1, <2>2 DEF Present
    <3>2. Detached' = Detached \cup {c} /\ c \notin Detached
      BY <2>1, <2>2 DEF Detached
    <3>3. /\ Cardinality(Present') = Cardinality(Present) + 1
          /\ Cardinality(Detached') = Cardinality(Detached) + 1
      BY <3>1, <3>2, SetsFinite, FS_AddElement
    <3> QED
      BY <3>3, SetsFinite DEF Places
  <2>3. CASE ~bg
    <3>1. Present' = (Present \ {p}) \cup {c} /\ c \notin Present /\ p \in Present
      BY <2>1, <2>3 DEF Present
    <3>2. Detached' = Detached
      BY <2>1, <2>3 DEF Detached
    <3>3. IsFiniteSet(Present \ {p}) /\ Cardinality(Present \ {p}) = Cardinality(Present) - 1
      BY <3>1, SetsFinite, FS_RemoveElement
    <3>4. Cardinality(Present') = Cardinality(Present \ {p}) + 1
      BY <3>1, <3>3, FS_AddElement
    <3> QED
      BY <3>2, <3>3, <3>4, SetsFinite DEF Places
  <2> QED
    BY <2>2, <2>3
<1>7. ASSUME NEW c \in Procs, Waits(p, c) PROVE Places'
  <2>1. /\ pc'[c] = "gone" /\ pc[c] = "zombie" /\ pc[p] = "wait" /\ pc'[p] = "tcgetattr"
        /\ c # p /\ \A q \in Procs \ {c, p} : pc'[q] = pc[q]
    BY <1>3, <1>7 DEF Waits, Types
  <2>2. Present' = (Present \ {c}) \cup {p} /\ p \notin Present /\ c \in Present
    BY <2>1 DEF Present
  <2>3. IsFiniteSet(Present \ {c}) /\ Cardinality(Present \ {c}) = Cardinality(Present) - 1
    BY <2>2, SetsFinite, FS_RemoveElement
  <2>4. Cardinality(Present') = Cardinality(Present \ {c}) + 1
    BY <2>2, <2>3, FS_AddElement
  <2>5. Detached' = Detached
    BY <1>7 DEF Waits, Detached
  <2> QED
    BY <2>3, <2>4, <2>5, SetsFinite DEF Places
<1>8. ASSUME NEW from, NEW to, Moves(p, from, to), background' = background,
             from \cap {"unborn", "gone", "wait"} = {}
      PROVE  Places'
  BY <1>3, <1>4, <1>8 DEF Moves, Types, Present
<1> QED
  BY <1>2, <1>5, <1>6, <1>7, <1>8 DEF Steps, Quiet, Restores

\* A command that is not found leaves a second shell behind
\* (process_command, seashell.c:184); there are never more than one for each
\* command started with & and one.
THEOREM ReadersTheorem == Spec => []FewReaders
<1>1. ASSUME Places PROVE FewReaders
  <2>1. Working \in SUBSET Present
    BY DEF Working, At, Present
  <2>2. Cardinality(Working) <= Cardinality(Present) /\ Cardinality(Working) \in Nat
    BY <2>1, SetsFinite, FS_Subset, FS_CardinalityType
  <2> QED
    BY <1>1, <2>2, SetsFinite DEF Places, FewReaders, Detached
<1> QED
  BY <1>1, Families, InitPlaces, StepPlaces, PTL DEF Spec

-----------------------------------------------------------------------------
(* One for another *)

\* The foreground children that shell s has not collected, and those of &
\* that it has.
Owed(s)  == {c \in Procs : parent[c] = s /\ ~background[c] /\ pc[c] # "gone"}
Taken(s) == {c \in Procs : parent[c] = s /\ background[c] /\ pc[c] = "gone"}

Balance(s) ==
  s \in Shells =>
    Cardinality(Owed(s)) = Cardinality(Taken(s)) + (IF pc[s] = "wait" THEN 1 ELSE 0)

LEMMA Balanced == (\A s \in Procs : Balance(s)) => OneForAnother
<1>1. \A s : /\ Owed(s) = {c \in Children(s) : ~background[c] /\ pc[c] # "gone"}
             /\ Taken(s) = {c \in Children(s) : background[c] /\ pc[c] = "gone"}
  BY DEF Owed, Taken, Children
<1>2. \A s \in Shells : s \in Procs
  BY DEF Shells, Working, At
<1> QED
  BY <1>1, <1>2 DEF Balance, OneForAnother

LEMMA OwedFinite ==
  \A s : /\ IsFiniteSet(Owed(s)) /\ IsFiniteSet(Taken(s))
         /\ Cardinality(Owed(s)) \in Nat /\ Cardinality(Taken(s)) \in Nat
BY ProcsFinite DEF Owed, Taken

\* A shell that has forked nothing.
LEMMA Childless ==
  ASSUME NEW s \in Procs, \A c \in Procs : parent[c] # s, pc[s] # "wait"
  PROVE  Balance(s)
<1>1. Owed(s) = {} /\ Taken(s) = {}
  BY DEF Owed, Taken
<1>2. Cardinality({}) = 0
  BY FS_EmptySet
<1> QED
  BY <1>1, <1>2 DEF Balance

LEMMA ChildlessNext ==
  ASSUME NEW s \in Procs, \A c \in Procs : parent'[c] # s, pc'[s] # "wait"
  PROVE  Balance(s)'
<1>1. Owed(s)' = {} /\ Taken(s)' = {}
  BY DEF Owed, Taken
<1>2. Cardinality({}) = 0
  BY FS_EmptySet
<1> QED
  BY <1>1, <1>2 DEF Balance

LEMMA InitBalance == Init => \A s \in Procs : Balance(s)
<1> SUFFICES ASSUME Init, NEW s \in Procs PROVE Balance(s)
  OBVIOUS
<1>1. s # 0 /\ pc[s] # "wait" /\ \A c \in Procs : parent[c] = 0
  BY DEF Init, Procs
<1> QED
  BY <1>1, Childless

\* What is owed does not change for a shell none of whose children is born,
\* or collected.
LEMMA StepBalance ==
  ASSUME Family, \A s \in Procs : Balance(s), NEW p \in Procs, Steps(p), NEW s \in Procs
  PROVE  Balance(s)'
<1>1. Types /\ Births /\ Balance(s)
  BY FamilyParts
<1>2. ASSUME s \in Shells, pc'[s] = "wait" <=> pc[s] = "wait",
             \A c \in Procs : /\ parent'[c] = s <=> parent[c] = s
                              /\ parent[c] = s => /\ background'[c] = background[c]
                                                  /\ pc'[c] = "gone" <=> pc[c] = "gone"
      PROVE  Balance(s)'
  <2>1. Owed(s)' = Owed(s) /\ Taken(s)' = Taken(s)
    BY <1>2 DEF Owed, Taken
  <2> QED
    BY <1>1, <1>2, <2>1 DEF Balance
<1>3. CASE pc[p] \in {"prompt", "child", "program"} /\ End(p)
  <2>1. UNCHANGED <<parent, background>>
    BY <1>3 DEF Steps, Moves, Forks, Waits, Quiet, Restores, End
  <2>2. /\ pc'[p] \in {"zombie", "gone"} /\ (parent[p] \in Shells => pc'[p] = "zombie")
        /\ \A q \in Procs \ {p} :
             pc'[q] = pc[q] \/ (parent[q] = p /\ pc[q] = "zombie" /\ pc'[q] = "gone")
    BY <1>3, Ending
  <2>3. CASE s \in Shells'
    <3>1. s \in Shells /\ s # p /\ pc'[s] = pc[s]
      BY <2>2, <2>3 DEF Shells, Working, At
    <3> QED
      BY <1>2, <1>3, <2>1, <2>2, <3>1
  <2> QED
    BY <2>3 DEF Balance
<1>4. ASSUME NEW c \in Procs, NEW bg \in BOOLEAN, Forks(p, c, bg) PROVE Balance(s)'
  <2>1. /\ pc'[c] = "child" /\ pc[c] = "unborn" /\ pc[p] = "prompt" /\ c # p
        /\ pc'[p] = IF bg THEN "tcgetattr" ELSE "wait"
        /\ \A q \in Procs \ {c, p} : pc'[q] = pc[q]
        /\ background'[c] = bg /\ parent'[c] = p /\ parent[c] = 0
        /\ \A q \in Procs \ {c} : background'[q] = background[q] /\ parent'[q] = parent[q]
    BY <1>1, <1>4 DEF Forks, Types, Births
  <2>2. CASE s # p
    <3>1. CASE s \in Shells'
      <4>1. s \in Shells /\ s # c /\ s # 0 /\ pc'[s] = pc[s]
        BY <2>1, <2>2, <3>1 DEF Shells, Working, At, Procs
      <4>2. ASSUME NEW d \in Procs
            PROVE  /\ parent'[d] = s <=> parent[d] = s
                   /\ parent[d] = s => /\ background'[d] = background[d]
                                       /\ pc'[d] = "gone" <=> pc[d] = "gone"
        BY <2>1, <2>2, <4>1
      <4> QED
        BY <1>2, <4>1, <4>2
    <3> QED
      BY <3>1 DEF Balance
  <2>3. CASE s = p
    <3>1. s \in Shells /\ pc[s] # "wait" /\ p # 0
      BY <2>1, <2>3 DEF Shells, Working, At, Procs
    <3>2. Cardinality(Owed(s)) = Cardinality(Taken(s))
      BY <1>1, <3>1, OwedFinite DEF Balance
    <3>3. Taken(s)' = Taken(s)
      BY <2>1, <2>3, <3>1 DEF Taken
    <3>4. CASE bg
      <4>1. Owed(s)' = Owed(s)
        BY <2>1, <2>3, <3>1, <3>4 DEF Owed
      <4> QED
        BY <2>1, <2>3, <3>2, <3>3, <3>4, <4>1, OwedFinite DEF Balance
    <3>5. CASE ~bg
      <4>1. Owed(s)' = Owed(s) \cup {c} /\ c \notin Owed(s)
        BY <2>1, <2>3, <3>1, <3>5 DEF Owed
      <4>2. Cardinality(Owed(s)') = Cardinality(Owed(s)) + 1
        BY <4>1, OwedFinite, FS_AddElement
      <4> QED
        BY <2>1, <2>3, <3>2, <3>3, <3>5, <4>2, OwedFinite DEF Balance
    <3> QED
      BY <3>4, <3>5
  <2> QED
    BY <2>2, <2>3
<1>5. ASSUME NEW c \in Procs, Waits(p, c) PROVE Balance(s)'
  <2>1. /\ pc'[c] = "gone" /\ pc[c] = "zombie" /\ pc[p] = "wait" /\ pc'[p] = "tcgetattr"
        /\ c # p /\ \A q \in Procs \ {c, p} : pc'[q] = pc[q]
        /\ parent' = parent /\ background' = background /\ parent[c] = p
    BY <1>1, <1>5 DEF Waits, Types
  <2>2. CASE s # p
    <3>1. CASE s \in Shells'
      <4>1. s \in Shells /\ s # c /\ pc'[s] = pc[s]
        BY <2>1, <2>2, <3>1 DEF Shells, Working, At
      <4>2. \A d \in Procs : parent[d] = s => (pc'[d] = "gone" <=> pc[d] = "gone")
        BY <2>1, <2>2, <4>1
      <4> QED
        BY <1>2, <2>1, <4>1, <4>2
    <3> QED
      BY <3>1 DEF Balance
  <2>3. CASE s = p
    <3>1. Cardinality(Owed(s)) = Cardinality(Taken(s)) + 1 /\ pc'[s] # "wait"
      BY <1>1, <2>1, <2>3, OwedFinite DEF Balance, Shells, At
    <3>2. CASE background[c]
      <4>1. Owed(s)' = Owed(s) /\ Taken(s)' = Taken(s) \cup {c} /\ c \notin Taken(s)
        BY <2>1, <2>3, <3>2 DEF Owed, Taken
      <4>2. Cardinality(Taken(s)') = Cardinality(Taken(s)) + 1
        BY <4>1, OwedFinite, FS_AddElement
      <4> QED
        BY <3>1, <4>1, <4>2, OwedFinite DEF Balance
    <3>3. CASE ~background[c]
      <4>1. Taken(s)' = Taken(s) /\ Owed(s)' = Owed(s) \ {c} /\ c \in Owed(s)
        BY <2>1, <2>3, <3>3 DEF Owed, Taken
      <4>2. Cardinality(Owed(s)') = Cardinality(Owed(s)) - 1
        BY <4>1, OwedFinite, FS_RemoveElement
      <4> QED
        BY <3>1, <4>1, <4>2, OwedFinite DEF Balance
    <3> QED
      BY <3>2, <3>3
  <2> QED
    BY <2>2, <2>3
<1>6. ASSUME UNCHANGED <<parent, background>>, Moves(p, {"child"}, "tcgetattr")
      PROVE  Balance(s)'
  <2>1. pc[p] = "child" /\ pc'[p] = "tcgetattr" /\ \A q \in Procs \ {p} : pc'[q] = pc[q]
    BY <1>1, <1>6 DEF Moves, Types
  <2>2. CASE s = p
    <3>1. \A c \in Procs : parent'[c] # s
      BY <1>1, <1>6, <2>1, <2>2 DEF Births
    <3> QED
      BY <2>1, <2>2, <3>1, ChildlessNext
  <2>3. CASE s # p
    <3>1. CASE s \in Shells'
      BY <1>2, <1>6, <2>1, <2>3, <3>1 DEF Shells, Working, At
    <3> QED
      BY <3>1 DEF Balance
  <2> QED
    BY <2>2, <2>3
<1>7. ASSUME UNCHANGED <<parent, background>>, NEW from, NEW to, Moves(p, from, to),
             from \subseteq {"tcgetattr", "tcsetattr", "prompt"} \/ to = "program",
             from \cap {"wait", "gone"} = {}, to \notin {"wait", "gone"}
      PROVE  Balance(s)'
  <2>1. /\ pc[p] \in from /\ pc'[p] = to /\ \A q \in Procs \ {p} : pc'[q] = pc[q]
    BY <1>1, <1>7 DEF Moves, Types
  <2>2. CASE s \in Shells'
    <3>1. s \in Shells /\ (pc'[s] = "wait" <=> pc[s] = "wait")
      BY <1>7, <2>1, <2>2 DEF Shells, Working, At
    <3> QED
      BY <1>2, <1>7, <2>1, <3>1
  <2> QED
    BY <2>2 DEF Balance
<1> QED
  BY <1>1, <1>3, <1>4, <1>5, <1>6, <1>7 DEF Steps, Quiet, Restores

\* wait(0) takes any child (process_command, seashell.c:178): for each child of
\* a foreground command that a shell has not collected, it has collected one
\* started with & in its place.
THEOREM OneForAnotherTheorem == Spec => []OneForAnother
<1> DEFINE Balances == \A s \in Procs : Balance(s)
<1>1. Family /\ Balances /\ [Next]_vars => Balances'
  <2> SUFFICES ASSUME Family, Balances, [Next]_vars, NEW s \in Procs PROVE Balance(s)'
    OBVIOUS
  <2>1. CASE Next
    BY <2>1, EveryStep, StepBalance
  <2>2. CASE UNCHANGED vars
    BY <2>2 DEF vars, Balance, Owed, Taken, Shells, Working, At
  <2> QED
    BY <2>1, <2>2
<1>2. Init => Balances
  BY InitBalance
<1>3. Balances => OneForAnother
  BY Balanced
<1> HIDE DEF Balances
<1> QED
  BY <1>1, <1>2, <1>3, Families, PTL DEF Spec
=============================================================================
