-------------------------------- MODULE Jobs --------------------------------
(***************************************************************************)
(* The processes of prj1/seashell.c and the terminal they share: main's    *)
(* loop, the part of prompt that switches the terminal to raw and back,    *)
(* process_command with fork, the search of PATH, execv and wait.          *)
(*                                                                         *)
(* What a line says is reduced to what process_command does with it.       *)
(* Reading it is in Prompt, the alias file in ConfigFile.                  *)
(***************************************************************************)
EXTENDS Naturals, FiniteSets, FiniteSetsExt

CONSTANT MaxProcs    \* bound: processes over the life of the first shell

ASSUME MaxProcsAssumption == MaxProcs \in Nat \ {0}

Procs == 1..MaxProcs

VARIABLES
  pc,          \* pc[p]: where process p is
  parent,      \* parent[p]: the shell that forked p; 0: none of these
  background,  \* background[p]: p was forked for a command with &
  backup,      \* backup[p]: the terminal's mode as p's last prompt found it
  terminal,    \* cooked, or raw: no echo, no lines
  dropped,     \* history: a shell ended at its prompt
  crowded      \* history: two shells have been at work at the same time

vars == <<pc, parent, background, backup, terminal, dropped, crowded>>

Init ==
  /\ pc = [p \in Procs |-> IF p = 1 THEN "tcgetattr" ELSE "unborn"]
  /\ parent = [p \in Procs |-> 0]
  /\ background = [p \in Procs |-> FALSE]
  /\ backup = [p \in Procs |-> "cooked"]
  /\ terminal = "cooked"
  /\ dropped = FALSE
  /\ crowded = FALSE

At(labels) == {p \in Procs : pc[p] \in labels}

Working == At({"tcgetattr", "tcsetattr", "prompt"})
Shells  == Working \union At({"wait"})

Goto(p, l) == pc' = [pc EXCEPT ![p] = l]

\* Mutant: the end of a process leaves nothing to wait for.
End_Ignored(p) ==
  pc' = [q \in Procs |->
           IF q = p \/ (parent[q] = p /\ pc[q] = "zombie") THEN "gone" ELSE pc[q]]

\* Process p ends: a zombie until its parent waits, if that is still there;
\* its own zombies go with it.
End(p) ==
  pc' = [q \in Procs |->
           IF q = p THEN IF parent[p] \in Shells THEN "zombie" ELSE "gone"
           ELSE IF parent[q] = p /\ pc[q] = "zombie" THEN "gone" ELSE pc[q]]

-----------------------------------------------------------------------------
(* prompt *)

tcgetattr(p) ==
  /\ pc[p] = "tcgetattr"
  /\ backup' = [backup EXCEPT ![p] = terminal]
  /\ Goto(p, "tcsetattr")
  /\ UNCHANGED <<parent, background, terminal, dropped>>

tcsetattr(p) ==
  /\ pc[p] = "tcsetattr"
  /\ terminal' = "raw"
  /\ Goto(p, "prompt")
  /\ UNCHANGED <<parent, background, backup, dropped>>

\* Mutant: the old settings are not restored.
Restore_Not(p) ==
  pc[p] = "prompt" /\ terminal' = terminal /\ UNCHANGED <<backup, dropped>>

Restore(p) ==
  pc[p] = "prompt" /\ terminal' = backup[p] /\ UNCHANGED <<backup, dropped>>

\* Ctrl-D, and the blank line that crashes parse_command, come before that.
drop(p) ==
  /\ pc[p] = "prompt"
  /\ End(p)
  /\ dropped' = TRUE
  /\ UNCHANGED <<parent, background, backup, terminal>>

-----------------------------------------------------------------------------
(* process_command *)

\* cd, a builtin command that comes back.
stay(p) ==
  /\ Restore(p)
  /\ Goto(p, "tcgetattr")
  /\ UNCHANGED <<parent, background>>

\* exit, a builtin that returns EXIT or crashes.
leave(p) ==
  /\ Restore(p)
  /\ End(p)
  /\ UNCHANGED <<parent, background>>

\* Mutant: the test of command->background is the wrong way round.
fork_Inverted(p) ==
  /\ Restore(p)
  /\ At({"unborn"}) # {}
  /\ \E bg \in BOOLEAN :
       LET c == Min(At({"unborn"}))
       IN  /\ pc' = [pc EXCEPT ![c] = "child",
                               ![p] = IF bg THEN "wait" ELSE "tcgetattr"]
           /\ parent' = [parent EXCEPT ![c] = p]
           /\ background' = [background EXCEPT ![c] = bg]

\* Anything else; without & the parent waits.
fork(p) ==
  /\ Restore(p)
  /\ At({"unborn"}) # {}
  /\ \E bg \in BOOLEAN :
       LET c == Min(At({"unborn"}))
       IN  /\ pc' = [pc EXCEPT ![c] = "child",
                               ![p] = IF bg THEN "tcgetattr" ELSE "wait"]
           /\ parent' = [parent EXCEPT ![c] = p]
           /\ background' = [background EXCEPT ![c] = bg]

\* Mutant: returns when no child has ended.
wait_NoHang(p) ==
  /\ pc[p] = "wait"
  /\ \E c \in Procs :
       /\ parent[c] = p /\ pc[c] # "gone"
       /\ pc' = [pc EXCEPT ![c] = IF @ = "zombie" THEN "gone" ELSE @,
                           ![p] = "tcgetattr"]
  /\ UNCHANGED <<parent, background, backup, terminal, dropped>>

\* wait(0): for any child.
wait(p) ==
  /\ pc[p] = "wait"
  /\ \E c \in At({"zombie"}) :
       /\ parent[c] = p
       /\ pc' = [pc EXCEPT ![c] = "gone", ![p] = "tcgetattr"]
  /\ UNCHANGED <<parent, background, backup, terminal, dropped>>

\* The child found the command in a directory of PATH and runs it, or fails
\* to and exits.
execv(c) ==
  /\ pc[c] = "child"
  /\ Goto(c, "program") \/ End(c)
  /\ UNCHANGED <<parent, background, backup, terminal, dropped>>

\* It did not: UNKNOWN goes back to main's loop, in the child too.
not_found(c) ==
  /\ pc[c] = "child"
  /\ Goto(c, "tcgetattr")
  /\ UNCHANGED <<parent, background, backup, terminal, dropped>>

\* The program ends some time.
exit(c) ==
  /\ pc[c] = "program"
  /\ End(c)
  /\ UNCHANGED <<parent, background, backup, terminal, dropped>>

prompt(p) == tcgetattr(p) \/ tcsetattr(p) \/ drop(p)

process_command(p) ==
  stay(p) \/ leave(p) \/ fork(p) \/ wait(p) \/ execv(p) \/ not_found(p)

Next ==
  /\ \E p \in Procs : prompt(p) \/ process_command(p) \/ exit(p)
  /\ crowded' = (crowded \/ Cardinality(Working') > 1)

Spec == Init /\ [][Next]_vars

-----------------------------------------------------------------------------
(* Properties *)

\* A shell that waits has a child to wait for: wait(0) neither fails nor
\* returns early.
TypeOK ==
  /\ pc \in [Procs -> {"unborn", "tcgetattr", "tcsetattr", "prompt", "wait",
                        "child", "program", "zombie", "gone"}]
  /\ parent \in [Procs -> 0..MaxProcs]
  /\ background \in [Procs -> BOOLEAN]
  /\ backup \in [Procs -> {"cooked", "raw"}]
  /\ terminal \in {"cooked", "raw"}
  /\ dropped \in BOOLEAN /\ crowded \in BOOLEAN
  /\ \A p \in Procs : parent[p] < p
  /\ \A p \in At({"wait"}) : \E c \in Procs : parent[c] = p /\ pc[c] # "gone"

Children(p) == {c \in Procs : parent[c] = p}

\* For each child of a foreground command that a shell has left running, or
\* left a zombie, it has collected one of a background command in its place
\* (seashell.c:178, wait(0)); a shell that has started nothing with & waits
\* for each command to finish.
OneForAnother ==
  \A p \in Shells :
    Cardinality({c \in Children(p) : ~background[c] /\ pc[c] # "gone"})
      = Cardinality({c \in Children(p) : background[c] /\ pc[c] = "gone"})
          + (IF pc[p] = "wait" THEN 1 ELSE 0)

\* A command that is not found leaves a second shell behind (184), but the
\* shells that take lines from the terminal are one and at most one more for
\* each command ever started with &.
FewReaders ==
  Cardinality(Working) <= 1 + Cardinality({c \in Procs : background[c]})

\* The terminal is raw just while a shell prompts, unless a shell has ended
\* at its prompt or two have been at work at the same time.
TerminalGivenBack ==
  dropped \/ crowded \/ (terminal = "raw" <=> At({"prompt"}) # {})
=============================================================================
