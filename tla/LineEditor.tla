----------------------------- MODULE LineEditor -----------------------------
(***************************************************************************)
(* The keys of seashell's prompt, each acting as one (prj1): a line is     *)
(* typed, corrected from its end, replaced by the line before it, and      *)
(* handed over as a command, which makes it the line before the next one.  *)
(* Escape does nothing.  Of the arrows only the first is a key of its own; *)
(* the others type a letter.  A key is pressed and then acts.              *)
(***************************************************************************)
EXTENDS Naturals, SequencesExt

CONSTANTS Printable,  \* the keys that put a character into the line
          Size        \* a line of Size characters is handed over as it is

VARIABLES key,        \* the key pressed that has not acted yet
          line,       \* the line so far
          last,       \* the line handed over before
          open        \* the user has not left

vars == <<key, line, last, open>>

Idle == "no_key"
Keys == Printable \union {"enter", "tab", "backspace", "up", "escape", "ctrl_D"}

Press == open /\ key = Idle /\ key' \in Keys /\ UNCHANGED <<line, last, open>>

Change(l)   == line' = l /\ UNCHANGED <<last, open>>
HandOver(l) == last' = l /\ line' = <<>> /\ open' = open

\* Whatever completes a full line is text, Ctrl-D too.
Fills == Len(line) + 1 >= Size

Do ==
  /\ open
  /\ key' = Idle
  /\ \/ key = "enter" /\ line # <<>> /\ HandOver(line)
     \/ key = "enter" /\ line = <<>> /\ Change(line)
     \/ key = "tab" /\ HandOver(Append(line, "question"))
     \/ key = "backspace" /\ Change(IF line = <<>> THEN line ELSE Front(line))
     \/ key = "up" /\ Change(last)
     \/ key = "escape" /\ Change(line)
     \/ key \in Printable \union {"ctrl_D"} /\ Fills /\ HandOver(Append(line, key))
     \/ key \in Printable /\ ~Fills /\ Change(Append(line, key))
     \/ key = "ctrl_D" /\ ~Fills /\ ~open' /\ line' = <<>> /\ last' = last

Next == Press \/ Do
=============================================================================
