------------------------------- MODULE Prompt -------------------------------
(***************************************************************************)
(* prompt of prj1/seashell.c: the loop that reads a command line one       *)
(* character at a time, and the blank line of parse_command.  (Of the two  *)
(* sides of the merge conflict the one with config.h, marked 564ca23.)     *)
(*                                                                         *)
(* A key is the characters it sends: one, or, if it is an arrow, Escape,   *)
(* [ and a letter, which is A for the up arrow.  Characters that were not  *)
(* read yet are left for the next call of prompt.                          *)
(***************************************************************************)
EXTENDS Naturals, SequencesExt

CONSTANTS Letters,   \* characters that are only typed; B, C and D are some
          Size       \* sizeof(buf): 4096

ASSUME SizeAssumption == Size \in Nat /\ Size >= 3
ASSUME LettersAssumption ==
  Letters \intersect {"bracket", "A", "space", "enter", "tab", "backspace",
                      "ctrl_D", "escape", "question"} = {}

Printable == Letters \union {"bracket", "A", "space"}
Characters == Printable \union {"enter", "ctrl_D", "escape", "question"}
Sent == Characters \union {"tab", "backspace"}

\* The question mark that a tab leaves in the line; one that is typed is among
\* the letters.
Simple == Sent \ {"question"}
Arrow(l) == <<"escape", "bracket", l>>
Keys == {<<c>> : c \in Simple} \union {Arrow(l) : l \in Letters \union {"A"}}

VARIABLES
  input,            \* the characters sent and not yet read
  buf,              \* buf[0..index-1]
  touched,          \* buf[0] is not 0
  multicode_state,
  oldbuf,           \* static: the line before
  outcome,          \* reading, or how the shell came to an end
  misread,          \* history: the last key came amid another's sequence
  erased,           \* history: a character of this line has been removed
  recalled          \* history: the length of the line recalled into this one

call == <<buf, touched, multicode_state, erased, recalled>>
vars == <<call, input, oldbuf, outcome, misread>>

Init ==
  /\ input = <<>> /\ oldbuf = <<>> /\ outcome = "reading" /\ misread = FALSE
  /\ buf = <<>> /\ touched = FALSE /\ multicode_state = 0
  /\ erased = FALSE /\ recalled = 0

\* An up arrow leaves the state at 2, an Escape key at 1: what comes next goes
\* on with a sequence that was over, or begins one where none can begin.
Misread(key) ==
  \/ multicode_state = 1 /\ Head(key) \in {"escape", "bracket"}
  \/ multicode_state = 2 /\ Head(key) \in {"escape", "A"}

Press(key) ==
  /\ outcome = "reading"
  /\ input = <<>>
  /\ input' = key
  /\ misread' = Misread(key)
  /\ UNCHANGED <<call, oldbuf, outcome>>

-----------------------------------------------------------------------------
(* After the loop *)

Call ==
  /\ buf' = <<>> /\ touched' = FALSE /\ multicode_state' = 0
  /\ erased' = FALSE /\ recalled' = 0

Blank(line) == \A i \in DOMAIN line : line[i] = "space"

\* One byte for the final 0.  parse_command takes the length of a token that
\* is not there if the line is blank.  Else the command runs, and main calls
\* prompt again.
Submit(line) ==
  IF Len(line) + 1 > Size
  THEN outcome' = "overrun" /\ UNCHANGED <<call, oldbuf>>
  ELSE IF Blank(line)
       THEN outcome' = "crashed" /\ UNCHANGED <<call, oldbuf>>
       ELSE outcome' = "reading" /\ oldbuf' = line /\ Call

\* One byte is the final 0 of the line, and one is the newline.
TrimNewline(line) ==
  IF line # <<>> /\ Last(line) = "enter" THEN Front(line) ELSE line

-----------------------------------------------------------------------------
(* The loop: what one character does *)

\* A new prompt, as long as buf[0] has not been written.
EmptyLine(c) ==
  /\ c = "enter" /\ ~touched
  /\ UNCHANGED <<call, oldbuf, outcome>>

Tab(c) ==
  /\ c = "tab"
  /\ Submit(Append(buf, "question"))

\* index goes down, buf stays as it is.
Backspace(c) ==
  /\ c = "backspace"
  /\ buf' = IF buf = <<>> THEN buf ELSE Front(buf)
  /\ erased' = (erased \/ buf # <<>>)
  /\ UNCHANGED <<touched, multicode_state, recalled, oldbuf, outcome>>

Escape(c) ==
  /\ \/ c = "escape" /\ multicode_state = 0 /\ multicode_state' = 1
     \/ c = "bracket" /\ multicode_state = 1 /\ multicode_state' = 2
  /\ UNCHANGED <<buf, touched, erased, recalled, oldbuf, outcome>>

\* Mutants: the line typed so far is kept; buf[0] is taken to be written.
UpArrow_Append(c) ==
  /\ c = "A" /\ multicode_state = 2
  /\ buf' = buf \o oldbuf
  /\ touched' = (touched \/ oldbuf # <<>>)
  /\ recalled' = Len(oldbuf)
  /\ UNCHANGED <<multicode_state, erased, oldbuf, outcome>>

UpArrow_Touch(c) ==
  /\ c = "A" /\ multicode_state = 2
  /\ buf' = oldbuf
  /\ touched' = TRUE
  /\ recalled' = Len(oldbuf)
  /\ UNCHANGED <<multicode_state, erased, oldbuf, outcome>>

\* multicode_state stays 2.
UpArrow(c) ==
  /\ c = "A" /\ multicode_state = 2
  /\ buf' = oldbuf
  /\ touched' = (touched \/ oldbuf # <<>>)
  /\ recalled' = Len(oldbuf)
  /\ erased' = (erased \/ buf # <<>>)
  /\ UNCHANGED <<multicode_state, oldbuf, outcome>>

\* Mutant: the line may be longer than buf.
Echo_Late(c) ==
  LET line == Append(buf, c)
  IN  IF Len(line) > Size \/ c = "enter"
      THEN Submit(TrimNewline(line))
      ELSE /\ outcome' = IF c = "ctrl_D" THEN "exit" ELSE "reading"
           /\ buf' = line
           /\ touched' = TRUE
           /\ multicode_state' = 0
           /\ UNCHANGED <<erased, recalled, oldbuf>>

Echo(c) ==
  LET line == Append(buf, c)
  IN  IF Len(line) >= Size - 1 \/ c = "enter"
      THEN Submit(TrimNewline(line))
      ELSE /\ outcome' = IF c = "ctrl_D" THEN "exit" ELSE "reading"
           /\ buf' = line
           /\ touched' = TRUE
           /\ multicode_state' = 0
           /\ UNCHANGED <<erased, recalled, oldbuf>>

Special(c) == EmptyLine(c) \/ Tab(c) \/ Backspace(c) \/ Escape(c) \/ UpArrow(c)

Handled(c) ==
  \/ c = "enter" /\ ~touched
  \/ c \in {"tab", "backspace"}
  \/ <<c, multicode_state>> \in {<<"escape", 0>>, <<"bracket", 1>>, <<"A", 2>>}

getchar ==
  /\ outcome = "reading"
  /\ input # <<>>
  /\ input' = Tail(input)
  /\ misread' = misread
  /\ \/ Special(Head(input))
     \/ ~Handled(Head(input)) /\ Echo(Head(input))

Next == getchar \/ \E key \in Keys : Press(key)

Spec == Init /\ [][Next]_vars

-----------------------------------------------------------------------------
(* Properties *)

\* The line being read and the one kept fit into their arrays with the final
\* 0: short of the overrun, index never passes sizeof(buf) - 1.
TypeOK ==
  /\ input \in Seq(Sent) /\ Len(input) <= 3
  /\ buf \in Seq(Characters) /\ Len(buf) < Size
  /\ oldbuf \in Seq(Characters) /\ Len(oldbuf) < Size
  /\ touched \in BOOLEAN /\ (buf # <<>> => touched)
  /\ multicode_state \in 0..2
  /\ outcome \in {"reading", "exit", "crashed", "overrun"}
  /\ misread \in BOOLEAN /\ erased \in BOOLEAN
  /\ recalled \in 0..(Size - 1)

\* Each key acts as one, whatever it sends and however far its characters are
\* read, and does to the line what LineEditor says.  There an arrow other than
\* up is as good as its letter: 548 gives the sequence up and 551 types what
\* ended it.  Excepted are the keys that Misread describes, to which line 534,
\* by leaving the state at 2, and an Escape key, which leaves it at 1, give
\* another meaning: an Escape or an arrow is typed character by character, a [
\* after an Escape is not typed, and an A after an up arrow, or after Escape and
\* [, recalls.
Key ==
  CASE input = <<>> \/ misread -> "no_key"
    [] ~misread /\ input # <<>> /\ Last(input) = "A"
         /\ (Len(input) > 1 \/ multicode_state = 2) -> "up"
    [] OTHER -> Last(input)

Editor == INSTANCE LineEditor
  WITH Size <- Size - 1,
       key <- Key,
       line <- IF outcome = "reading" THEN buf ELSE <<>>,
       last <- oldbuf,
       open <- outcome = "reading"

KeysActAsOne ==
  [][~misread /\ outcome' \in {"reading", "exit"}
       => [Editor!Next]_(Editor!vars)]_vars

\* The final 0 lands behind buf only when a line of the full length had been
\* recalled: the test at 552 is not made for recalled characters.
OverrunNeedsFullRecall == outcome = "overrun" => recalled = Size - 1

\* Enter at a prompt the user has not typed at is a new prompt, also after a
\* recall: a blank line reaches parse_command, and stops the shell at 307,
\* only when what was typed has been erased, by backspace or by recalling a
\* line before the first, or is all spaces.
CrashNeedsBlanks == outcome = "crashed" => erased \/ buf # <<>>
=============================================================================
