---------------------------- MODULE PromptProofs ----------------------------
(***************************************************************************)
(* Proofs about Prompt, for a buffer of any size and any alphabet.         *)
(***************************************************************************)
EXTENDS Prompt, SequenceTheorems, TLAPS

-----------------------------------------------------------------------------
(* Sequences *)

\* Front takes the last element off.
LEMMA FrontIsSeq ==
  ASSUME NEW S, NEW s \in Seq(S), s # <<>>
  PROVE  /\ Front(s) \in Seq(S) /\ Len(Front(s)) = Len(s) - 1
         /\ \A i \in 1..(Len(s) - 1) : Front(s)[i] = s[i]
<1>1. PICK n \in Nat : Len(s) = n + 1
  <2>1. Len(s) \in Nat /\ Len(s) # 0
    OBVIOUS
  <2> QED
    BY <2>1, Len(s) - 1 \in Nat
<1>2. SubSeq(s, 1, n) \in Seq(S) /\ Len(SubSeq(s, 1, n)) = n
  BY <1>1
<1>3. \A i \in 1..n : SubSeq(s, 1, n)[i] = s[i]
  BY <1>1
<1>4. Len(s) - 1 = n
  BY <1>1
<1> QED
  BY <1>2, <1>3, <1>4 DEF Front

\* Append puts an element last; what is before it is the sequence.
LEMMA FrontOfAppend ==
  ASSUME NEW S, NEW s \in Seq(S), NEW e \in S
  PROVE  /\ Append(s, e) \in Seq(S) /\ Append(s, e) # <<>>
         /\ Len(Append(s, e)) = Len(s) + 1
         /\ Front(Append(s, e)) = s /\ Last(Append(s, e)) = e
<1> DEFINE t == Append(s, e)
<1>1. t \in Seq(S) /\ t # <<>> /\ Len(t) = Len(s) + 1 /\ t[Len(s) + 1] = e
      /\ \A i \in 1..Len(s) : t[i] = s[i]
  OBVIOUS
<1> HIDE DEF t
<1>2. Last(t) = e
  BY <1>1 DEF Last
<1>3. /\ Front(t) \in Seq(S) /\ Len(Front(t)) = Len(t) - 1
      /\ \A i \in 1..(Len(t) - 1) : Front(t)[i] = t[i]
  BY <1>1, FrontIsSeq
<1>4. Len(Front(t)) = Len(s) /\ \A i \in 1..Len(s) : Front(t)[i] = s[i]
  BY <1>1, <1>3
<1>5. Front(t) = s
  BY <1>3, <1>4, SeqEqual
<1> QED
  BY <1>1, <1>2, <1>5 DEF t

\* A line without the newline that ends it.
LEMMA Trimmed ==
  ASSUME NEW line \in Seq(Characters), NEW c \in Characters
  PROVE  TrimNewline(Append(line, c)) = IF c = "enter" THEN line ELSE Append(line, c)
BY FrontOfAppend DEF TrimNewline

\* A line with a character that is not a space is not blank.
LEMMA NotBlank ==
  ASSUME NEW line \in Seq(Characters), NEW c \in Characters, c # "space"
  PROVE  ~Blank(Append(line, c))
<1>1. /\ Len(line) + 1 \in DOMAIN Append(line, c)
      /\ Append(line, c)[Len(line) + 1] = c
  OBVIOUS
<1> QED
  BY <1>1 DEF Blank

-----------------------------------------------------------------------------
(* Invariants *)

\* A line of the full length came from the line before, and so did its length.
Recalled == Len(buf) = Size - 1 => recalled = Size - 1

\* A line that is empty although something has been written into buf has been
\* erased.
Emptied == touched /\ buf = <<>> => erased

LineInv == TypeOK /\ Recalled /\ Emptied

LEMMA InitLine == Init => LineInv
<1>1. <<>> \in Seq(Sent) /\ <<>> \in Seq(Characters) /\ Len(<<>>) = 0
  BY EmptySeq
<1>2. Size - 1 \in Nat /\ Size - 1 # 0 /\ 0 \in 0..(Size - 1) /\ 0 < Size
  BY SizeAssumption
<1> SUFFICES ASSUME Init PROVE LineInv
  OBVIOUS
<1>3. /\ input = <<>> /\ buf = <<>> /\ oldbuf = <<>> /\ recalled = 0
      /\ ~touched /\ touched \in BOOLEAN /\ misread \in BOOLEAN /\ erased \in BOOLEAN
      /\ outcome = "reading" /\ multicode_state = 0
  BY DEF Init
<1>4. TypeOK
  BY <1>1, <1>2, <1>3 DEF TypeOK
<1> QED
  BY <1>1, <1>2, <1>3, <1>4 DEF LineInv, Recalled, Emptied

\* The keys are simple ones and arrows.
LEMMA PressLine ==
  ASSUME LineInv, NEW key \in Keys, Press(key)
  PROVE  LineInv'
<1>1. input' \in Seq(Sent) /\ Len(input') <= 3
  <2>1. ASSUME NEW c \in Simple, key = <<c>> PROVE key \in Seq(Sent) /\ Len(key) <= 3
    BY <2>1 DEF Simple
  <2>2. ASSUME NEW l \in Letters \union {"A"}, key = Arrow(l)
        PROVE  key \in Seq(Sent) /\ Len(key) <= 3
    <3>1. {"escape", "bracket", l} \subseteq Sent
      BY DEF Sent, Characters, Printable
    <3> QED
      BY <2>2, <3>1 DEF Arrow
  <2> QED
    BY <2>1, <2>2 DEF Press, Keys
<1>2. misread' \in BOOLEAN
  BY DEF Press, Misread
<1> QED
  BY <1>1, <1>2 DEF Press, call, LineInv, TypeOK, Recalled, Emptied

\* What is handed over after the loop, and where the shell ends there.
LEMMA SubmitLine ==
  ASSUME LineInv, outcome = "reading",
         NEW line \in Seq(Characters), Len(line) <= Len(buf) + 1,
         Submit(line)
  PROVE  /\ /\ buf' \in Seq(Characters) /\ Len(buf') < Size
            /\ oldbuf' \in Seq(Characters) /\ Len(oldbuf') < Size
            /\ touched' \in BOOLEAN /\ (buf' # <<>> => touched')
            /\ multicode_state' \in 0..2
            /\ outcome' \in {"reading", "exit", "crashed", "overrun"}
            /\ erased' \in BOOLEAN
            /\ recalled' \in 0..(Size - 1)
         /\ Recalled' /\ Emptied'
         /\ outcome' # "exit"
         /\ outcome' = "overrun" => recalled' = Size - 1
<1>1. Size \in Nat /\ Size >= 3 /\ Len(buf) \in Nat /\ Len(line) \in Nat
  BY SizeAssumption DEF LineInv, TypeOK
<1>2. CASE Len(line) + 1 > Size
  <2>1. Len(buf) = Size - 1
    BY <1>1, <1>2 DEF LineInv, TypeOK
  <2>2. outcome' = "overrun" /\ UNCHANGED <<call, oldbuf>>
    BY <1>2 DEF Submit
  <2> QED
    BY <2>1, <2>2 DEF call, LineInv, TypeOK, Recalled, Emptied
<1>3. CASE ~(Len(line) + 1 > Size) /\ Blank(line)
  <2>1. outcome' = "crashed" /\ UNCHANGED <<call, oldbuf>>
    BY <1>3 DEF Submit
  <2> QED
    BY <2>1 DEF call, LineInv, TypeOK, Recalled, Emptied
<1>4. CASE ~(Len(line) + 1 > Size) /\ ~Blank(line)
  <2>1. outcome' = "reading" /\ oldbuf' = line /\ Call
    BY <1>4 DEF Submit
  <2>2. buf' = <<>> /\ Len(buf') = 0 /\ buf' \in Seq(Characters)
    BY <2>1, EmptySeq DEF Call
  <2>3. ~touched' /\ touched' \in BOOLEAN /\ erased' \in BOOLEAN
    BY <2>1 DEF Call
  <2>4. multicode_state' \in 0..2
    BY <2>1 DEF Call
  <2>5. Len(oldbuf') < Size /\ Len(buf') < Size /\ Len(buf') # Size - 1
    <3>1. Len(line) < Size
      BY <1>1, <1>4
    <3>2. 0 < Size /\ 0 # Size - 1
      BY <1>1
    <3> QED
      BY <2>1, <2>2, <3>1, <3>2
  <2>6. recalled' \in 0..(Size - 1)
    BY <1>1, <2>1 DEF Call
  <2> QED
    BY <2>1, <2>2, <2>3, <2>4, <2>5, <2>6 DEF Recalled, Emptied
<1> QED
  BY <1>2, <1>3, <1>4

\* What getchar reads.
LEMMA Reads ==
  ASSUME LineInv, getchar
  PROVE  /\ Head(input) \in Sent
         /\ input' \in Seq(Sent) /\ Len(input') <= 3
         /\ misread' \in BOOLEAN
<1>1. Head(input) \in Sent /\ Tail(input) \in Seq(Sent) /\ Len(Tail(input)) = Len(input) - 1
  BY HeadTailProperties DEF getchar, LineInv, TypeOK
<1> QED
  BY <1>1 DEF getchar, LineInv, TypeOK

\* A character of each kind keeps the invariant, and ends the shell as stated.
LEMMA CharacterLine ==
  ASSUME LineInv, getchar
  PROVE  /\ LineInv'
         /\ outcome' = "overrun" => recalled' = Size - 1
         /\ outcome' = "crashed" => erased' \/ buf' # <<>>
<1> DEFINE c == Head(input)
<1>1. /\ c \in Sent /\ outcome = "reading"
      /\ input' \in Seq(Sent) /\ Len(input') <= 3 /\ misread' \in BOOLEAN
  BY Reads DEF getchar
<1>2. PICK buffer \in Seq(Characters) : buffer = buf
  BY DEF LineInv, TypeOK
<1>3. Len(buf) \in Nat /\ Size \in Nat /\ Size >= 3
  BY SizeAssumption DEF LineInv, TypeOK
<1>4. CASE EmptyLine(c)
  BY <1>1, <1>4 DEF EmptyLine, call, LineInv, TypeOK, Recalled, Emptied
<1>5. CASE Tab(c)
  <2>1. "question" \in Characters
    BY DEF Characters
  <2> DEFINE line == Append(buf, "question")
  <2>2. line \in Seq(Characters) /\ Len(line) <= Len(buf) + 1
    BY <1>2, <1>3, <2>1, FrontOfAppend
  <2>3. ~Blank(line)
    BY <1>2, <2>1, NotBlank
  <2>4. Submit(line)
    BY <1>5 DEF Tab
  <2>5. outcome' # "crashed"
    BY <2>3, <2>4 DEF Submit
  <2> HIDE DEF line
  <2> QED
    BY <1>1, <2>2, <2>4, <2>5, SubmitLine DEF LineInv, TypeOK
<1>6. CASE Backspace(c)
  <2>1. CASE buf = <<>>
    BY <1>1, <1>6, <2>1 DEF Backspace, LineInv, TypeOK, Recalled, Emptied
  <2>2. CASE buf # <<>>
    <3>1. buf' \in Seq(Characters) /\ Len(buf') = Len(buf) - 1 /\ erased' = TRUE
      BY <1>2, <1>6, <2>2, FrontIsSeq DEF Backspace
    <3>2. UNCHANGED <<touched, multicode_state, recalled, oldbuf, outcome>>
      BY <1>6 DEF Backspace
    <3>3. touched
      BY <2>2 DEF LineInv, TypeOK
    <3>4. Len(buf') < Size /\ Len(buf') # Size - 1
      BY <1>3, <3>1 DEF LineInv, TypeOK
    <3> QED
      BY <1>1, <3>1, <3>2, <3>3, <3>4 DEF LineInv, TypeOK, Recalled, Emptied
  <2> QED
    BY <2>1, <2>2
<1>7. CASE Escape(c)
  <2>1. multicode_state' \in 0..2
    BY <1>7 DEF Escape
  <2>2. UNCHANGED <<buf, touched, erased, recalled, oldbuf, outcome>>
    BY <1>7 DEF Escape
  <2> QED
    BY <1>1, <2>1, <2>2 DEF LineInv, TypeOK, Recalled, Emptied
<1>8. CASE UpArrow(c)
  <2>1. UNCHANGED <<multicode_state, oldbuf, outcome>> /\ buf' = oldbuf
    BY <1>8 DEF UpArrow
  <2>2. touched' = (touched \/ oldbuf # <<>>) /\ erased' = (erased \/ buf # <<>>)
    BY <1>8 DEF UpArrow
  <2>3. recalled' = Len(oldbuf) /\ recalled' \in 0..(Size - 1)
    BY <1>3, <1>8 DEF UpArrow, LineInv, TypeOK
  <2>4. touched' \in BOOLEAN /\ erased' \in BOOLEAN /\ (buf' # <<>> => touched')
    BY <2>1, <2>2
  <2>5. touched' /\ buf' = <<>> => erased'
    BY <2>1, <2>2 DEF LineInv, Emptied
  <2> QED
    BY <1>1, <2>1, <2>3, <2>4, <2>5 DEF LineInv, TypeOK, Recalled, Emptied
<1>9. CASE ~Handled(c) /\ Echo(c)
  <2> DEFINE line == Append(buf, c)
  <2>1. c \in Characters
    BY <1>1, <1>9 DEF Handled, Sent
  <2>2. /\ line \in Seq(Characters) /\ Len(line) = Len(buf) + 1 /\ line # <<>>
        /\ TrimNewline(line) = IF c = "enter" THEN buf ELSE line
    BY <1>2, <2>1, FrontOfAppend, Trimmed
  <2>3. CASE Len(line) >= Size - 1 \/ c = "enter"
    <3>1. Submit(TrimNewline(line))
      BY <1>9, <2>3 DEF Echo
    <3>2. TrimNewline(line) \in Seq(Characters) /\ Len(TrimNewline(line)) <= Len(buf) + 1
      BY <1>2, <1>3, <2>2
    <3>3. outcome' = "crashed" => erased' \/ buf' # <<>>
      <4> SUFFICES ASSUME outcome' = "crashed", buf = <<>> PROVE erased
        BY <3>1 DEF Submit, call
      <4>1. Len(buf) = 0
        BY EmptySeq
      <4>2. c = "enter"
        BY <1>3, <2>2, <2>3, <4>1
      <4>3. touched
        BY <1>9, <4>2 DEF Handled
      <4> QED
        BY <4>3 DEF LineInv, Emptied
    <3> DEFINE trimmed == TrimNewline(line)
    <3> HIDE DEF trimmed, line
    <3>4. trimmed \in Seq(Characters) /\ Len(trimmed) <= Len(buf) + 1 /\ Submit(trimmed)
      BY <3>1, <3>2 DEF trimmed
    <3> QED
      BY <1>1, <3>3, <3>4, SubmitLine DEF LineInv, TypeOK
  <2>4. CASE ~(Len(line) >= Size - 1 \/ c = "enter")
    <3>1. /\ outcome' \in {"exit", "reading"} /\ buf' = line /\ touched' = TRUE
          /\ UNCHANGED <<erased, recalled, oldbuf>>
      BY <1>9, <2>4 DEF Echo
    <3>2. multicode_state' \in 0..2
      BY <1>9, <2>4 DEF Echo
    <3>3. Len(buf') < Size /\ Len(buf') # Size - 1
      BY <1>3, <2>2, <2>4, <3>1
    <3> HIDE DEF line
    <3> QED
      BY <1>1, <2>2, <3>1, <3>2, <3>3 DEF LineInv, TypeOK, Recalled, Emptied
  <2> QED
    BY <2>3, <2>4
<1> QED
  BY <1>4, <1>5, <1>6, <1>7, <1>8, <1>9 DEF getchar, Special

Ends == OverrunNeedsFullRecall /\ CrashNeedsBlanks

LEMMA StepLine ==
  ASSUME LineInv, Ends, [Next]_vars
  PROVE  LineInv' /\ Ends'
<1>1. CASE getchar
  BY <1>1, CharacterLine DEF Ends, OverrunNeedsFullRecall, CrashNeedsBlanks
<1>2. ASSUME NEW key \in Keys, Press(key) PROVE LineInv' /\ Ends'
  <2>1. outcome' = "reading"
    BY <1>2 DEF Press
  <2> QED
    BY <1>2, <2>1, PressLine DEF Ends, OverrunNeedsFullRecall, CrashNeedsBlanks
<1>3. CASE UNCHANGED vars
  <2>1. UNCHANGED <<input, buf, touched, multicode_state, oldbuf, outcome, misread, erased, recalled>>
    BY <1>3 DEF vars, call
  <2> QED
    BY <2>1 DEF LineInv, TypeOK, Recalled, Emptied, Ends, OverrunNeedsFullRecall, CrashNeedsBlanks
<1> QED
  BY <1>1, <1>2, <1>3 DEF Next

LEMMA Lines == Spec => [](LineInv /\ Ends)
<1>1. Init => Ends
  BY DEF Init, Ends, OverrunNeedsFullRecall, CrashNeedsBlanks
<1> QED
  BY <1>1, InitLine, StepLine, PTL DEF Spec

\* The line being read, and the one before it, fit into their arrays with the
\* final 0 (prompt, seashell.c:503-565).
THEOREM TypeTheorem == Spec => []TypeOK
BY Lines, PTL DEF LineInv

\* The final 0 lands behind buf only where a line of the full length had been
\* recalled (the test at 552 is not made for recalled characters).
THEOREM OverrunTheorem == Spec => []OverrunNeedsFullRecall
BY Lines, PTL DEF Ends

\* The shell stops at a blank line only where something was typed or erased
\* (parse_command, 307).
THEOREM CrashTheorem == Spec => []CrashNeedsBlanks
BY Lines, PTL DEF Ends

-----------------------------------------------------------------------------
(* Keys *)

Ended == Letters \union {"A"}

\* What a character on its own must not be, to act as a key.
Apart(k) == ~Misread(<<k>>)

\* Within an arrow key that is not misread, the state says how far it has been
\* read.
KeysWhole ==
  \/ input = <<>> \/ misread
  \/ \E l \in Ended : \/ input = Arrow(l) /\ multicode_state = 0
                      \/ input = <<"bracket", l>> /\ multicode_state = 1
                      \/ input = <<l>> /\ multicode_state = 2
  \/ \E k \in Simple : input = <<k>> /\ Apart(k)

\* A sequence read from its head.
LEMMA Reading ==
  /\ Len(<<>>) = 0
  /\ \A k : /\ Head(<<k>>) = k /\ Tail(<<k>>) = <<>> /\ Len(<<k>>) = 1 /\ <<k>> # <<>>
            /\ Last(<<k>>) = k
  /\ \A k, l : /\ Head(<<k, l>>) = k /\ Tail(<<k, l>>) = <<l>> /\ Len(<<k, l>>) = 2
               /\ Last(<<k, l>>) = l /\ <<k, l>> # <<>>
  /\ \A l : /\ Head(Arrow(l)) = "escape" /\ Tail(Arrow(l)) = <<"bracket", l>>
            /\ Len(Arrow(l)) = 3 /\ Last(Arrow(l)) = l /\ Arrow(l) # <<>>
BY DEF Arrow, Last

\* The two states an escape sequence goes through.
LEMMA States ==
  ASSUME LineInv, getchar
  PROVE  /\ input' = Tail(input) /\ misread' = misread /\ outcome = "reading"
         /\ <<Head(input), multicode_state>> \in {<<"escape", 0>>, <<"bracket", 1>>}
              => /\ multicode_state' = multicode_state + 1
                 /\ buf' = buf /\ oldbuf' = oldbuf /\ outcome' = outcome
<1>1. input' = Tail(input) /\ misread' = misread /\ outcome = "reading"
  BY DEF getchar
<1>2. ASSUME <<Head(input), multicode_state>> \in {<<"escape", 0>>, <<"bracket", 1>>}
      PROVE  /\ multicode_state' = multicode_state + 1
             /\ buf' = buf /\ oldbuf' = oldbuf /\ outcome' = outcome
  <2>1. Escape(Head(input))
    BY <1>2 DEF getchar, Handled, Special, EmptyLine, Tab, Backspace, UpArrow
  <2> QED
    BY <1>2, <2>1 DEF Escape
<1> QED
  BY <1>1, <1>2

LEMMA StepKeys ==
  ASSUME LineInv, KeysWhole, [Next]_vars
  PROVE  KeysWhole'
<1>1. CASE getchar
  <2>1. input' = Tail(input) /\ misread' = misread /\ input # <<>>
    BY <1>1, States DEF getchar
  <2>2. ASSUME NEW l \in Ended, input = Arrow(l), multicode_state = 0 PROVE KeysWhole'
    <3>1. Head(input) = "escape" /\ input' = <<"bracket", l>>
      BY <2>1, <2>2, Reading
    <3>2. multicode_state' = 1
      BY <1>1, <2>2, <3>1, States
    <3> QED
      BY <3>1, <3>2 DEF KeysWhole, Ended
  <2>3. ASSUME NEW l \in Ended, input = <<"bracket", l>>, multicode_state = 1 PROVE KeysWhole'
    <3>1. Head(input) = "bracket" /\ input' = <<l>>
      BY <2>1, <2>3, Reading
    <3>2. multicode_state' = 2
      BY <1>1, <2>3, <3>1, States
    <3> QED
      BY <3>1, <3>2 DEF KeysWhole, Ended
  <2>4. ASSUME NEW k, input = <<k>> PROVE KeysWhole'
    BY <2>1, <2>4, Reading DEF KeysWhole
  <2> QED
    BY <2>1, <2>2, <2>3, <2>4 DEF KeysWhole
<1>2. ASSUME NEW key \in Keys, Press(key) PROVE KeysWhole'
  <2>1. /\ input' = key /\ misread' = Misread(key)
        /\ multicode_state' = multicode_state /\ multicode_state \in 0..2
    BY <1>2 DEF Press, call, LineInv, TypeOK
  <2>2. ASSUME NEW k \in Simple, key = <<k>> PROVE KeysWhole'
    <3>1. Misread(<<k>>)' <=> Misread(<<k>>)
      BY <2>1 DEF Misread
    <3> QED
      BY <2>1, <2>2, <3>1 DEF KeysWhole, Apart
  <2>3. ASSUME NEW l \in Ended, key = Arrow(l) PROVE KeysWhole'
    <3>1. ~misread' => multicode_state' = 0
      BY <2>1, <2>3, Reading DEF Misread
    <3> QED
      BY <2>1, <2>3, <3>1 DEF KeysWhole, Ended
  <2> QED
    BY <2>2, <2>3 DEF Keys, Ended
<1>3. CASE UNCHANGED vars
  BY <1>3 DEF vars, call, KeysWhole, Apart, Misread, Ended
<1> QED
  BY <1>1, <1>2, <1>3 DEF Next

\* What an arrow is as a key of the abstract editor.
Amounts(l) == IF l = "A" THEN "up" ELSE l

\* The key that is being read.
LEMMA KeyRead ==
  /\ input = <<>> \/ misread => Key = "no_key"
  /\ \A l : ~misread /\ input \in {Arrow(l), <<"bracket", l>>} => Key = Amounts(l)
  /\ ~misread /\ input = <<"A">> /\ multicode_state = 2 => Key = "up"
  /\ \A k : ~misread /\ input = <<k>> /\ <<k, multicode_state>> # <<"A", 2>>
       => Key = k
<1>1. input = <<>> \/ misread => Key = "no_key"
  BY Reading DEF Key
<1>2. ASSUME NEW l, ~misread, input \in {Arrow(l), <<"bracket", l>>}
      PROVE  Key = Amounts(l)
  <2>1. Last(input) = l /\ Len(input) > 1 /\ input # <<>>
    <3>1. CASE input = Arrow(l)
      BY <3>1, Reading
    <3>2. CASE input = <<"bracket", l>>
      BY <3>2, Reading
    <3> QED
      BY <1>2, <3>1, <3>2
  <2> QED
    BY <1>2, <2>1 DEF Key, Amounts
<1>3. ~misread /\ input = <<"A">> /\ multicode_state = 2 => Key = "up"
  BY Reading DEF Key
<1>4. ASSUME NEW k, ~misread, input = <<k>>, <<k, multicode_state>> # <<"A", 2>>
      PROVE  Key = k
  BY <1>4, Reading DEF Key
<1> QED
  BY <1>1, <1>2, <1>3, <1>4

\* The same after a step.
LEMMA KeyLeft ==
  /\ input' = <<>> \/ misread' => Key' = "no_key"
  /\ \A l : ~misread' /\ input' \in {Arrow(l), <<"bracket", l>>} => Key' = Amounts(l)
  /\ ~misread' /\ input' = <<"A">> /\ multicode_state' = 2 => Key' = "up"
  /\ \A k : ~misread' /\ input' = <<k>> /\ <<k, multicode_state'>> # <<"A", 2>>
       => Key' = k
<1>1. input' = <<>> \/ misread' => Key' = "no_key"
  BY Reading DEF Key
<1>2. ASSUME NEW l, ~misread', input' \in {Arrow(l), <<"bracket", l>>}
      PROVE  Key' = Amounts(l)
  <2>1. Last(input') = l /\ Len(input') > 1 /\ input' # <<>>
    <3>1. CASE input' = Arrow(l)
      BY <3>1, Reading
    <3>2. CASE input' = <<"bracket", l>>
      BY <3>2, Reading
    <3> QED
      BY <1>2, <3>1, <3>2
  <2> QED
    BY <1>2, <2>1 DEF Key, Amounts
<1>3. ~misread' /\ input' = <<"A">> /\ multicode_state' = 2 => Key' = "up"
  BY Reading DEF Key
<1>4. ASSUME NEW k, ~misread', input' = <<k>>, <<k, multicode_state'>> # <<"A", 2>>
      PROVE  Key' = k
  BY <1>4, Reading DEF Key
<1> QED
  BY <1>1, <1>2, <1>3, <1>4

\* Pressing a key is a press of the abstract editor, and a key that will be
\* misread none.
LEMMA PressRefines ==
  ASSUME NEW key \in Keys, Press(key)
  PROVE  [Editor!Next]_(Editor!vars)
<1>1. /\ outcome = "reading" /\ input = <<>> /\ input' = key
      /\ misread' = Misread(key) /\ multicode_state' = multicode_state
      /\ buf' = buf /\ oldbuf' = oldbuf /\ outcome' = outcome
  BY DEF Press, call
<1>2. Key = "no_key"
  BY <1>1, KeyRead
<1>3. CASE misread'
  BY <1>1, <1>2, <1>3, KeyLeft DEF Editor!vars
<1>4. CASE ~misread'
  <2>1. ASSUME NEW k \in Simple, key = <<k>> PROVE Key' \in Editor!Keys
    <3>1. <<k, multicode_state>> # <<"A", 2>>
      BY <1>1, <1>4, <2>1, Reading DEF Misread
    <3>2. Key' = k
      BY <1>1, <1>4, <2>1, <3>1, KeyLeft
    <3> QED
      BY <3>2 DEF Simple, Sent, Characters, Editor!Keys
  <2>2. ASSUME NEW l \in Ended, key = Arrow(l) PROVE Key' \in Editor!Keys
    <3>1. Key' = Amounts(l)
      BY <1>1, <1>4, <2>2, KeyLeft
    <3> QED
      BY <3>1 DEF Amounts, Ended, Editor!Keys, Printable
  <2>3. Key' \in Editor!Keys
    BY <2>1, <2>2 DEF Keys, Ended
  <2> QED
    BY <1>1, <1>2, <2>3 DEF Editor!Next, Editor!Press, Editor!Idle
<1> QED
  BY <1>3, <1>4

\* A line that is handed over.
LEMMA SubmitRefines ==
  ASSUME outcome = "reading", outcome' \in {"reading", "exit"},
         NEW line, Submit(line)
  PROVE  Editor!HandOver(line) /\ ~Blank(line)
BY DEF Submit, Call, Editor!HandOver

\* The character that is the whole key, or the letter of an arrow.
LEMMA CharacterRefines ==
  ASSUME LineInv, getchar, ~misread, outcome' \in {"reading", "exit"},
         NEW k \in Simple, input = <<k>>, Apart(k)
  PROVE  Editor!Do
<1>1. /\ Head(input) = k /\ input' = <<>> /\ outcome = "reading" /\ ~misread'
      /\ Key = k /\ Key' = "no_key" /\ multicode_state \in 0..2
  BY Reading, States, KeyRead, KeyLeft DEF Apart, Misread, LineInv, TypeOK
<1>2. /\ k \notin {"enter", "tab", "backspace", "ctrl_D", "escape"} => k \in Printable
      /\ k \in Printable => k \notin {"enter", "tab", "backspace", "escape"}
      /\ k = "escape" => multicode_state = 0
      /\ ~(k = "bracket" /\ multicode_state = 1) /\ ~(k = "A" /\ multicode_state = 2)
  BY <1>1, LettersAssumption, Reading
  DEF Simple, Sent, Characters, Printable, Apart, Misread
<1>3. PICK buffer \in Seq(Characters) : buffer = buf
  BY DEF LineInv, TypeOK
<1>4. Len(buf) \in Nat /\ Size \in Nat /\ Size >= 3
  BY SizeAssumption DEF LineInv, TypeOK
<1>5. CASE EmptyLine(k)
  <2>1. buf = <<>>
    BY <1>5 DEF EmptyLine, LineInv, TypeOK
  <2> QED
    BY <1>1, <1>5, <2>1 DEF EmptyLine, call, Editor!Do, Editor!Idle, Editor!Change
<1>6. CASE Tab(k)
  <2>1. Editor!HandOver(Append(buf, "question"))
    BY <1>1, <1>6, SubmitRefines DEF Tab
  <2> QED
    BY <1>1, <1>6, <2>1 DEF Tab, Editor!Do, Editor!Idle
<1>7. CASE Backspace(k)
  <2>1. /\ buf' = IF buf = <<>> THEN buf ELSE Front(buf)
        /\ oldbuf' = oldbuf /\ outcome' = outcome /\ k = "backspace"
    BY <1>7 DEF Backspace
  <2>2. CASE buf = <<>>
    BY <1>1, <2>1, <2>2 DEF Editor!Do, Editor!Idle, Editor!Change
  <2>3. CASE buf # <<>>
    BY <1>1, <2>1, <2>3
    DEF Front, Editor!Front, Editor!Do, Editor!Idle, Editor!Change
  <2> QED
    BY <2>2, <2>3
<1>8. CASE Escape(k)
  <2>1. k = "escape" /\ buf' = buf /\ oldbuf' = oldbuf /\ outcome' = outcome
    BY <1>2, <1>8 DEF Escape
  <2> QED
    BY <1>1, <2>1 DEF Editor!Do, Editor!Idle, Editor!Change
<1>9. CASE ~Handled(k) /\ Echo(k)
  <2> DEFINE line == Append(buf, k)
  <2>1. k \in Characters /\ k # "escape"
    BY <1>2, <1>9 DEF Handled, Characters
  <2>2. /\ Len(line) = Len(buf) + 1
        /\ TrimNewline(line) = IF k = "enter" THEN buf ELSE line
    BY <1>3, <2>1, FrontOfAppend, Trimmed
  <2>3. CASE k = "enter"
    <3>1. Editor!HandOver(buf) /\ ~Blank(buf)
      BY <1>1, <1>9, <2>2, <2>3, SubmitRefines DEF Echo
    <3>2. buf # <<>>
      BY <3>1 DEF Blank
    <3> QED
      BY <1>1, <2>3, <3>1, <3>2 DEF Editor!Do, Editor!Idle
  <2>4. CASE k # "enter" /\ Len(line) >= Size - 1
    <3>1. Editor!HandOver(line)
      BY <1>1, <1>9, <2>2, <2>4, SubmitRefines DEF Echo
    <3>2. Editor!Fills
      BY <1>1, <2>2, <2>4 DEF Editor!Fills
    <3>3. k \in Printable \union {"ctrl_D"}
      BY <1>2, <1>9, <2>1, <2>4 DEF Handled
    <3> QED
      BY <1>1, <3>1, <3>2, <3>3 DEF Editor!Do, Editor!Idle
  <2>5. CASE k # "enter" /\ ~(Len(line) >= Size - 1)
    <3>1. ~Editor!Fills
      BY <1>1, <2>2, <2>5 DEF Editor!Fills
    <3>2. /\ buf' = line /\ oldbuf' = oldbuf
          /\ outcome' = IF k = "ctrl_D" THEN "exit" ELSE "reading"
      BY <1>9, <2>5 DEF Echo
    <3>3. k \in Printable \union {"ctrl_D"}
      BY <1>2, <1>9, <2>1, <2>5 DEF Handled
    <3>4. CASE k = "ctrl_D"
      BY <1>1, <3>1, <3>2, <3>4 DEF Editor!Do, Editor!Idle
    <3>5. CASE k \in Printable /\ k # "ctrl_D"
      BY <1>1, <3>1, <3>2, <3>5 DEF Editor!Do, Editor!Idle, Editor!Change
    <3> QED
      BY <3>3, <3>4, <3>5
  <2> QED
    BY <2>3, <2>4, <2>5
<1>10. ~UpArrow(k)
  BY <1>2 DEF UpArrow
<1> QED
  BY <1>1, <1>5, <1>6, <1>7, <1>8, <1>9, <1>10 DEF getchar, Special

\* A character of a key: the last one does what the key does.
LEMMA EscapeRefines ==
  ASSUME LineInv, KeysWhole, getchar, ~misread, outcome' \in {"reading", "exit"}
  PROVE  [Editor!Next]_(Editor!vars)
<1>1. outcome = "reading" /\ input' = Tail(input) /\ ~misread' /\ input # <<>>
  BY States DEF getchar
<1>2. ASSUME NEW l \in Ended, input = Arrow(l), multicode_state = 0
      PROVE  [Editor!Next]_(Editor!vars)
  <2>1. input' = <<"bracket", l>> /\ Key = Amounts(l) /\ Key' = Amounts(l)
    BY <1>1, <1>2, Reading, KeyRead, KeyLeft
  <2>2. buf' = buf /\ oldbuf' = oldbuf /\ outcome' = outcome
    BY <1>2, Reading, States
  <2> QED
    BY <2>1, <2>2 DEF Editor!vars
<1>3. ASSUME NEW l \in Ended, input = <<"bracket", l>>, multicode_state = 1
      PROVE  [Editor!Next]_(Editor!vars)
  <2>1. input' = <<l>> /\ Key = Amounts(l)
    BY <1>1, <1>3, Reading, KeyRead
  <2>2. buf' = buf /\ oldbuf' = oldbuf /\ outcome' = outcome /\ multicode_state' = 2
    BY <1>3, Reading, States
  <2>3. Key' = Amounts(l)
    BY <1>1, <2>1, <2>2, KeyLeft DEF Amounts
  <2> QED
    BY <2>1, <2>2, <2>3 DEF Editor!vars
<1>4. CASE input = <<"A">> /\ multicode_state = 2
  <2>1. input' = <<>> /\ Key = "up" /\ Key' = "no_key" /\ Head(input) = "A"
    BY <1>1, <1>4, Reading, KeyRead, KeyLeft
  <2>2. UpArrow("A")
    BY <1>4, <2>1 DEF getchar, Handled, Special, EmptyLine, Tab, Backspace, Escape
  <2> QED
    BY <1>1, <2>1, <2>2 DEF UpArrow, Editor!Next, Editor!Do, Editor!Idle, Editor!Change
<1>5. ASSUME NEW l \in Ended, input = <<l>>, l # "A", multicode_state = 2
      PROVE  Editor!Do
  <2>1. l \in Simple /\ Apart(l)
    BY <1>5, LettersAssumption, Reading
    DEF Ended, Simple, Sent, Characters, Printable, Apart, Misread
  <2> QED
    BY <1>5, <2>1, CharacterRefines
<1>6. ASSUME NEW k \in Simple, input = <<k>>, Apart(k) PROVE Editor!Do
  BY <1>6, CharacterRefines
<1> QED
  BY <1>1, <1>2, <1>3, <1>4, <1>5, <1>6 DEF KeysWhole, Editor!Next

\* Each key acts as one, up to the one that leaves the shell (prompt,
\* seashell.c:503-565), whether it sends a character or is an arrow; excepted
\* are those pressed while an up arrow or an Escape key has left the state above
\* 0, and taken for something else then.
THEOREM KeysTheorem == Spec => KeysActAsOne
<1>1. Init => KeysWhole
  BY DEF Init, KeysWhole
<1>2. LineInv /\ KeysWhole /\ [Next]_vars => KeysWhole'
  BY StepKeys
<1>3. ASSUME LineInv, KeysWhole, [Next]_vars
      PROVE  [~misread /\ outcome' \in {"reading", "exit"}
                => [Editor!Next]_(Editor!vars)]_vars
  <2> SUFFICES ASSUME Next, ~misread, outcome' \in {"reading", "exit"}
               PROVE  [Editor!Next]_(Editor!vars)
    BY <1>3
  <2>1. CASE getchar
    BY <1>3, <2>1, EscapeRefines
  <2>2. ASSUME NEW key \in Keys, Press(key) PROVE [Editor!Next]_(Editor!vars)
    BY <2>2, PressRefines
  <2> QED
    BY <2>1, <2>2 DEF Next
<1> QED
  BY <1>1, <1>2, <1>3, Lines, PTL DEF Spec, KeysActAsOne
=============================================================================
