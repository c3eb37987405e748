-------------------------- MODULE ConferenceProofs --------------------------
(***************************************************************************)
(* Theorems about Conference for every number of commentators and          *)
(* questions, every probability and length of speech, and every schedule;  *)
(* the last two need sleeps that last (Punctual).                          *)
(***************************************************************************)
EXTENDS Conference, RingProofs, FiniteSetTheorems, TLAPS

PcOK == pc = [t \in Threads |-> pc[t]]
\* Whoever is on the air has locked bnews_mutex, and is alone there.
NewsInv ==
  /\ PcOK
  /\ \A t \in Threads : OnAir(t) => "bnews_mutex" \in locked
  /\ NewsInterrupt

\* What a commentator does outside speak leaves bnews_mutex alone.
LEMMA StaysOffAir ==
  ASSUME NEW c \in Commentators, commmentator(c), ~speak(c)
  PROVE  /\ \E label : label \notin {"speaking", "pause"} /\ pc' = [pc EXCEPT ![c] = label]
         /\ "bnews_mutex" \in locked => "bnews_mutex" \in locked'
<1> USE DEF Go, Take, Free, lock, unlock
<1>1. CASE wait_question(c) \/ waitForQueueFill(c)
  BY <1>1 DEF wait_question, waitForQueueFill
<1>2. CASE Answer(c) \/ AwaitTurn(c)
  BY <1>2 DEF Answer, AwaitTurn, locks
<1>3. CASE OpenGate(c) \/ PassGate(c)
  BY <1>3 DEF OpenGate, PassGate, locks
<1>4. CASE ReportEnd(c) \/ StaySilent(c)
  BY <1>4 DEF ReportEnd, StaySilent, EndRound
<1> QED
  BY <1>1, <1>2, <1>3, <1>4 DEF commmentator

LEMMA NewsStep == NewsInv /\ [Next]_vars => NewsInv'
<1> SUFFICES ASSUME NewsInv, [Next]_vars PROVE NewsInv'
  OBVIOUS
<1> USE NAssumption DEF NewsInv, PcOK, Go, Take, Free, lock, unlock, locks,
        NewsInterrupt, OnAir, Threads, Main, Moderator, Commentators, Bnews
<1>1. CASE main
  BY <1>1, SMTT(30) DEF main, create_new_thread
<1>2. CASE join_all
  BY <1>2 DEF join_all
<1>3. CASE moderator
  BY <1>3 DEF moderator, NextQuestion
<1>4. CASE ask_question
  BY <1>4 DEF ask_question, CountAnswers
<1>5. CASE get_answers
  BY <1>5 DEF get_answers, CallCommentator, AwaitSpeech, NextQuestion
<1>6. CASE bnews
  BY <1>6 DEF bnews
<1>7. ASSUME NEW c \in Commentators, commmentator(c) PROVE NewsInv'
  <2>1. CASE speak(c)
    <3>1. CASE StartSlice(c)
      <4>1. pc' = [pc EXCEPT ![c] = "speaking"] /\ "bnews_mutex" \in locked'
        BY ONLY <3>1 DEF StartSlice, Go, Take
      <4>2. \A t \in Threads : ~OnAir(t)
        BY ONLY NewsInv, <3>1 DEF NewsInv, StartSlice, Take
      <4>3. PcOK'
        BY ONLY NewsInv, <4>1 DEF NewsInv, PcOK
      <4>4. ASSUME NEW t \in Threads, OnAir(t)' PROVE t = c
        BY <4>1, <4>2, <4>4
      <4> QED
        BY ONLY <4>1, <4>3, <4>4 DEF NewsInv, NewsInterrupt
    <3>2. CASE Mute(c)
      <4>1. pc' = [pc EXCEPT ![c] = "micu"] /\ locked' = locked
        BY ONLY <3>2 DEF Mute, Go, locks
      <4>2. PcOK'
        BY ONLY NewsInv, <4>1 DEF NewsInv, PcOK
      <4>3. ASSUME NEW t \in Threads, OnAir(t)' PROVE OnAir(t)
        BY <4>1, <4>3
      <4> QED
        BY ONLY NewsInv, <4>1, <4>2, <4>3 DEF NewsInv, NewsInterrupt
    <3>3. CASE speak(c) /\ ~StartSlice(c) /\ ~Mute(c)
      BY <3>3, SMTT(30) DEF speak
    <3> QED
      BY ONLY <2>1, <3>1, <3>2, <3>3
  <2>2. CASE ~speak(c)
    <3>1. PICK label : label \notin {"speaking", "pause"} /\ pc' = [pc EXCEPT ![c] = label]
      BY ONLY <1>7, <2>2, StaysOffAir
    <3>2. "bnews_mutex" \in locked => "bnews_mutex" \in locked'
      BY ONLY <1>7, <2>2, StaysOffAir
    <3>3. PcOK'
      BY ONLY NewsInv, <3>1 DEF NewsInv, PcOK
    <3>4. ASSUME NEW t \in Threads, OnAir(t)' PROVE OnAir(t)
      BY <3>1, <3>4
    <3> QED
      BY ONLY NewsInv, <3>2, <3>3, <3>4 DEF NewsInv, NewsInterrupt
  <2> QED
    BY ONLY <2>1, <2>2
<1>8. CASE UNCHANGED vars
  BY <1>8 DEF vars
<1> QED
  BY ONLY [Next]_vars, <1>1, <1>2, <1>3, <1>4, <1>5, <1>6, <1>7, <1>8 DEF Next

LEMMA NewsInit == Init => NewsInv
  BY NAssumption DEF Init, NewsInv, PcOK, NewsInterrupt, OnAir, Threads, Main, Moderator,
     Commentators, Bnews

\* News are never on the air during a question or a slice of speech, and those
\* two never overlap (bnews_mutex in ask_question, speak and bnews), for any
\* number of commentators and any schedule.
THEOREM NewsTheorem == Spec => []NewsInterrupt
<1>1. NewsInv => NewsInterrupt
  BY DEF NewsInv
<1> QED
  BY <1>1, NewsInit, NewsStep, PTL DEF Spec

-----------------------------------------------------------------------------
\* Threads are created once, in the order of their numbers.
CreationInv ==
  /\ PcOK
  /\ thread_count \in Nat
  /\ IF pc[Main] = "create_moderator"
     THEN thread_count = Moderator /\ pc[Moderator] = "unborn"
     ELSE thread_count > Moderator

\* A commentator changes its own label only, and creates no thread.
LEMMA CommentatorMoves ==
  ASSUME NEW c \in Commentators, commmentator(c)
  PROVE  /\ \E label : pc' = [pc EXCEPT ![c] = label]
         /\ thread_count' = thread_count
<1> USE DEF Go, lock, unlock, locals
<1>1. CASE wait_question(c) \/ waitForQueueFill(c)
  BY <1>1 DEF wait_question, waitForQueueFill
<1>2. CASE Answer(c) \/ AwaitTurn(c)
  BY <1>2 DEF Answer, AwaitTurn
<1>3. CASE OpenGate(c) \/ PassGate(c)
  BY <1>3 DEF OpenGate, PassGate
<1>4. CASE speak(c)
  BY <1>4 DEF speak, StartSlice, Mute
<1>5. CASE ReportEnd(c) \/ StaySilent(c)
  BY <1>5 DEF ReportEnd, StaySilent, EndRound
<1> QED
  BY <1>1, <1>2, <1>3, <1>4, <1>5 DEF commmentator

LEMMA CreationStep == CreationInv /\ [Next]_vars => CreationInv'
<1> SUFFICES ASSUME CreationInv, [Next]_vars PROVE CreationInv'
  OBVIOUS
<1> USE NAssumption DEF CreationInv, PcOK, Go, lock, unlock, locals,
        Threads, Main, Moderator, Commentators, Bnews
<1>1. CASE main
  BY <1>1 DEF main, create_new_thread
<1>2. CASE join_all
  BY <1>2 DEF join_all
<1>3. CASE moderator
  BY <1>3 DEF moderator, NextQuestion
<1>4. CASE ask_question
  BY <1>4 DEF ask_question, CountAnswers
<1>5. CASE get_answers
  BY <1>5 DEF get_answers, CallCommentator, AwaitSpeech, NextQuestion
<1>6. CASE bnews
  BY <1>6 DEF bnews
<1>7. ASSUME NEW c \in Commentators, commmentator(c) PROVE CreationInv'
  <2>1. PICK label : pc' = [pc EXCEPT ![c] = label]
    BY ONLY <1>7, CommentatorMoves
  <2>2. thread_count' = thread_count
    BY ONLY <1>7, CommentatorMoves
  <2>3. PcOK'
    BY ONLY CreationInv, <2>1 DEF CreationInv, PcOK
  <2>4. pc'[Main] = pc[Main] /\ pc'[Moderator] = pc[Moderator]
    BY <2>1
  <2> QED
    BY <2>2, <2>3, <2>4
<1>8. CASE UNCHANGED vars
  BY <1>8 DEF vars
<1> QED
  BY ONLY [Next]_vars, <1>1, <1>2, <1>3, <1>4, <1>5, <1>6, <1>7, <1>8 DEF Next

-----------------------------------------------------------------------------
\* The floor is one token, which the moderator hands out at get_turn: free for
\* commentator c to take, had by c, or given back by c, until the moderator
\* picks it up at get_done.
Token(c) ==
  /\ c \notin mutex \/ HasFloor(c) \/ c \notin mutex_2
       => idx = c /\ pc[Moderator] \in {"get_m2", "get_done"}
  /\ ~(c \notin mutex /\ HasFloor(c))
  /\ ~(c \notin mutex /\ c \notin mutex_2)
  /\ ~(HasFloor(c) /\ c \notin mutex_2)

FloorInv == CreationInv /\ \A c \in Commentators : Token(c)

LEMMA FloorStep == FloorInv /\ [Next]_vars => FloorInv'
<1> SUFFICES ASSUME FloorInv, [Next]_vars, NEW d \in Commentators PROVE Token(d)'
  BY CreationStep DEF FloorInv
<1>0. Token(d)
  BY DEF FloorInv
<1> USE NAssumption, <1>0 DEF FloorInv, CreationInv, PcOK, Go, lock, unlock, locks, locals,
        Token, HasFloor, Threads, Main, Moderator, Commentators, Bnews
<1>1. CASE main
  BY <1>1 DEF main, create_new_thread
<1>2. CASE join_all
  BY <1>2 DEF join_all
<1>3. CASE moderator
  BY <1>3 DEF moderator, NextQuestion
<1>4. CASE ask_question
  BY <1>4 DEF ask_question, CountAnswers
<1>5. CASE get_answers
  BY <1>5 DEF get_answers, CallCommentator, AwaitSpeech, NextQuestion
<1>6. CASE bnews
  BY <1>6 DEF bnews
<1>7. ASSUME NEW c \in Commentators, commmentator(c) PROVE Token(d)'
  <2>1. CASE wait_question(c) \/ waitForQueueFill(c)
    BY <2>1, SMTT(30) DEF wait_question, waitForQueueFill
  <2>2. CASE Answer(c)
    BY <2>2, SMTT(30) DEF Answer
  <2>3. CASE AwaitTurn(c)
    BY <2>3, SMTT(30) DEF AwaitTurn
  <2>4. CASE OpenGate(c) \/ PassGate(c)
    BY <2>4, SMTT(30) DEF OpenGate, PassGate
  <2>5. CASE speak(c)
    BY <2>5, SMTT(30) DEF speak, StartSlice, Mute
  <2>6. CASE ReportEnd(c)
    BY <2>6, SMTT(30) DEF ReportEnd, EndRound
  <2>7. CASE StaySilent(c)
    BY <2>7, SMTT(30) DEF StaySilent, EndRound
  <2> QED
    BY ONLY <1>7, <2>1, <2>2, <2>3, <2>4, <2>5, <2>6, <2>7 DEF commmentator
<1>8. CASE UNCHANGED vars
  BY <1>8 DEF vars
<1> QED
  BY ONLY [Next]_vars, <1>1, <1>2, <1>3, <1>4, <1>5, <1>6, <1>7, <1>8 DEF Next

LEMMA FloorInit == Init => FloorInv
  BY NAssumption DEF Init, FloorInv, CreationInv, PcOK, Token, HasFloor, Threads, Main,
     Moderator, Commentators, Bnews

\* One commentator speaks at a time, and only while the moderator waits for
\* that one to end (get_answers, speak): the handshake over mutex[] and
\* mutex_2[] is sound for any number of commentators and any schedule.
THEOREM FloorTheorem == Spec => []OneSpeaker
<1>1. FloorInv => OneSpeaker
  BY DEF FloorInv, Token, OneSpeaker
<1> QED
  BY <1>1, FloorInit, FloorStep, PTL DEF Spec

-----------------------------------------------------------------------------
\* A step of thread t moves t and nobody else, from a label at which t is alive.
Moves(t) ==
  /\ pc[t] # "unborn"
  /\ \E label \in Labels \ {"unborn"} : pc' = [pc EXCEPT ![t] = label]
  /\ thread_count' = thread_count

LEMMA ModeratorMoves ==
  ASSUME moderator \/ ask_question \/ get_answers
  PROVE  Moves(Moderator)
<1> USE DEF Moves, Labels, Go, lock, unlock, locals, NextQuestion
<1>1. CASE moderator
  BY <1>1 DEF moderator
<1>2. CASE ask_question
  BY <1>2 DEF ask_question, CountAnswers
<1>3. CASE get_answers
  BY <1>3 DEF get_answers, CallCommentator, AwaitSpeech
<1> QED
  BY <1>1, <1>2, <1>3

LEMMA BnewsMoves ==
  ASSUME bnews
  PROVE  Moves(Bnews)
  BY DEF bnews, Moves, Labels, Go, lock, unlock, locals

LEMMA CommentatorMovesAlive ==
  ASSUME NEW c \in Commentators, commmentator(c)
  PROVE  Moves(c)
<1> USE DEF Moves, Labels, Go, lock, unlock, locals
<1>1. CASE wait_question(c) \/ waitForQueueFill(c)
  BY <1>1 DEF wait_question, waitForQueueFill
<1>2. CASE Answer(c) \/ AwaitTurn(c)
  BY <1>2 DEF Answer, AwaitTurn
<1>3. CASE OpenGate(c) \/ PassGate(c)
  BY <1>3 DEF OpenGate, PassGate
<1>4. CASE speak(c)
  BY <1>4 DEF speak, StartSlice, Mute
<1>5. CASE ReportEnd(c) \/ StaySilent(c)
  BY <1>5 DEF ReportEnd, StaySilent, EndRound
<1> QED
  BY <1>1, <1>2, <1>3, <1>4, <1>5 DEF commmentator

\* Threads with a number are created in its order.
Births ==
  /\ pc \in [Threads -> Labels]
  /\ thread_count \in 0 .. N + 2
  /\ pc[Main] = "create_moderator" => thread_count = Moderator
  /\ pc[Main] = "nap" => thread_count = 1
  /\ pc[Main] = "create" => thread_count \in 1 .. Bnews
  /\ \A t \in Moderator .. Bnews : t >= thread_count => pc[t] = "unborn"

LEMMA BirthsStep == Births /\ [Next]_vars => Births'
<1> SUFFICES ASSUME Births, [Next]_vars PROVE Births'
  OBVIOUS
<1> USE NAssumption DEF Births, Threads, Main, Moderator, Commentators, Bnews
<1>1. CASE main
  <2>1. CASE create_new_thread("create_moderator", "nap")
    BY <2>1 DEF create_new_thread, Labels
  <2>2. CASE Go(Main, "nap", "create") /\ UNCHANGED locals
    BY <2>2 DEF Go, Labels, locals
  <2>3. CASE create_new_thread("create", IF thread_count = Bnews THEN "join" ELSE "create")
    BY <2>3 DEF create_new_thread, Labels
  <2> QED
    BY ONLY <1>1, <2>1, <2>2, <2>3 DEF main
<1>2. CASE join_all
  BY <1>2 DEF join_all, Go, Labels, locals
<1>3. ASSUME NEW t \in Moderator .. Bnews, Moves(t) PROVE Births'
  BY <1>3 DEF Moves
<1>4. CASE UNCHANGED vars
  BY <1>4 DEF vars, locals
<1>5. \A t \in Moderator .. Bnews : ~Moves(t) => ~(t \in Commentators /\ commmentator(t))
  BY CommentatorMovesAlive
<1>6. (moderator \/ ask_question \/ get_answers => Moves(Moderator)) /\ (bnews => Moves(Bnews))
  BY ModeratorMoves, BnewsMoves
<1>7. Moderator \in Moderator .. Bnews /\ Bnews \in Moderator .. Bnews
      /\ Commentators \subseteq Moderator .. Bnews
  OBVIOUS
<1> QED
  BY ONLY [Next]_vars, <1>1, <1>2, <1>3, <1>4, <1>5, <1>6, <1>7 DEF Next

LEMMA BirthsInit == Init => Births
  BY NAssumption, QAssumption DEF Init, Births, Labels, Threads, Main, Moderator, Commentators, Bnews

\* Where a loop counter is below Q.
Rounds ==
  /\ round \in [Moderator .. N -> 0 .. Q]
  /\ \A c \in Commentators : /\ pc[c] \notin {"unborn", "done"} => round[c] < Q
                             /\ pc[c] = "unborn" => round[c] = 0
  /\ pc[Moderator] \in {"unborn", "start", "start2"} => round[Moderator] = 0
  /\ pc[Moderator] \notin {"unborn", "start", "start2", "stop", "done"} => round[Moderator] < Q

\* A commentator counts at the end of an iteration, and is alive until then.
LEMMA CommentatorCounts ==
  ASSUME NEW c \in Commentators, commmentator(c)
  PROVE  /\ pc[c] \notin {"unborn", "done"}
         /\ \/ /\ \E label \in Labels \ {"unborn", "done"} : pc' = [pc EXCEPT ![c] = label]
               /\ round' = round
            \/ /\ pc' = [pc EXCEPT ![c] = IF round[c] + 1 < Q THEN "hear" ELSE "done"]
               /\ round' = [round EXCEPT ![c] = @ + 1]
<1> USE DEF Labels, Go, lock, unlock, locals
<1>1. CASE wait_question(c) \/ waitForQueueFill(c)
  BY <1>1 DEF wait_question, waitForQueueFill
<1>2. CASE Answer(c) \/ AwaitTurn(c)
  BY <1>2 DEF Answer, AwaitTurn
<1>3. CASE OpenGate(c) \/ PassGate(c)
  BY <1>3 DEF OpenGate, PassGate
<1>4. CASE speak(c)
  BY <1>4 DEF speak, StartSlice, Mute
<1>5. CASE ReportEnd(c)
  BY <1>5 DEF ReportEnd, EndRound
<1>6. CASE StaySilent(c)
  BY <1>6 DEF StaySilent, EndRound
<1> QED
  BY <1>1, <1>2, <1>3, <1>4, <1>5, <1>6 DEF commmentator

\* The moderator before and after its questions, and while it has one.
Opening == {"unborn", "start", "start2"}
Closing == {"stop", "done"}
LEMMA ModeratorCounts ==
  ASSUME moderator \/ ask_question \/ get_answers
  PROVE  \E label \in Labels \ {"unborn"} :
           /\ pc' = [pc EXCEPT ![Moderator] = label]
           /\ \/ /\ round' = round
                 /\ \/ pc[Moderator] \in Opening /\ label \in {"start2", NextQuestion(0)}
                    \/ pc[Moderator] \in Closing /\ label \in Closing
                    \/ pc[Moderator] \notin Opening \cup Closing
                       /\ label \notin Opening \cup Closing
              \/ /\ pc[Moderator] \notin Opening \cup Closing
                 /\ label = NextQuestion(round[Moderator] + 1)
                 /\ round' = [round EXCEPT ![Moderator] = @ + 1]
<1> USE DEF Labels, Go, lock, unlock, locals, NextQuestion, Opening, Closing
<1>1. CASE moderator
  BY <1>1 DEF moderator
<1>2. CASE ask_question
  BY <1>2 DEF ask_question, CountAnswers
<1>3. CASE get_answers
  BY <1>3 DEF get_answers, CallCommentator, AwaitSpeech
<1> QED
  BY <1>1, <1>2, <1>3

\* A step of main creates one thread or none.
Newborn == IF thread_count = Moderator THEN "start"
           ELSE IF thread_count = Bnews THEN "watch"
           ELSE IF Q > 0 THEN "hear" ELSE "done"
LEMMA MainCreates ==
  ASSUME main \/ join_all
  PROVE  /\ UNCHANGED <<shared, locks, round, idx, pos, left>>
         /\ \/ /\ \E label \in Labels \ {"unborn"} : pc' = [pc EXCEPT ![Main] = label]
               /\ thread_count' = thread_count
            \/ /\ pc[Main] \in {"create_moderator", "create"}
               /\ thread_count' = thread_count + 1
               /\ \E label \in Labels \ {"unborn"} :
                    pc' = [pc EXCEPT ![Main] = label, ![thread_count] = Newborn]
  BY DEF Newborn, main, join_all, create_new_thread, Labels, Go, locals

\* A label changes for the thread that takes the step, and for no other.
LEMMA OnlyOneMoves ==
  ASSUME Births, NEW t \in Threads, NEW label, pc' = [pc EXCEPT ![t] = label]
  PROVE  \A u \in Threads : pc'[u] = IF u = t THEN label ELSE pc[u]
  BY DEF Births

LEMMA Numbers ==
  /\ Commentators \subseteq Threads
  /\ Main \in Threads /\ Moderator \in Threads /\ Bnews \in Threads
  /\ Main \notin Commentators /\ Moderator \notin Commentators /\ Bnews \notin Commentators
  /\ Moderator # Main /\ Moderator # Bnews
  BY NAssumption DEF Threads, Main, Moderator, Commentators, Bnews

\* What a step of main changes of another thread is that it is born.
LEMMA MainKeeps ==
  ASSUME Births, main \/ join_all
  PROVE  \A t \in Threads \ {Main} :
           pc'[t] = pc[t] \/ (pc[t] = "unborn" /\ pc'[t] \in {"start", "watch", "hear", "done"})
<1> USE NAssumption DEF Births, Threads, Main, Moderator, Bnews
<1>1. ASSUME NEW label, pc' = [pc EXCEPT ![Main] = label], NEW t \in Threads \ {Main}
      PROVE  pc'[t] = pc[t]
  BY <1>1
<1>2. ASSUME NEW label,
             pc[Main] \in {"create_moderator", "create"},
             pc' = [pc EXCEPT ![Main] = label, ![thread_count] = Newborn],
             NEW t \in Threads \ {Main}
      PROVE  pc'[t] = pc[t] \/ (pc[t] = "unborn" /\ pc'[t] \in {"start", "watch", "hear", "done"})
  <2>1. thread_count \in Moderator .. Bnews /\ pc[thread_count] = "unborn"
    BY <1>2
  <2>2. pc'[t] = IF t = thread_count THEN Newborn ELSE pc[t]
    BY <1>2, <2>1
  <2>3. Newborn \in {"start", "watch", "hear", "done"}
    BY DEF Newborn
  <2> QED
    BY ONLY <2>1, <2>2, <2>3
<1> QED
  BY ONLY main \/ join_all, <1>1, <1>2, MainCreates

LEMMA RoundsStep == Births /\ Rounds /\ [Next]_vars => Rounds'
<1> SUFFICES ASSUME Births, Rounds, [Next]_vars PROVE Rounds'
  OBVIOUS
<1> USE NAssumption, QAssumption DEF Births, Rounds, Threads, Main, Moderator, Commentators, Bnews
<1>1. CASE main \/ join_all
  <2>1. round' = round
    BY ONLY <1>1, MainCreates
  <2>2. ASSUME NEW label \in Labels \ {"unborn"}, pc' = [pc EXCEPT ![Main] = label]
        PROVE  Rounds'
    BY <2>1, <2>2
  <2>3. ASSUME NEW label,
               pc[Main] \in {"create_moderator", "create"},
               pc' = [pc EXCEPT ![Main] = label, ![thread_count] = Newborn]
        PROVE  Rounds'
    <3>1. thread_count \in Moderator .. Bnews /\ pc[thread_count] = "unborn"
      BY <2>3
    <3>2. \A t \in Moderator .. Bnews : pc'[t] = IF t = thread_count THEN Newborn ELSE pc[t]
      BY <2>3, <3>1
    <3> QED
      BY <2>1, <2>3, <3>1, <3>2 DEF Newborn
  <2> QED
    BY ONLY <1>1, <2>2, <2>3, MainCreates
<1>2. CASE moderator \/ ask_question \/ get_answers
  <2>1. PICK label \in Labels \ {"unborn"} :
          /\ pc' = [pc EXCEPT ![Moderator] = label]
          /\ \/ /\ round' = round
                /\ \/ pc[Moderator] \in Opening /\ label \in {"start2", NextQuestion(0)}
                   \/ pc[Moderator] \in Closing /\ label \in Closing
                   \/ pc[Moderator] \notin Opening \cup Closing
                      /\ label \notin Opening \cup Closing
             \/ /\ pc[Moderator] \notin Opening \cup Closing
                /\ label = NextQuestion(round[Moderator] + 1)
                /\ round' = [round EXCEPT ![Moderator] = @ + 1]
    BY ONLY <1>2, ModeratorCounts
  <2>2. pc'[Moderator] = label /\ \A c \in Commentators : pc'[c] = pc[c]
    BY <2>1
  <2>3. CASE round' = round
    BY <2>1, <2>2, <2>3 DEF NextQuestion, Opening, Closing
  <2>4. CASE round' = [round EXCEPT ![Moderator] = @ + 1] /\ round' # round
    BY <2>1, <2>2, <2>4 DEF NextQuestion, Opening, Closing
  <2> QED
    BY ONLY <2>1, <2>3, <2>4
<1>3. CASE bnews
  <2>1. Moves(Bnews)
    BY ONLY <1>3, BnewsMoves
  <2>2. round' = round
    BY ONLY <1>3 DEF bnews, lock, unlock, locals
  <2> QED
    BY <2>1, <2>2 DEF Moves
<1>4. ASSUME NEW c \in Commentators, commmentator(c) PROVE Rounds'
  <2>1. CASE round' = round
    <3>1. PICK label \in Labels \ {"unborn"} : pc' = [pc EXCEPT ![c] = label]
      BY <1>4, CommentatorMovesAlive DEF Moves
    <3>2. pc'[Moderator] = pc[Moderator]
          /\ \A d \in Commentators : pc'[d] = IF d = c THEN label ELSE pc[d]
      BY <3>1
    <3>3. pc[c] \notin {"unborn", "done"}
      BY ONLY <1>4, CommentatorCounts
    <3> QED
      BY <2>1, <3>2, <3>3
  <2>2. CASE /\ pc' = [pc EXCEPT ![c] = IF round[c] + 1 < Q THEN "hear" ELSE "done"]
             /\ round' = [round EXCEPT ![c] = @ + 1]
    <3>1. pc'[Moderator] = pc[Moderator]
          /\ \A d \in Commentators :
               pc'[d] = IF d = c THEN (IF round[c] + 1 < Q THEN "hear" ELSE "done") ELSE pc[d]
      BY <2>2
    <3>2. pc[c] \notin {"unborn", "done"}
      BY ONLY <1>4, CommentatorCounts
    <3> QED
      BY <2>2, <3>1, <3>2
  <2> QED
    BY ONLY <1>4, <2>1, <2>2, CommentatorCounts
<1>5. CASE UNCHANGED vars
  BY <1>5 DEF vars, locals
<1> QED
  BY ONLY [Next]_vars, <1>1, <1>2, <1>3, <1>4, <1>5 DEF Next

\* A slice is left to whoever starts one, and curr_com_id names a speaker.
Speeches ==
  /\ left \in [Commentators -> Nat]
  /\ \A c \in Commentators : pc[c] \in {"slice", "speaking"} => left[c] > 0
  /\ curr_com_id \in Commentators \cup {-1}
  /\ curr_com_id # -1 => pc[curr_com_id] \in {"slice", "speaking", "pause", "mute"}

\* Outside a speech, what a commentator does is no part of one.
LEMMA NoSpeech ==
  ASSUME NEW c \in Commentators, commmentator(c), ~speak(c)
  PROVE  /\ pc[c] \notin {"slice", "speaking", "pause", "mute"}
         /\ \E label \in Labels \ {"slice", "speaking"} : pc' = [pc EXCEPT ![c] = label]
         /\ UNCHANGED <<left, curr_com_id>>
<1> USE DEF Labels, Go, lock, unlock, locals, shared
<1>1. CASE wait_question(c) \/ waitForQueueFill(c)
  BY <1>1 DEF wait_question, waitForQueueFill
<1>2. CASE Answer(c) \/ AwaitTurn(c)
  BY <1>2 DEF Answer, AwaitTurn
<1>3. CASE OpenGate(c) \/ PassGate(c)
  BY <1>3 DEF OpenGate, PassGate
<1>4. CASE ReportEnd(c) \/ StaySilent(c)
  BY <1>4 DEF ReportEnd, StaySilent, EndRound
<1> QED
  BY <1>1, <1>2, <1>3, <1>4 DEF commmentator

\* The moderator and the news leave the speech to its speaker.
LEMMA NotTheirSpeech ==
  ASSUME moderator \/ ask_question \/ get_answers \/ bnews
  PROVE  UNCHANGED <<left, curr_com_id>>
<1> USE DEF lock, unlock, locals, shared
<1>1. CASE moderator \/ bnews
  BY <1>1 DEF moderator, bnews
<1>2. CASE ask_question
  BY <1>2 DEF ask_question, CountAnswers
<1>3. CASE get_answers
  BY <1>3 DEF get_answers, CallCommentator, AwaitSpeech
<1> QED
  BY <1>1, <1>2, <1>3

LEMMA SpeechesStep == Births /\ Speeches /\ [Next]_vars => Speeches'
<1> SUFFICES ASSUME Births, Speeches, [Next]_vars PROVE Speeches'
  OBVIOUS
<1> USE NAssumption DEF Births, Speeches, Threads, Main, Moderator, Commentators, Bnews
<1>1. CASE main \/ join_all
  <2>1. UNCHANGED <<left, curr_com_id>>
    BY ONLY <1>1, MainCreates DEF shared
  <2>2. \A c \in Commentators :
          pc'[c] = pc[c] \/ (pc[c] = "unborn" /\ pc'[c] \in {"start", "watch", "hear", "done"})
    BY ONLY <1>1, Births, MainKeeps, Numbers
  <2> QED
    BY <2>1, <2>2
<1>2. CASE moderator \/ ask_question \/ get_answers \/ bnews
  <2>1. UNCHANGED <<left, curr_com_id>>
    BY ONLY <1>2, NotTheirSpeech
  <2>2. Moves(Moderator) \/ Moves(Bnews)
    BY ONLY <1>2, ModeratorMoves, BnewsMoves
  <2> QED
    BY <2>1, <2>2 DEF Moves
<1>3. ASSUME NEW c \in Commentators, commmentator(c) PROVE Speeches'
  <2>1. CASE ~speak(c)
    BY <1>3, <2>1, NoSpeech
  <2>2. CASE speak(c)
    <3> USE DEF Go
    <3>1. ASSUME NEW slices \in SpeechSlices,
                 Go(c, "mic", IF slices > 0 THEN "slice" ELSE "mute"),
                 left' = [left EXCEPT ![c] = slices], curr_com_id' = curr_com_id
          PROVE  Speeches'
      BY <3>1, SpeechAssumption
    <3>2. CASE StartSlice(c)
      BY <3>2 DEF StartSlice, locals
    <3>3. ASSUME Go(c, "speaking", "pause"), left' = [left EXCEPT ![c] = @ - 1],
                 curr_com_id' = curr_com_id
          PROVE  Speeches'
      BY <3>3
    <3>4. CASE unlock(c, "pause", "bnews_mutex", IF left[c] > 0 THEN "slice" ELSE "mute")
      BY <3>4 DEF unlock, shared, locals
    <3>5. CASE Mute(c)
      BY <3>5 DEF Mute, locals
    <3>6. CASE unlock(c, "micu", "mutex2", "spoken")
      BY <3>6 DEF unlock, shared, locals
    <3> QED
      BY ONLY <2>2, <3>1, <3>2, <3>3, <3>4, <3>5, <3>6 DEF speak, shared
  <2> QED
    BY ONLY <2>1, <2>2
<1>4. CASE UNCHANGED vars
  BY <1>4 DEF vars, locals, shared
<1> QED
  BY ONLY [Next]_vars, <1>1, <1>2, <1>3, <1>4 DEF Next

LEMMA ModeratorMovesTo ==
  ASSUME Births, NEW label, pc' = [pc EXCEPT ![Moderator] = label]
  PROVE  pc'[Moderator] = label
<1>1. Moderator \in Threads
  BY Numbers
<1> QED
  BY <1>1 DEF Births

-----------------------------------------------------------------------------
Line == Contents(queue)
Places == 1 .. getSize(queue)

\* The moderator has taken idx from the line and idx has not got the floor.
Called ==
  \/ pc[Moderator] = "get_turn"
  \/ pc[Moderator] \in {"get_m2", "get_done"} /\ idx \notin mutex

\* What the moderator goes by while it gets the answers.
Turned ==
  /\ pc[Moderator] \in {"get_m2", "get_done"} =>
       idx \in Commentators /\ (idx \notin mutex \/ HasFloor(idx) \/ idx \notin mutex_2)
  /\ pc[Moderator] \in {"get_check", "get_deq"} => getSize(queue) > 0
  /\ pc[Moderator] # "stray"

\* Who is in the line or has been called from it waits, each in one place.
LineInv ==
  /\ WellFormed(queue, Commentators \cup {Garbage}, N)
  /\ \A k \in Places : Line[k] \in Commentators /\ Waits(Line[k])
  /\ \A j, k \in Places : Line[j] = Line[k] => j = k
  /\ Called => idx \in Commentators /\ Waits(idx) /\ \A k \in Places : Line[k] # idx
  /\ Turned
  /\ currentSize \in 0 .. N
  /\ idx \in Commentators \cup {0}
  /\ pos \in [Commentators -> 0 .. N - 1]

\* A step that leaves the line alone, ends no wait and calls no one.
LEMMA LineKept ==
  ASSUME LineInv, UNCHANGED <<queue, idx, pos>>, currentSize' \in 0 .. N,
         \A c \in Commentators : Waits(c) => Waits(c)', Called' => Called, Turned'
  PROVE  LineInv'
<1>1. Line' = Line /\ Places' = Places
  BY DEF Line, Places
<1>2. \A k \in Places' : Line'[k] \in Commentators /\ Waits(Line[k])'
  BY <1>1 DEF LineInv
<1> QED
  BY <1>1, <1>2 DEF LineInv

\* Whoever does not wait finds a place in the line free.
LEMMA PlaceLeft ==
  ASSUME LineInv, NEW c \in Commentators, ~Waits(c)
  PROVE  getSize(queue) \in 0 .. N - 1 /\ \A k \in Places : Line[k] # c
<1>1. \A k \in Places : Line[k] \in Commentators \ {c}
  BY DEF LineInv
<1>2. getSize(queue) \in 0 .. N
  BY NAssumption DEF LineInv, WellFormed, getSize
<1>3. ASSUME getSize(queue) = N PROVE FALSE
  <2>1. IsFiniteSet(Commentators) /\ Cardinality(Commentators) = N
    BY NAssumption, FS_Interval DEF Commentators
  <2>2. IsFiniteSet(Commentators \ {c}) /\ Cardinality(Commentators \ {c}) = N - 1
    BY <2>1, FS_RemoveElement
  <2>3. IsFiniteSet(Places) /\ Cardinality(Places) = N
    BY <1>3, <2>1 DEF Places, Commentators
  <2> DEFINE standing == [k \in Places |-> Line[k]]
  <2>4. standing \in [Places -> Commentators \ {c}]
    BY <1>1
  <2>5. Cardinality(Commentators \ {c}) < Cardinality(Places)
    BY <2>2, <2>3, NAssumption
  <2> HIDE DEF standing
  <2>6. PICK j, k \in Places : j # k /\ standing[j] = standing[k]
    BY <2>2, <2>3, <2>4, <2>5, FS_PigeonHole
  <2> QED
    BY <2>6 DEF LineInv, standing
<1> QED
  BY <1>1, <1>2, <1>3, NAssumption

\* Except when it answers or its turn comes, a commentator's step keeps it
\* waiting, and ends its turn only by reporting so.
LEMMA WaitsOn ==
  ASSUME Births, NEW c \in Commentators, commmentator(c), ~Answer(c), ~AwaitTurn(c)
  PROVE  /\ \A t \in Threads \ {c} : pc'[t] = pc[t]
         /\ Waits(c) <=> Waits(c)'
         /\ HasFloor(c) => HasFloor(c)' \/ c \notin mutex_2'
         /\ UNCHANGED <<queue, currentSize, idx, pos, mutex>> /\ mutex_2' \subseteq mutex_2
<1>1. c \in Threads
  BY Numbers
<1>2. PICK label :
        /\ pc' = [pc EXCEPT ![c] = label]
        /\ Waits(c) <=> label \in {"fill", "filled", "last", "open", "close", "gate", "gated", "turn"}
        /\ HasFloor(c) => \/ label \in {"mic", "slice", "speaking", "pause", "mute", "micu", "spoken"}
                          \/ c \notin mutex_2'
        /\ UNCHANGED <<queue, currentSize, idx, pos, mutex>> /\ mutex_2' \subseteq mutex_2
  <2> USE DEF Go, lock, unlock, locks, locals, shared, Waits, HasFloor
  <2>1. CASE wait_question(c) \/ waitForQueueFill(c)
    BY <2>1 DEF wait_question, waitForQueueFill
  <2>2. CASE OpenGate(c) \/ PassGate(c)
    BY <2>2 DEF OpenGate, PassGate
  <2>3. CASE speak(c)
    BY <2>3 DEF speak, StartSlice, Mute
  <2>4. CASE ReportEnd(c) \/ StaySilent(c)
    BY <2>4 DEF ReportEnd, StaySilent, EndRound
  <2> QED
    BY ONLY commmentator(c), ~Answer(c), ~AwaitTurn(c), <2>1, <2>2, <2>3, <2>4 DEF commmentator
<1>3. \A u \in Threads : pc'[u] = IF u = c THEN label ELSE pc[u]
  BY <1>1, <1>2, OnlyOneMoves
<1> QED
  BY <1>1, <1>2, <1>3 DEF Waits, HasFloor

\* What an insertion into the line and a removal from it do to its places.
LEMMA LineGrows ==
  ASSUME LineInv, NEW c \in Commentators, getSize(queue) \in 0 .. N - 1, queue' = enqueue(queue, c)
  PROVE  /\ WellFormed(queue', Commentators \cup {Garbage}, N)
         /\ Line' = Append(Line, c)
         /\ Places \subseteq Places'
         /\ \A k \in Places' : k \notin Places => Line'[k] = c
         /\ \A k \in Places : Line'[k] = Line[k]
         /\ \A j, k \in Places' \ Places : j = k
<1> DEFINE Data == Commentators \cup {Garbage}
<1>1. N \in Nat \ {0} /\ c \in Data /\ WellFormed(queue, Data, N) /\ getSize(queue) < N
  BY NAssumption DEF LineInv
<1> HIDE DEF Data
<1>2. WellFormed(queue', Data, N) /\ Line' = Append(Line, c)
  <2>1. WellFormed(enqueue(queue, c), Data, N)
    BY <1>1, EnqueueWellFormed
  <2>2. Contents(enqueue(queue, c)) = Append(Contents(queue), c)
    BY ONLY <1>1, EnqueueAppends, Z3
  <2> QED
    BY <2>1, <2>2 DEF Line
<1>3. /\ Line \in Seq(Data) /\ Len(Line) = getSize(queue)
      /\ Line' \in Seq(Data) /\ Len(Line') = getSize(queue')
  BY <1>1, <1>2, ContentsType DEF Line
<1>4. Places = 1 .. Len(Line) /\ Places' = 1 .. Len(Line) + 1
  BY <1>1, <1>2, <1>3 DEF Places
<1> QED
  BY <1>1, <1>2, <1>3, <1>4 DEF Data

LEMMA LineShrinks ==
  ASSUME LineInv, getSize(queue) > 0, queue' = dequeue(queue)
  PROVE  /\ WellFormed(queue', Commentators \cup {Garbage}, N)
         /\ 1 \in Places /\ dequeued(queue) = Line[1]
         /\ \A k \in Places' : k + 1 \in Places /\ k + 1 # 1 /\ Line'[k] = Line[k + 1]
         /\ \A k \in Places \ {1} : k - 1 \in Places' /\ Line'[k - 1] = Line[k]
<1> DEFINE Data == Commentators \cup {Garbage}
<1>1. N \in Nat \ {0} /\ WellFormed(queue, Data, N)
  BY NAssumption DEF LineInv
<1> HIDE DEF Data
<1>2. WellFormed(queue', Data, N) /\ Line' = Tail(Line) /\ dequeued(queue) = Head(Line)
  BY <1>1, DequeueWellFormed, DequeueTakesHead DEF Line
<1>3. /\ Line \in Seq(Data) /\ Len(Line) = getSize(queue)
      /\ Line' \in Seq(Data) /\ Len(Line') = getSize(queue')
  BY <1>1, <1>2, ContentsType DEF Line
<1>4. Places = 1 .. Len(Line) /\ Places' = 1 .. Len(Line) - 1 /\ Len(Line) > 0
  BY <1>1, <1>2, <1>3 DEF Places
<1> QED
  BY <1>1, <1>2, <1>3, <1>4 DEF Data

LEMMA LineStep == Births /\ FloorInv /\ LineInv /\ [Next]_vars => LineInv'
<1> SUFFICES ASSUME Births, FloorInv, LineInv, [Next]_vars PROVE LineInv'
  OBVIOUS
<1>1. currentSize \in 0 .. N /\ Turned
  BY DEF LineInv
<1>2. CASE main \/ join_all
  <2>1. UNCHANGED <<queue, idx, pos, currentSize, mutex, mutex_2>>
    BY ONLY <1>2, MainCreates DEF shared, locks
  <2>2. \A t \in Threads \ {Main} :
          pc'[t] = pc[t] \/ (pc[t] = "unborn" /\ pc'[t] \in {"start", "watch", "hear", "done"})
    BY <1>2, MainKeeps
  <2>3. /\ \A c \in Commentators : (Waits(c) => Waits(c)') /\ (HasFloor(c) => HasFloor(c)')
        /\ pc'[Moderator] = pc[Moderator] \/ pc'[Moderator] \in {"start", "watch", "hear", "done"}
    BY <2>2, Numbers DEF Waits, HasFloor
  <2>4. (Called' => Called) /\ Turned'
    BY <1>1, <2>1, <2>3 DEF Called, Turned
  <2> QED
    BY <1>1, <2>1, <2>3, <2>4, LineKept
<1>3. CASE bnews
  <2>1. UNCHANGED <<queue, idx, pos, currentSize, mutex, mutex_2>>
    BY ONLY <1>3 DEF bnews, lock, unlock, locks, shared, locals
  <2>2. PICK label : pc' = [pc EXCEPT ![Bnews] = label]
    BY <1>3, BnewsMoves DEF Moves
  <2>3. \A t \in Threads \ {Bnews} : pc'[t] = pc[t]
    BY <2>2, Numbers, OnlyOneMoves
  <2>4. \A c \in Commentators : (Waits(c) => Waits(c)') /\ (HasFloor(c) => HasFloor(c)')
    BY <2>3, Numbers DEF Waits, HasFloor
  <2>5. (Called' => Called) /\ Turned'
    BY <1>1, <2>1, <2>3, <2>4, Numbers DEF Called, Turned
  <2> QED
    BY <1>1, <2>1, <2>4, <2>5, LineKept
<1>4. CASE moderator \/ ask_question \/ get_answers
  <2>1. \A c \in Commentators : pc'[c] = pc[c]
    <3>1. PICK label : pc' = [pc EXCEPT ![Moderator] = label]
      BY <1>4, ModeratorMoves DEF Moves
    <3> QED
      BY <3>1, Numbers, OnlyOneMoves
  <2>2. \A c \in Commentators : (Waits(c) => Waits(c)') /\ (HasFloor(c) <=> HasFloor(c)')
    BY <2>1 DEF Waits, HasFloor
  <2>3. CASE moderator \/ ask_question
    <3>1. /\ UNCHANGED <<queue, idx, pos, mutex, mutex_2>>
          /\ currentSize' \in {currentSize, getSize(queue)}
          /\ \E label \in {"start2", "ask", "stop", "done", "ask_bnews", "ask_m3", "ask_open", "asking",
                         "ask_m3u", "ask_gate", "ask_gateu", "ask_bnewsu", "get"} :
               pc' = [pc EXCEPT ![Moderator] = label]
      <4> USE DEF Go, lock, unlock, locks, shared, locals
      <4>1. CASE moderator
        BY <4>1 DEF moderator, NextQuestion
      <4>2. CASE ask_question
        BY <4>2 DEF ask_question, CountAnswers
      <4> QED
        BY ONLY <2>3, <4>1, <4>2
    <3>2. currentSize' \in 0 .. N
      BY <1>1, <3>1, NAssumption DEF LineInv, WellFormed, getSize
    <3>3. pc'[Moderator] \notin {"get_turn", "get_m2", "get_done", "get_check", "get_deq", "stray"}
      BY <3>1, Numbers, OnlyOneMoves
    <3>4. ~Called' /\ Turned'
      BY <3>3 DEF Called, Turned
    <3> QED
      BY <2>2, <3>1, <3>2, <3>4, LineKept
  <2>4. CASE get_answers
    <3>1. ASSUME UNCHANGED <<queue, idx, pos, currentSize, mutex, mutex_2>>,
                 pc' = [pc EXCEPT ![Moderator] = NextQuestion(round[Moderator] + 1)]
          PROVE  LineInv'
      <4>1. pc'[Moderator] \in {"ask", "stop"}
        BY <3>1, ModeratorMovesTo DEF NextQuestion
      <4>2. ~Called' /\ Turned'
        BY <4>1 DEF Called, Turned
      <4> QED
        BY <1>1, <2>2, <3>1, <4>2, LineKept
    <3>2. ASSUME UNCHANGED <<queue, idx, pos, currentSize, mutex, mutex_2>>, ~isEmpty(queue),
                 pc' = [pc EXCEPT ![Moderator] = "get_check"]
          PROVE  LineInv'
      <4>1. pc'[Moderator] = "get_check"
        BY <3>2, ModeratorMovesTo
      <4>2. getSize(queue)' > 0
        BY <3>2 DEF LineInv, WellFormed, isEmpty, getSize
      <4>3. ~Called' /\ Turned'
        BY <4>1, <4>2 DEF Called, Turned
      <4> QED
        BY <1>1, <2>2, <3>2, <4>3, LineKept
    <3>3. ASSUME Go(Moderator, "get_check", IF isEmpty(queue) THEN "stray" ELSE "get_deq"),
                 UNCHANGED <<queue, idx, pos, currentSize, mutex, mutex_2>>
          PROVE  LineInv'
      <4>1. getSize(queue) > 0
        BY <1>1, <3>3 DEF Turned, Go
      <4>2. pc'[Moderator] = "get_deq"
        <5>1. ~isEmpty(queue)
          BY <4>1 DEF isEmpty, getSize
        <5>2. pc' = [pc EXCEPT ![Moderator] = "get_deq"]
          BY ONLY <3>3, <5>1 DEF Go
        <5> QED
          BY <5>2, ModeratorMovesTo
      <4>3. ~Called' /\ Turned'
        BY <3>3, <4>1, <4>2 DEF Called, Turned
      <4> QED
        BY <1>1, <2>2, <3>3, <4>3, LineKept
    <3>4. ASSUME Go(Moderator, "get_deq", "get_turn"), idx' = dequeued(queue), queue' = dequeue(queue),
                 UNCHANGED <<pos, currentSize>>
          PROVE  LineInv'
      <4>1. pc'[Moderator] = "get_turn" /\ getSize(queue) > 0
        BY <1>1, <3>4, ModeratorMovesTo DEF Go, Turned
      <4>2. /\ WellFormed(queue', Commentators \cup {Garbage}, N)
            /\ 1 \in Places /\ idx' = Line[1]
            /\ \A k \in Places' : k + 1 \in Places /\ k + 1 # 1 /\ Line'[k] = Line[k + 1]
        BY <3>4, <4>1, LineShrinks
      <4>5. \A k \in Places' : Line'[k] \in Commentators /\ Waits(Line[k])' /\ Line'[k] # idx'
        <5>1. \A k \in Places : Line[k] \in Commentators /\ Waits(Line[k])
          BY DEF LineInv
        <5>2. \A j, k \in Places : Line[j] = Line[k] => j = k
          BY DEF LineInv
        <5> QED
          BY ONLY <2>2, <4>2, <5>1, <5>2
      <4>6. \A j, k \in Places' : Line'[j] = Line'[k] => j = k
        <5>1. Places' \subseteq Int
          BY DEF Places
        <5>2. \A j, k \in Places' : Line'[j] = Line'[k] => j + 1 = k + 1
          BY <4>2 DEF LineInv
        <5> QED
          BY ONLY <5>1, <5>2
      <4>7. idx' \in Commentators /\ Waits(idx)'
        <5>1. Line[1] \in Commentators /\ Waits(Line[1])
          BY <4>2 DEF LineInv
        <5> QED
          BY ONLY <2>2, <4>2, <5>1
      <4>8. Turned'
        BY <4>1 DEF Turned
      <4> QED
        BY ONLY LineInv, <3>4, <4>2, <4>5, <4>6, <4>7, <4>8 DEF LineInv
    <3>5. ASSUME Go(Moderator, "get_turn", "get_m2"), mutex' = mutex \ {idx},
                 UNCHANGED <<queue, idx, pos, currentSize>>
          PROVE  LineInv'
      <4>1. pc'[Moderator] = "get_m2" /\ Called /\ idx \notin mutex'
        BY <3>5, ModeratorMovesTo DEF Go, Called
      <4>2. Turned'
        BY <3>5, <4>1 DEF Turned, LineInv
      <4> QED
        BY <1>1, <2>2, <3>5, <4>1, <4>2, LineKept
    <3>6. ASSUME Go(Moderator, "get_m2", "get_done"),
                 UNCHANGED <<queue, idx, pos, currentSize, mutex, mutex_2>>
          PROVE  LineInv'
      <4>1. pc[Moderator] = "get_m2" /\ pc'[Moderator] = "get_done"
        BY <3>6, ModeratorMovesTo DEF Go
      <4>2. (Called' => Called) /\ Turned'
        BY <1>1, <2>2, <3>6, <4>1 DEF Called, Turned
      <4> QED
        BY <1>1, <2>2, <3>6, <4>2, LineKept
    <3>7. ASSUME Go(Moderator, "get_done", "get"), UNCHANGED <<queue, idx, pos, currentSize>>
          PROVE  LineInv'
      <4>1. pc'[Moderator] = "get"
        BY <3>7, ModeratorMovesTo DEF Go
      <4>2. ~Called' /\ Turned'
        BY <4>1 DEF Called, Turned
      <4> QED
        BY <1>1, <2>2, <3>7, <4>2, LineKept
    <3> QED
      BY ONLY <2>4, <3>1, <3>2, <3>3, <3>4, <3>5, <3>6, <3>7
      DEF get_answers, CallCommentator, AwaitSpeech, unlock, locks, shared, locals
  <2> QED
    BY ONLY <1>4, <2>3, <2>4
<1>5. ASSUME NEW c \in Commentators, commmentator(c) PROVE LineInv'
  <2> c \in Threads /\ pc'[Moderator] = pc[Moderator]
    <3>1. PICK label : pc' = [pc EXCEPT ![c] = label]
      BY <1>5, CommentatorMovesAlive DEF Moves
    <3> QED
      BY <3>1, Numbers, OnlyOneMoves
  <2>1. CASE ~Answer(c) /\ ~AwaitTurn(c)
    <3>1. /\ \A t \in Threads \ {c} : pc'[t] = pc[t]
          /\ Waits(c) => Waits(c)'
          /\ HasFloor(c) => HasFloor(c)' \/ c \notin mutex_2'
          /\ UNCHANGED <<queue, currentSize, idx, pos, mutex>> /\ mutex_2' \subseteq mutex_2
      BY <1>5, <2>1, WaitsOn
    <3>2. \A d \in Commentators : Waits(d) => Waits(d)'
      BY <3>1, Numbers DEF Waits
    <3>3. \A d \in Commentators : HasFloor(d) => HasFloor(d)' \/ d \notin mutex_2'
      BY <3>1, Numbers DEF HasFloor
    <3>4. (Called' => Called) /\ Turned'
      BY <1>1, <3>1, <3>3 DEF Called, Turned
    <3> QED
      BY <1>1, <3>1, <3>2, <3>4, LineKept
  <2>2. CASE Answer(c)
    <3>1. ~Waits(c)
      BY <2>2 DEF Answer, Go, Waits
    <3>2. getSize(queue) \in 0 .. N - 1 /\ \A k \in Places : Line[k] # c
      BY <3>1, PlaceLeft
    <3>3. ~isFull(queue)
      BY <3>2, NAssumption DEF LineInv, WellFormed, isFull, getSize
    <3>4. PICK label : pc' = [pc EXCEPT ![c] = label]
      BY <1>5, CommentatorMovesAlive DEF Moves
    <3>5. \A u \in Threads : pc'[u] = IF u = c THEN label ELSE pc[u]
      BY <3>4, OnlyOneMoves
    <3>6. UNCHANGED <<idx, currentSize, mutex, mutex_2>>
      BY ONLY <2>2 DEF Answer, locks, shared
    <3>7. \A d \in Commentators : Waits(d) => Waits(d)'
      BY <3>1, <3>5, Numbers DEF Waits
    <3>8. ~HasFloor(c)
      BY <2>2 DEF Answer, Go, HasFloor
    <3>9. \A d \in Commentators : HasFloor(d) => HasFloor(d)'
      BY <3>5, <3>8, Numbers DEF HasFloor
    <3>10. CASE UNCHANGED <<queue, pos>>
      <4>1. (Called' => Called) /\ Turned'
        BY <1>1, <3>6, <3>9, <3>10 DEF Called, Turned
      <4> QED
        BY <1>1, <3>6, <3>7, <3>10, <4>1, LineKept
    <3>11. CASE /\ Go(c, "enqueue", "fill") /\ pos' = [pos EXCEPT ![c] = position(queue)]
                /\ queue' = enqueue(queue, c)
      <4>1. /\ WellFormed(queue', Commentators \cup {Garbage}, N)
            /\ Places \subseteq Places'
            /\ \A k \in Places' : k \notin Places => Line'[k] = c
            /\ \A k \in Places : Line'[k] = Line[k]
            /\ \A j, k \in Places' \ Places : j = k
        BY <3>2, <3>11, LineGrows
      <4>2. Waits(c)'
        <5>1. pc'[c] = "fill"
          BY ONLY Births, <3>11, Numbers DEF Births, Go
        <5> QED
          BY <5>1 DEF Waits
      <4>3. \A k \in Places' : Line'[k] \in Commentators /\ Waits(Line[k])'
        <5>1. \A k \in Places : Line[k] \in Commentators /\ Waits(Line[k])
          BY DEF LineInv
        <5> QED
          BY ONLY <3>7, <4>1, <4>2, <5>1
      <4>4. \A j, k \in Places' : Line'[j] = Line'[k] => j = k
        <5>1. \A j, k \in Places : Line[j] = Line[k] => j = k
          BY DEF LineInv
        <5> QED
          BY ONLY <3>2, <4>1, <5>1
      <4>5. Called' => Called
        BY <3>6 DEF Called
      <4>6. Called => idx # c /\ idx \in Commentators /\ Waits(idx) /\ \A k \in Places : Line[k] # idx
        BY <3>1 DEF LineInv
      <4>7. Called' => idx' \in Commentators /\ Waits(idx)' /\ \A k \in Places' : Line'[k] # idx'
        BY ONLY <3>6, <3>7, <4>1, <4>5, <4>6
      <4>8. getSize(queue)' = getSize(queue) + 1
        BY <3>11 DEF enqueue, getSize, LineInv, WellFormed
      <4>9. Turned'
        BY <1>1, <3>2, <3>6, <3>9, <4>8, NAssumption DEF Turned
      <4>10. pos' \in [Commentators -> 0 .. N - 1]
        BY <3>2, <3>11 DEF LineInv, position, getSize
      <4>11. currentSize' \in 0 .. N /\ idx' \in Commentators \cup {0}
        BY <3>6 DEF LineInv
      <4> QED
        BY ONLY <4>1, <4>3, <4>4, <4>7, <4>9, <4>10, <4>11 DEF LineInv
    <3> QED
      <4>1. pos \in [Commentators -> 0 .. N - 1]
        BY DEF LineInv
      <4>2. pos' = [pos EXCEPT ![c] = IF isFull(queue) THEN -1 ELSE @] => pos' = pos
        BY <3>3, <4>1
      <4> QED
        BY ONLY <2>2, <3>10, <3>11, <4>2 DEF Answer, shared
  <2>3. CASE AwaitTurn(c)
    <3>1. /\ pc[c] = "turn" /\ pc' = [pc EXCEPT ![c] = "mic"] /\ c \notin mutex /\ mutex' = mutex \cup {c}
          /\ UNCHANGED <<queue, idx, pos, currentSize, mutex_2>>
      BY ONLY <2>3 DEF AwaitTurn, Go, shared, locals
    <3>2. \A u \in Threads : pc'[u] = IF u = c THEN "mic" ELSE pc[u]
      BY <3>1, OnlyOneMoves
    <3>3. idx = c /\ pc[Moderator] \in {"get_m2", "get_done"}
      BY <3>1 DEF FloorInv, Token
    <3>4. Called /\ ~Called'
      BY <3>1, <3>3 DEF Called
    <3>5. Turned'
      BY <1>5, <3>1, <3>2, <3>3 DEF Turned, HasFloor
    <3>6. Line' = Line /\ Places' = Places
      BY <3>1 DEF Line, Places
    <3>7. \A k \in Places : Line[k] \in Commentators /\ Waits(Line[k])'
      <4>1. \A k \in Places : Line[k] \in Commentators /\ Waits(Line[k]) /\ Line[k] # c
        BY <3>3, <3>4 DEF LineInv
      <4>2. \A d \in Commentators \ {c} : Waits(d) => Waits(d)'
        BY <3>2, Numbers DEF Waits
      <4> QED
        BY ONLY <3>6, <4>1, <4>2
    <3>8. /\ WellFormed(queue, Commentators \cup {Garbage}, N)' /\ currentSize' \in 0 .. N
          /\ idx' \in Commentators \cup {0} /\ pos' \in [Commentators -> 0 .. N - 1]
      BY <3>1 DEF LineInv
    <3>9. \A j, k \in Places : Line[j] = Line[k] => j = k
      BY DEF LineInv
    <3> QED
      BY ONLY <3>4, <3>5, <3>6, <3>7, <3>8, <3>9 DEF LineInv
  <2> QED
    BY ONLY <2>1, <2>2, <2>3
<1>6. CASE UNCHANGED vars
  <2>1. UNCHANGED <<pc, queue, idx, pos, currentSize, mutex, mutex_2>>
    BY ONLY <1>6 DEF vars, locks, shared, locals
  <2>2. \A c \in Commentators : (Waits(c) => Waits(c)') /\ (HasFloor(c) <=> HasFloor(c)')
    BY <2>1 DEF Waits, HasFloor
  <2>3. (Called' => Called) /\ Turned'
    BY <1>1, <2>1, <2>2 DEF Called, Turned
  <2> QED
    BY <1>1, <2>1, <2>2, <2>3, LineKept
<1> QED
  BY ONLY [Next]_vars, <1>2, <1>3, <1>4, <1>5, <1>6 DEF Next

LEMMA LineInit == Init => LineInv
<1> SUFFICES ASSUME Init PROVE LineInv
  OBVIOUS
<1>1. N \in 1 .. 4 /\ pos = [c \in Commentators |-> 0] /\ currentSize = 0 /\ idx = 0
      /\ queue = [front |-> 0, end |-> N - 1, size |-> 0, capacity |-> N,
                  list |-> [k \in 0 .. N - 1 |-> Garbage]]
  BY NAssumption DEF Init, createQueue
<1>2. WellFormed(queue, Commentators \cup {Garbage}, N)
  <2>1. (N - 1 + 1) % N = (0 + 0) % N
    BY <1>1
  <2> QED
    BY <1>1, <2>1 DEF WellFormed
<1>3. Places = {}
  BY <1>1 DEF Places, getSize
<1>4. pc[Moderator] = "unborn"
  BY NAssumption DEF Init, Threads, Main, Moderator, Bnews
<1>5. ~Called /\ Turned
  BY <1>4 DEF Called, Turned
<1>6. pos \in [Commentators -> 0 .. N - 1]
  BY <1>1
<1> QED
  BY <1>1, <1>2, <1>3, <1>5, <1>6 DEF LineInv

-----------------------------------------------------------------------------
\* What a mutex and running may be.
Flags ==
  /\ locked \subseteq Mutexes /\ mutex \subseteq Commentators /\ mutex_2 \subseteq Commentators
  /\ running \in BOOLEAN

LEMMA FlagsStep == Flags /\ LineInv /\ [Next]_vars => Flags'
<1> SUFFICES ASSUME Flags, LineInv, [Next]_vars PROVE Flags'
  OBVIOUS
<1> USE DEF Flags, Mutexes, Go, Take, Free, lock, unlock, locks, shared
<1>1. CASE main \/ join_all
  BY <1>1, MainCreates
<1>2. CASE moderator \/ bnews
  BY <1>2 DEF moderator, bnews
<1>3. CASE ask_question
  BY <1>3 DEF ask_question, CountAnswers
<1>4. CASE get_answers
  <2>1. pc[Moderator] = "get_done" => idx \in Commentators
    BY DEF LineInv, Turned
  <2> QED
    BY <1>4, <2>1 DEF get_answers, CallCommentator, AwaitSpeech
<1>5. ASSUME NEW c \in Commentators, commmentator(c) PROVE Flags'
  <2>1. CASE wait_question(c) \/ waitForQueueFill(c)
    BY <2>1 DEF wait_question, waitForQueueFill
  <2>2. CASE Answer(c) \/ AwaitTurn(c)
    BY <2>2 DEF Answer, AwaitTurn
  <2>3. CASE OpenGate(c) \/ PassGate(c)
    BY <2>3 DEF OpenGate, PassGate
  <2>4. CASE speak(c)
    BY <2>4 DEF speak, StartSlice, Mute
  <2>5. CASE ReportEnd(c) \/ StaySilent(c)
    BY <2>5 DEF ReportEnd, StaySilent, EndRound
  <2> QED
    BY ONLY <1>5, <2>1, <2>2, <2>3, <2>4, <2>5 DEF commmentator
<1>6. CASE UNCHANGED vars
  BY <1>6 DEF vars
<1> QED
  BY ONLY [Next]_vars, <1>1, <1>2, <1>3, <1>4, <1>5, <1>6 DEF Next

-----------------------------------------------------------------------------
\* All that is invariant about the conference.
ConferenceInv == Births /\ Rounds /\ Speeches /\ FloorInv /\ LineInv /\ Flags

LEMMA ConferenceInit == Init => ConferenceInv
<1> SUFFICES ASSUME Init PROVE ConferenceInv
  OBVIOUS
<1>1. \A t \in Threads : t # Main => pc[t] = "unborn"
  BY DEF Init
<1>2. (\A c \in Commentators : pc[c] = "unborn") /\ pc[Moderator] = "unborn"
  BY <1>1, Numbers
<1>3. Rounds
  BY <1>2, NAssumption, QAssumption DEF Init, Rounds, Moderator, Commentators
<1>4. Speeches
  BY <1>2 DEF Init, Speeches
<1>5. Flags
  BY DEF Init, Flags
<1> QED
  BY <1>3, <1>4, <1>5, BirthsInit, FloorInit, LineInit DEF ConferenceInv

LEMMA ConferenceStep == ConferenceInv /\ [Next]_vars => ConferenceInv'
  BY BirthsStep, RoundsStep, SpeechesStep, FloorStep, LineStep, FlagsStep DEF ConferenceInv

LEMMA ConferenceHolds == Spec => []ConferenceInv
  BY ConferenceInit, ConferenceStep, PTL DEF Spec

\* Every variable has its type: no round passes Q, currentSize and the
\* positions that enqueue returns fit the capacity, and the ring buffer is
\* well formed (main.c, queue.c), whatever the schedule.
THEOREM TypeTheorem == Spec => []TypeOK
<1>1. ConferenceInv => TypeOK
  <2> SUFFICES ASSUME ConferenceInv PROVE TypeOK
    OBVIOUS
  <2>1. pos \in [Commentators -> -1 .. N - 1]
    BY NAssumption DEF ConferenceInv, LineInv
  <2>2. left \in [Commentators -> SpeechSlices \cup Nat]
    BY DEF ConferenceInv, Speeches
  <2> QED
    BY <2>1, <2>2 DEF ConferenceInv, Births, Rounds, Speeches, LineInv, Flags, TypeOK
<1> QED
  BY <1>1, ConferenceHolds, PTL

\* A commentator stands in the line at most once, and exactly while it waits:
\* the isFull check outside enqueue's lock (queue.c) never turns an answer
\* away, and dequeue never fails the moderator, for any schedule.
THEOREM AnswersTheorem == Spec => []AnswersFit
<1>1. ConferenceInv => AnswersFit
  <2> SUFFICES ASSUME ConferenceInv PROVE AnswersFit
    OBVIOUS
  <2>1. DOMAIN Contents(queue) = Places
    BY DEF Contents, Places, getSize
  <2>2. \A c \in Commentators : pos[c] # -1
    BY NAssumption DEF ConferenceInv, LineInv
  <2> QED
    BY <2>1, <2>2 DEF ConferenceInv, LineInv, Turned, Line, AnswersFit
<1> QED
  BY <1>1, ConferenceHolds, PTL

\* curr_com_id, reset by speak outside bnews_mutex, never names anyone but a
\* commentator who has the floor.
THEOREM CutShortTheorem == Spec => []CutShortIsSpeaker
<1>1. ConferenceInv => CutShortIsSpeaker
  BY DEF ConferenceInv, Speeches, CutShortIsSpeaker, HasFloor
<1> QED
  BY <1>1, ConferenceHolds, PTL

-----------------------------------------------------------------------------
\* mutex1 is locked and stays so: no one who would unlock it can get there.
LEMMA SilenceStep == Births /\ AllSilent /\ [Next]_vars => AllSilent'
<1> SUFFICES ASSUME Births, AllSilent, [Next]_vars PROVE AllSilent'
  OBVIOUS
<1> USE DEF AllSilent
<1>1. CASE main \/ join_all
  <2>1. locked' = locked
    BY ONLY <1>1, MainCreates DEF locks
  <2>2. \A t \in Threads \ {Main} : pc'[t] = pc[t] \/ pc[t] = "unborn"
    BY <1>1, MainKeeps
  <2> QED
    BY <2>1, <2>2, Numbers
<1>2. CASE bnews
  <2>1. "mutex1" \in locked'
    BY <1>2 DEF bnews, Take, Free, lock, unlock, locks
  <2>2. PICK label : pc' = [pc EXCEPT ![Bnews] = label]
    BY <1>2, BnewsMoves DEF Moves
  <2>3. \A t \in Threads \ {Bnews} : pc'[t] = pc[t]
    BY <2>2, Numbers, OnlyOneMoves
  <2> QED
    BY <2>1, <2>3, Numbers
<1>3. ~(moderator \/ ask_question \/ get_answers)
  <2> USE DEF Go, Take, lock, unlock
  <2>1. ~moderator
    BY DEF moderator
  <2>2. ~ask_question
    BY DEF ask_question, CountAnswers
  <2>3. ~get_answers
    BY DEF get_answers, CallCommentator, AwaitSpeech
  <2> QED
    BY ONLY <2>1, <2>2, <2>3
<1>4. ASSUME NEW c \in Commentators, commmentator(c) PROVE FALSE
  <2> USE DEF Go, Take, lock, unlock
  <2>1. pc[c] \in {"silent", "done"}
    OBVIOUS
  <2>2. ~(wait_question(c) \/ Answer(c) \/ waitForQueueFill(c))
    BY <2>1 DEF wait_question, Answer, waitForQueueFill
  <2>3. ~(OpenGate(c) \/ PassGate(c) \/ AwaitTurn(c))
    BY <2>1 DEF OpenGate, PassGate, AwaitTurn
  <2>4. ~speak(c)
    BY <2>1 DEF speak, StartSlice, Mute
  <2>5. ~(ReportEnd(c) \/ StaySilent(c))
    BY <2>1 DEF ReportEnd, StaySilent, EndRound
  <2> QED
    BY ONLY <1>4, <2>2, <2>3, <2>4, <2>5 DEF commmentator
<1>5. CASE UNCHANGED vars
  BY <1>5 DEF vars, locks
<1> QED
  BY ONLY [Next]_vars, <1>1, <1>2, <1>3, <1>4, <1>5 DEF Next

\* When every commentator is silent or through, the moderator's second lock of
\* mutex1 (main.c:94) is never undone: no step of any thread leaves that state.
THEOREM SilenceTheorem == Spec => SilenceIsFinal
<1>1. ConferenceInv /\ [Next]_vars => [AllSilent => AllSilent']_vars
  BY SilenceStep DEF ConferenceInv
<1> QED
  BY <1>1, ConferenceHolds, PTL DEF Spec, SilenceIsFinal

-----------------------------------------------------------------------------
\* Who has the floor in the eyes of TurnTaking.
Floor == IF pc[Moderator] \in {"get_turn", "get_m2", "get_done"} /\ idx \in mutex_2
         THEN {idx} ELSE {}

LEMMA FloorKept ==
  ASSUME queue' = queue, Floor' = Floor
  PROVE  UNCHANGED Turns!vars
  BY DEF Floor, Turns!vars

LEMMA TurnsInit == Init => Turns!Init
<1> SUFFICES ASSUME Init PROVE Turns!Init
  OBVIOUS
<1>1. Contents(queue) = <<>>
  BY NAssumption DEF Init, createQueue, Contents
<1>2. pc[Moderator] = "unborn"
  BY NAssumption DEF Init, Threads, Main, Moderator, Bnews
<1> QED
  BY <1>1, <1>2 DEF Turns!Init

LEMMA TurnsStep == ConferenceInv /\ [Next]_vars => [Turns!Next]_(Turns!vars)
<1> SUFFICES ASSUME ConferenceInv, [Next]_vars PROVE [Turns!Next]_(Turns!vars)
  OBVIOUS
<1>0. Births /\ FloorInv /\ LineInv
  BY DEF ConferenceInv
<1>1. CASE main \/ join_all
  <2>1. UNCHANGED <<queue, idx, mutex_2>>
    BY ONLY <1>1, MainCreates DEF shared, locks
  <2>2. pc'[Moderator] = pc[Moderator]
        \/ (pc[Moderator] = "unborn" /\ pc'[Moderator] \in {"start", "watch", "hear", "done"})
    BY <1>0, <1>1, MainKeeps, Numbers
  <2>3. Floor' = Floor
    BY ONLY <2>1, <2>2 DEF Floor
  <2> QED
    BY <2>1, <2>3, FloorKept
<1>2. CASE bnews
  <2>1. UNCHANGED <<queue, idx, mutex_2>>
    BY ONLY <1>2 DEF bnews, lock, unlock, locks, shared, locals
  <2>2. PICK label : pc' = [pc EXCEPT ![Bnews] = label]
    BY <1>2, BnewsMoves DEF Moves
  <2>3. pc'[Moderator] = pc[Moderator]
    BY <1>0, <2>2, Numbers, OnlyOneMoves
  <2>4. Floor' = Floor
    BY ONLY <2>1, <2>3 DEF Floor
  <2> QED
    BY <2>1, <2>4, FloorKept
<1>3. CASE moderator \/ ask_question
  <2> USE DEF Go, lock, unlock, locks, shared, locals
  <2> DEFINE asking == {"start2", "ask", "stop", "done", "ask_bnews", "ask_m3", "ask_open", "asking",
                        "ask_m3u", "ask_gate", "ask_gateu", "ask_bnewsu", "get"}
  <2>1. /\ UNCHANGED <<queue, idx, mutex_2>>
        /\ pc[Moderator] \notin {"get_turn", "get_m2", "get_done"}
        /\ \E label \in asking : pc' = [pc EXCEPT ![Moderator] = label]
    <3>1. CASE moderator
      BY <3>1 DEF moderator, NextQuestion
    <3>2. CASE ask_question
      BY <3>2 DEF ask_question, CountAnswers
    <3> QED
      BY ONLY <1>3, <3>1, <3>2
  <2>2. pc'[Moderator] \in asking
    BY <1>0, <2>1, ModeratorMovesTo
  <2>3. Floor' = Floor
    BY ONLY <2>1, <2>2 DEF Floor
  <2> QED
    BY <2>1, <2>3, FloorKept
<1>4. CASE get_answers
  <2>1. ASSUME NEW from, NEW to, {from, to} \cap {"get_turn", "get_m2", "get_done"} = {},
               Go(Moderator, from, to), queue' = queue
        PROVE  UNCHANGED Turns!vars
    <3>1. pc[Moderator] = from /\ pc'[Moderator] = to
      BY <1>0, <2>1, ModeratorMovesTo DEF Go
    <3>2. Floor' = Floor
      BY ONLY <2>1, <3>1 DEF Floor
    <3> QED
      BY <2>1, <3>2, FloorKept
  <2>2. ASSUME NEW from, NEW to, {from, to} \subseteq {"get_turn", "get_m2", "get_done"},
               Go(Moderator, from, to), UNCHANGED <<queue, idx, mutex_2>>
        PROVE  UNCHANGED Turns!vars
    <3>1. pc[Moderator] = from /\ pc'[Moderator] = to
      BY <1>0, <2>2, ModeratorMovesTo DEF Go
    <3>2. Floor' = Floor
      BY ONLY <2>2, <3>1 DEF Floor
    <3> QED
      BY <2>2, <3>2, FloorKept
  <2>3. ASSUME Go(Moderator, "get_deq", "get_turn"), idx' = dequeued(queue), queue' = dequeue(queue),
               mutex_2' = mutex_2
        PROVE  Turns!Grant
    <3>1. pc[Moderator] = "get_deq" /\ pc'[Moderator] = "get_turn"
      BY <1>0, <2>3, ModeratorMovesTo DEF Go
    <3>2. getSize(queue) > 0 /\ N \in Nat \ {0} /\ WellFormed(queue, Commentators \cup {Garbage}, N)
      BY <1>0, <3>1, NAssumption DEF LineInv, Turned
    <3>3. Contents(queue)' = Tail(Contents(queue)) /\ idx' = Head(Contents(queue))
      BY <2>3, <3>2, DequeueTakesHead
    <3>4. Contents(queue) # <<>>
      <4>1. Len(Contents(queue)) > 0
        BY <3>2, ContentsType
      <4> QED
        BY ONLY <4>1
    <3>5. idx' \in Commentators
      BY <1>0, <2>3, <3>2, LineShrinks DEF LineInv
    <3>6. idx' \in mutex_2'
      BY <1>0, <2>3, <3>1, <3>5 DEF FloorInv, Token
    <3>7. Floor = {} /\ Floor' = {Head(Contents(queue))}
      BY ONLY <3>1, <3>3, <3>6 DEF Floor
    <3> QED
      BY <3>3, <3>4, <3>7 DEF Floor, Turns!Grant
  <2>4. CASE AwaitSpeech
    <3>1. /\ pc[Moderator] = "get_done" /\ pc'[Moderator] = "get"
          /\ idx \notin mutex_2 /\ queue' = queue
      BY <1>0, <2>4, ModeratorMovesTo DEF AwaitSpeech, Go, shared
    <3>2. Floor' = Floor
      BY ONLY <3>1 DEF Floor
    <3> QED
      BY <3>1, <3>2, FloorKept
  <2>5. CASE \/ pc[Moderator] = "get" /\ ~AwaitSpeech
             \/ pc[Moderator] = "get_check"
    <3>1. PICK to : Go(Moderator, pc[Moderator], to) /\ queue' = queue
                    /\ to \in {"ask", "stop", "get_check", "stray", "get_deq"}
      BY <1>4, <2>5 DEF get_answers, CallCommentator, AwaitSpeech, NextQuestion, Go, unlock, shared
    <3> QED
      BY <2>1, <2>5, <3>1
  <2>6. CASE CallCommentator \/ unlock(Moderator, "get_m2", "mutex2", "get_done")
    BY <2>2, <2>6 DEF CallCommentator, unlock, shared, locals
  <2> QED
    BY ONLY <1>4, <2>3, <2>4, <2>5, <2>6 DEF get_answers, Go, locks, Turns!Next
<1>5. ASSUME NEW c \in Commentators, commmentator(c) PROVE [Turns!Next]_(Turns!vars)
  <2>1. pc'[Moderator] = pc[Moderator]
    <3>1. PICK label : pc' = [pc EXCEPT ![c] = label]
      BY <1>5, CommentatorMovesAlive DEF Moves
    <3> QED
      BY <1>0, <3>1, Numbers, OnlyOneMoves
  <2>2. CASE UNCHANGED <<queue, idx, mutex_2>>
    <3>1. Floor' = Floor
      BY ONLY <2>1, <2>2 DEF Floor
    <3> QED
      BY <2>2, <3>1, FloorKept
  <2>3. ASSUME pc[c] = "enqueue", queue' = enqueue(queue, c), UNCHANGED <<idx, mutex_2>>
        PROVE  Turns!Raise(c)
    <3>1. ~Waits(c) /\ ~HasFloor(c)
      BY <2>3 DEF Waits, HasFloor
    <3>2. getSize(queue) \in 0 .. N - 1 /\ \A k \in Places : Line[k] # c
      BY <1>0, <3>1, PlaceLeft
    <3>4. Contents(queue)' = Append(Contents(queue), c)
      BY <1>0, <2>3, <3>2, LineGrows DEF Line
    <3>5. DOMAIN Contents(queue) = Places
      BY DEF Contents, Places, getSize
    <3>6. c \notin Floor
      BY <1>0, <3>1 DEF LineInv, Turned, Called, Floor
    <3>7. Floor' = Floor
      BY ONLY <2>1, <2>3 DEF Floor
    <3> QED
      BY ONLY <2>3, <3>2, <3>4, <3>5, <3>6, <3>7 DEF Floor, Line, Turns!Raise
  <2>4. CASE ReportEnd(c)
    <3>1. /\ HasFloor(c) /\ mutex_2' = mutex_2 \ {c} /\ UNCHANGED <<queue, idx>>
      BY <2>4 DEF ReportEnd, EndRound, Go, HasFloor, shared
    <3>2. idx = c /\ pc[Moderator] \in {"get_m2", "get_done"} /\ c \in mutex_2
      BY <1>0, <3>1 DEF FloorInv, Token
    <3>3. Floor = {c} /\ Floor' = {}
      BY ONLY <2>1, <3>1, <3>2 DEF Floor
    <3> QED
      BY ONLY <3>1, <3>3 DEF Floor, Turns!Release, Turns!Next
  <2>5. CASE ~ReportEnd(c) /\ ~Answer(c)
    <3> USE DEF Go, lock, unlock, locks, locals, shared
    <3>1. CASE wait_question(c) \/ waitForQueueFill(c)
      BY <2>2, <3>1 DEF wait_question, waitForQueueFill
    <3>2. CASE OpenGate(c) \/ PassGate(c) \/ AwaitTurn(c)
      BY <2>2, <3>2 DEF OpenGate, PassGate, AwaitTurn
    <3>3. CASE speak(c)
      BY <2>2, <3>3 DEF speak, StartSlice, Mute
    <3>4. CASE StaySilent(c)
      BY <2>2, <3>4 DEF StaySilent, EndRound
    <3> QED
      BY ONLY <1>5, <2>5, <3>1, <3>2, <3>3, <3>4 DEF commmentator
  <2>6. CASE Answer(c)
    BY <2>2, <2>3, <2>6 DEF Answer, Go, locks, shared, Turns!Next
  <2> QED
    BY ONLY <2>4, <2>5, <2>6 DEF Turns!Next
<1>6. CASE UNCHANGED vars
  BY <1>6, FloorKept DEF vars, locks, shared, locals, Floor
<1> QED
  BY ONLY [Next]_vars, <1>1, <1>2, <1>3, <1>4, <1>5, <1>6 DEF Next

\* The threads, mutexes and ring buffer of prj2 implement TurnTaking: dequeue
\* is Grant, the unlock of mutex_2[idx-1] is Release, the insertion of enqueue
\* is Raise, and every other step changes neither the line nor the floor.
THEOREM TurnsTheorem == Spec => TurnsSpec
  BY TurnsInit, TurnsStep, ConferenceHolds, PTL DEF Spec, TurnsSpec, Turns!Spec
-----------------------------------------------------------------------------
(* Sleeps that last *)

\* What the code counts on: sleeps (pthread_sleep) outlast what the others have
\* to do, everybody answers (-p), and no speech is shorter than a slice (main.c:134).
\* HeardWhatWasAsked fails without any one of the three.
Punctual == Timely /\ P > 100 /\ 0 \notin SpeechSlices

\* main creates all threads before it joins them, and whoever is through has
\* gone through every round.
Lives ==
  /\ pc[Main] \in {"create_moderator", "nap", "create", "join", "done"}
  /\ pc[Main] \in {"join", "done"} => thread_count = N + 2
  /\ \A t \in Moderator .. Bnews : t < thread_count => pc[t] # "unborn"
  /\ \A c \in Commentators : pc[c] = "done" => round[c] = Q

\* Who waits is in the line or has been called from it.
Stands(c) == (\E k \in Places : Line[k] = c) \/ (Called /\ idx = c)
Standing == \A c \in Commentators : Waits(c) => Stands(c)

InRound(c) == round[c] = round[Moderator]

\* Nobody but the moderator is there until it has locked what it needs.
Beginning ==
  /\ pc[Moderator] \in Opening
  /\ pc[Main] \in {"create_moderator", "nap"}
  /\ "question_mutex" \in locked <=> pc[Moderator] = "start2"
  /\ "mutex2" \notin locked /\ Places = {}

\* Before the question is out everybody waits for it.
Unasked ==
  /\ pc[Moderator] \in {"ask", "ask_bnews", "ask_m3", "ask_open"}
  /\ "question_mutex" \in locked
  /\ pc[Moderator] # "ask" => "mutex1" \in locked
  /\ pc[Moderator] = "ask_open" => "mutex3" \in locked
  /\ Places = {}
  /\ \A c \in Commentators : InRound(c) /\ pc[c] \in {"unborn", "hear"}

\* Before the answers are counted nobody gets past mutex3, and who answers
\* gets the number of its place.
Answering ==
  /\ pc[Moderator] = "asking"
  /\ "mutex1" \in locked /\ "mutex3" \in locked
  /\ "question_mutex" \in locked => \E c \in Commentators : pc[c] = "heard"
  /\ \A c \in Commentators :
       InRound(c) /\ pc[c] \in {"unborn", "hear", "heard", "answer", "enqueue", "fill"}
  /\ \A k \in Places : pos[Line[k]] = k - 1

\* Before d, the last in the line, opens mutex1 nobody gets past it.
Unopened(d) ==
  /\ pc[Moderator] \in {"ask_m3u", "ask_gate"}
  /\ "mutex1" \in locked /\ "question_mutex" \notin locked
  /\ pc[d] \in {"fill", "filled", "last", "open"}
  /\ \A c \in Commentators \ {d} : pc[c] \in {"fill", "filled", "last", "gate"}
  /\ \A c \in Commentators : InRound(c)

\* Before d closes the question nobody gets through with its speech.
Unclosed(d) ==
  /\ pc[d] = "close" /\ "question_mutex" \notin locked
  /\ \A c \in Commentators \ {d} :
       pc[c] \in {"fill", "filled", "last", "gate", "gated", "turn", "mic", "slice", "speaking"}
  /\ \A c \in Commentators : InRound(c)

\* Then those who are through stay before question_mutex.
Speaking(d) ==
  /\ "question_mutex" \in locked
  /\ pc[d] \notin {"fill", "filled", "last"}
  /\ \A c \in Commentators :
       \/ InRound(c) /\ (Waits(c) \/ HasFloor(c)) /\ pc[c] \notin {"open", "close"}
       \/ round[c] = round[Moderator] + 1 /\ pc[c] \in {"hear", "done"}

Counted ==
  /\ pc[Moderator] \in Asked \ {"asking"}
  /\ currentSize = N
  /\ \E d \in Commentators :
       /\ \A c \in Commentators : pos[c] = N - 1 <=> c = d
       /\ Unopened(d) \/ Unclosed(d) \/ Speaking(d)

Ended ==
  /\ pc[Moderator] \in Closing
  /\ \A c \in Commentators : pc[c] = "done" \/ (pc[c] = "unborn" /\ Q = 0)

Stages == Beginning \/ Unasked \/ Answering \/ Counted \/ Ended

LEMMA LivesStep == Births /\ Rounds /\ Lives /\ [Next]_vars => Lives'
<1> SUFFICES ASSUME Births, Rounds, Lives, [Next]_vars PROVE Lives'
  OBVIOUS
<1> USE NAssumption, QAssumption DEF Births, Rounds, Lives, Threads, Main, Moderator, Commentators, Bnews
<1>1. CASE main
  <2>1. round' = round
    BY ONLY <1>1, MainCreates
  <2>2. CASE create_new_thread("create_moderator", "nap")
    BY <2>1, <2>2 DEF create_new_thread
  <2>3. CASE Go(Main, "nap", "create") /\ UNCHANGED locals
    BY <2>1, <2>3 DEF Go, locals
  <2>4. CASE create_new_thread("create", IF thread_count = Bnews THEN "join" ELSE "create")
    BY <2>1, <2>4 DEF create_new_thread
  <2> QED
    BY ONLY <1>1, <2>2, <2>3, <2>4 DEF main
<1>2. CASE join_all
  BY <1>2 DEF join_all, Go, locals
<1>3. ASSUME NEW t \in {Moderator, Bnews}, Moves(t),
             \A c \in Commentators : round'[c] = round[c]
      PROVE  Lives'
  BY <1>3 DEF Moves
<1>4. ASSUME NEW c \in Commentators, commmentator(c) PROVE Lives'
  <2>1. Moves(c)
    BY ONLY <1>4, CommentatorMovesAlive
  <2>2. \/ /\ \E label \in Labels \ {"unborn", "done"} : pc' = [pc EXCEPT ![c] = label]
           /\ round' = round
        \/ /\ pc' = [pc EXCEPT ![c] = IF round[c] + 1 < Q THEN "hear" ELSE "done"]
           /\ round' = [round EXCEPT ![c] = @ + 1]
    BY ONLY <1>4, CommentatorCounts
  <2>3. pc[c] \notin {"unborn", "done"}
    BY ONLY <1>4, CommentatorCounts
  <2>4. thread_count' = thread_count
    BY ONLY <2>1 DEF Moves
  <2>5. CASE /\ \E label \in Labels \ {"unborn", "done"} : pc' = [pc EXCEPT ![c] = label]
             /\ round' = round
    BY <2>4, <2>5
  <2>6. CASE /\ pc' = [pc EXCEPT ![c] = IF round[c] + 1 < Q THEN "hear" ELSE "done"]
             /\ round' = [round EXCEPT ![c] = @ + 1]
    BY <2>3, <2>4, <2>6
  <2> QED
    BY ONLY <2>2, <2>5, <2>6
<1>5. CASE UNCHANGED vars
  BY <1>5 DEF vars, locals
<1>6. moderator \/ ask_question \/ get_answers
        => Moves(Moderator) /\ \A c \in Commentators : round'[c] = round[c]
  <2> SUFFICES ASSUME moderator \/ ask_question \/ get_answers
               PROVE  \A c \in Commentators : round'[c] = round[c]
    BY ModeratorMoves
  <2> round' = round \/ round' = [round EXCEPT ![Moderator] = @ + 1]
    BY ONLY moderator \/ ask_question \/ get_answers, ModeratorCounts
  <2> QED
    OBVIOUS
<1>7. bnews => Moves(Bnews) /\ round' = round
  BY BnewsMoves DEF bnews, lock, unlock, locals
<1> QED
  BY ONLY [Next]_vars, <1>1, <1>2, <1>3, <1>4, <1>5, <1>6, <1>7 DEF Next

\* A step that leaves the line alone, takes nobody's turn and starts no wait.
LEMMA StandingKept ==
  ASSUME Standing, UNCHANGED <<queue, idx>>, Called => Called',
         \A c \in Commentators : Waits(c)' => Waits(c)
  PROVE  Standing'
<1>1. Line' = Line /\ Places' = Places
  BY DEF Line, Places
<1> QED
  BY <1>1 DEF Standing, Stands

LEMMA StandingStep == Births /\ FloorInv /\ LineInv /\ Standing /\ [Next]_vars => Standing'
<1> SUFFICES ASSUME Births, FloorInv, LineInv, Standing, [Next]_vars PROVE Standing'
  OBVIOUS
<1>1. CASE main \/ join_all
  <2>1. UNCHANGED <<queue, idx, mutex>>
    BY ONLY <1>1, MainCreates DEF shared, locks
  <2>2. \A t \in Threads \ {Main} :
          pc'[t] = pc[t] \/ (pc[t] = "unborn" /\ pc'[t] \in {"start", "watch", "hear", "done"})
    BY <1>1, MainKeeps
  <2>3. \A c \in Commentators : Waits(c)' => Waits(c)
    BY <2>2, Numbers DEF Waits
  <2>4. Called => Called'
    BY <2>1, <2>2, Numbers DEF Called
  <2> QED
    BY <2>1, <2>3, <2>4, StandingKept
<1>2. CASE bnews
  <2>1. UNCHANGED <<queue, idx, mutex>>
    BY ONLY <1>2 DEF bnews, lock, unlock, locks, shared, locals
  <2>2. PICK label : pc' = [pc EXCEPT ![Bnews] = label]
    BY <1>2, BnewsMoves DEF Moves
  <2>3. \A t \in Threads \ {Bnews} : pc'[t] = pc[t]
    BY <2>2, Numbers, OnlyOneMoves
  <2> QED
    BY <2>1, <2>3, Numbers, StandingKept DEF Waits, Called
<1>3. CASE moderator \/ ask_question \/ get_answers
  <2>1. \A c \in Commentators : pc'[c] = pc[c]
    <3>1. PICK label : pc' = [pc EXCEPT ![Moderator] = label]
      BY <1>3, ModeratorMoves DEF Moves
    <3> QED
      BY <3>1, Numbers, OnlyOneMoves
  <2>2. \A c \in Commentators : Waits(c) <=> Waits(c)'
    BY <2>1 DEF Waits
  <2>3. CASE moderator \/ ask_question
    <3>1. UNCHANGED <<queue, idx>> /\ pc[Moderator] \notin {"get_turn", "get_m2", "get_done"}
      <4> USE DEF Go, lock, unlock, locks, shared, locals
      <4>1. CASE moderator
        BY <4>1 DEF moderator
      <4>2. CASE ask_question
        BY <4>2 DEF ask_question, CountAnswers
      <4> QED
        BY ONLY <2>3, <4>1, <4>2
    <3> QED
      BY <2>2, <3>1, StandingKept DEF Called
  <2>4. CASE get_answers
    <3>1. ASSUME UNCHANGED <<queue, idx>>, pc[Moderator] \in {"get", "get_check"} PROVE Standing'
      BY <2>2, <3>1, StandingKept DEF Called
    <3>2. ASSUME Go(Moderator, "get_deq", "get_turn"), idx' = dequeued(queue), queue' = dequeue(queue)
          PROVE  Standing'
      <4>1. pc[Moderator] = "get_deq" /\ pc'[Moderator] = "get_turn" /\ getSize(queue) > 0
        BY <3>2, ModeratorMovesTo DEF Go, LineInv, Turned
      <4>2. idx' = Line[1] /\ \A k \in Places \ {1} : k - 1 \in Places' /\ Line'[k - 1] = Line[k]
        BY <3>2, <4>1, LineShrinks
      <4>3. ~Called /\ Called'
        BY <4>1 DEF Called
      <4>4. ASSUME NEW c \in Commentators, Waits(c)' PROVE Stands(c)'
        <5>1. PICK k \in Places : Line[k] = c
          BY <2>2, <4>3, <4>4 DEF Standing, Stands
        <5>2. k = 1 \/ (k - 1 \in Places' /\ Line'[k - 1] = c)
          BY ONLY <4>2, <5>1
        <5> QED
          BY <4>2, <4>3, <5>1, <5>2 DEF Stands
      <4> QED
        BY <4>4 DEF Standing
    <3>3. ASSUME Go(Moderator, "get_turn", "get_m2"), mutex' = mutex \ {idx}, UNCHANGED <<queue, idx>>
          PROVE  Standing'
      <4>1. pc'[Moderator] = "get_m2" /\ idx' \notin mutex'
        BY <3>3, ModeratorMovesTo DEF Go
      <4> QED
        BY <2>2, <3>3, <4>1, StandingKept DEF Called
    <3>4. ASSUME Go(Moderator, "get_m2", "get_done"), UNCHANGED <<queue, idx, mutex>>
          PROVE  Standing'
      <4>1. pc[Moderator] = "get_m2" /\ pc'[Moderator] = "get_done"
        BY <3>4, ModeratorMovesTo DEF Go
      <4> QED
        BY <2>2, <3>4, <4>1, StandingKept DEF Called
    <3>5. ASSUME pc[Moderator] = "get_done", idx \notin mutex_2, UNCHANGED <<queue, idx>>
          PROVE  Standing'
      <4>1. idx \in Commentators
        BY <3>5 DEF LineInv, Turned
      <4>2. idx \in mutex
        BY <3>5, <4>1 DEF FloorInv, Token
      <4> QED
        BY <2>2, <3>5, <4>2, StandingKept DEF Called
    <3> QED
      <4>1. CASE pc[Moderator] \in {"get", "get_check"} /\ UNCHANGED <<shared, idx>>
        BY ONLY <3>1, <4>1 DEF shared
      <4>2. CASE CallCommentator
        BY ONLY <3>3, <4>2 DEF CallCommentator, shared, locals
      <4>3. CASE unlock(Moderator, "get_m2", "mutex2", "get_done")
        BY ONLY <3>4, <4>3 DEF unlock, shared, locals
      <4>4. CASE AwaitSpeech
        BY ONLY <3>5, <4>4 DEF AwaitSpeech, Go, shared, locals
      <4> QED
        BY ONLY <2>4, <3>2, <4>1, <4>2, <4>3, <4>4 DEF get_answers, Go, locals
  <2> QED
    BY ONLY <1>3, <2>3, <2>4
<1>4. ASSUME NEW c \in Commentators, commmentator(c) PROVE Standing'
  <2>1. pc'[Moderator] = pc[Moderator]
    <3>1. PICK label : pc' = [pc EXCEPT ![c] = label]
      BY <1>4, CommentatorMovesAlive DEF Moves
    <3> QED
      BY <3>1, Numbers, OnlyOneMoves
  <2>2. CASE ~Answer(c) /\ ~AwaitTurn(c)
    <3>1. /\ \A t \in Threads \ {c} : pc'[t] = pc[t]
          /\ Waits(c) <=> Waits(c)'
          /\ UNCHANGED <<queue, idx, mutex>>
      BY <1>4, <2>2, WaitsOn
    <3>2. \A d \in Commentators : Waits(d)' => Waits(d)
      BY <3>1, Numbers DEF Waits
    <3> QED
      BY <2>1, <3>1, <3>2, StandingKept DEF Called
  <2>3. CASE Answer(c)
    <3>1. ~Waits(c)
      BY <2>3 DEF Answer, Go, Waits
    <3>2. getSize(queue) \in 0 .. N - 1
      BY <3>1, PlaceLeft
    <3>3. ~isFull(queue)
      BY <3>2, NAssumption DEF LineInv, WellFormed, isFull, getSize
    <3>4. PICK label : pc' = [pc EXCEPT ![c] = label]
      BY <1>4, CommentatorMovesAlive DEF Moves
    <3>5. \A u \in Threads : pc'[u] = IF u = c THEN label ELSE pc[u]
      BY <3>4, OnlyOneMoves, Numbers
    <3>6. UNCHANGED <<idx, mutex>>
      BY ONLY <2>3 DEF Answer, locks, shared
    <3>7. \A d \in Commentators \ {c} : Waits(d)' <=> Waits(d)
      BY <3>5, Numbers DEF Waits
    <3>8. Called <=> Called'
      BY <2>1, <3>6 DEF Called
    <3>9. ASSUME Go(c, "answer", IF isFull(queue) THEN "fill" ELSE "enqueue"), queue' = queue
          PROVE  Standing'
      <4>1. pc'[c] = "enqueue"
        BY <3>3, <3>9, Numbers DEF Go, Births
      <4>2. ~Waits(c)'
        BY <4>1 DEF Waits
      <4> QED
        BY <3>6, <3>7, <3>8, <3>9, <4>2, StandingKept
    <3>10. ASSUME queue' = enqueue(queue, c) PROVE Standing'
      <4>1. /\ Places \subseteq Places'
            /\ \A k \in Places' : k \notin Places => Line'[k] = c
            /\ \A k \in Places : Line'[k] = Line[k]
        BY <3>2, <3>10, LineGrows
      <4>2. getSize(queue)' = getSize(queue) + 1
        BY <3>10 DEF enqueue, getSize, LineInv, WellFormed
      <4>3. \E k \in Places' : k \notin Places
        BY <3>2, <4>2 DEF Places
      <4>4. Stands(c)'
        BY <4>1, <4>3 DEF Stands
      <4>5. \A d \in Commentators \ {c} : Waits(d)' => Stands(d)
        BY <3>7 DEF Standing
      <4>6. \A d \in Commentators : Stands(d) => Stands(d)'
        BY ONLY <3>6, <3>8, <4>1 DEF Stands
      <4> QED
        BY ONLY <4>4, <4>5, <4>6 DEF Standing
    <3> QED
      BY ONLY <2>3, <3>9, <3>10 DEF Answer, Go, shared
  <2>4. CASE AwaitTurn(c)
    <3>1. /\ pc[c] = "turn" /\ pc' = [pc EXCEPT ![c] = "mic"] /\ c \notin mutex
          /\ UNCHANGED <<queue, idx>>
      BY ONLY <2>4 DEF AwaitTurn, Go, shared, locals
    <3>2. \A u \in Threads : pc'[u] = IF u = c THEN "mic" ELSE pc[u]
      BY <3>1, OnlyOneMoves, Numbers
    <3>3. idx = c
      BY <3>1 DEF FloorInv, Token
    <3>4. Line' = Line /\ Places' = Places
      BY <3>1 DEF Line, Places
    <3>5. \A d \in Commentators : Waits(d)' => d # c /\ Waits(d)
      BY <3>2, Numbers DEF Waits
    <3> QED
      BY <3>3, <3>4, <3>5 DEF Standing, Stands
  <2> QED
    BY ONLY <2>2, <2>3, <2>4
<1>5. CASE UNCHANGED vars
  <2>1. UNCHANGED <<pc, queue, idx, mutex>>
    BY ONLY <1>5 DEF vars, locks, shared, locals
  <2> QED
    BY <2>1, StandingKept DEF Waits, Called
<1> QED
  BY ONLY [Next]_vars, <1>1, <1>2, <1>3, <1>4, <1>5 DEF Next

\* What main changes of the others is that they are born.
LEMMA MainBears ==
  ASSUME Births, main \/ join_all
  PROVE  /\ \A c \in Commentators :
              pc'[c] = pc[c] \/ (pc[c] = "unborn" /\ pc'[c] = IF Q > 0 THEN "hear" ELSE "done")
         /\ pc'[Moderator] = pc[Moderator] \/ (pc[Moderator] = "unborn" /\ pc'[Moderator] = "start")
<1> USE NAssumption DEF Births, Threads, Main, Moderator, Commentators, Bnews
<1>1. ASSUME NEW label, pc' = [pc EXCEPT ![Main] = label], NEW t \in Threads \ {Main}
      PROVE  pc'[t] = pc[t]
  BY <1>1
<1>2. ASSUME NEW label,
             pc[Main] \in {"create_moderator", "create"},
             pc' = [pc EXCEPT ![Main] = label, ![thread_count] = Newborn],
             NEW t \in Threads \ {Main}
      PROVE  pc'[t] = pc[t] \/ (pc[t] = "unborn" /\ t = thread_count /\ pc'[t] = Newborn)
  BY <1>2
<1>3. \A t \in Threads \ {Main} :
        pc'[t] = pc[t] \/ (pc[t] = "unborn" /\ t = thread_count /\ pc'[t] = Newborn)
  BY ONLY main \/ join_all, <1>1, <1>2, MainCreates
<1> QED
  BY <1>3 DEF Newborn

\* Who is not blocked where it matters.
LEMMA Awake ==
  ASSUME NEW t \in Threads, Blocked(t)
  PROVE  /\ pc[t] \notin {"create", "create_moderator", "heard", "answer", "enqueue"}
         /\ pc[t] \in {"start", "hear", "close"} => "question_mutex" \in locked
         /\ pc[t] = "start2" => "mutex2" \in locked
BY DEF Blocked, Awaits, Asleep

\* The steps of a commentator that always answers and never speaks for less
\* than a slice.
Strides(c) ==
  \/ /\ round' = round /\ UNCHANGED <<queue, pos>>
     /\ \/ Go(c, "hear", "heard") /\ Take("question_mutex")
        \/ Go(c, "heard", "answer") /\ Free("question_mutex")
        \/ Go(c, "answer", "enqueue") /\ locked' = locked
        \/ Go(c, "fill", "filled") /\ Take("mutex3")
        \/ Go(c, "filled", "last") /\ Free("mutex3")
        \/ Go(c, "last", IF pos[c] = currentSize - 1 THEN "open" ELSE "gate") /\ locked' = locked
        \/ Go(c, "open", "close") /\ Free("mutex1")
        \/ Go(c, "close", "gate") /\ Take("question_mutex")
        \/ Go(c, "gate", "gated") /\ Take("mutex1")
        \/ Go(c, "gated", "turn") /\ Free("mutex1")
        \/ Go(c, "turn", "mic") /\ locked' = locked
        \/ Go(c, "mic", "slice") /\ Take("mutex2")
        \/ Go(c, "slice", "speaking") /\ Take("bnews_mutex")
        \/ Go(c, "speaking", "pause") /\ locked' = locked /\ Quiet
        \/ Go(c, "pause", IF left[c] > 0 THEN "slice" ELSE "mute") /\ Free("bnews_mutex")
        \/ Go(c, "mute", "micu") /\ locked' = locked
        \/ Go(c, "micu", "spoken") /\ Free("mutex2")
  \/ /\ Go(c, "enqueue", "fill") /\ locked' = locked /\ round' = round
     /\ pos' = [pos EXCEPT ![c] = position(queue)]
     /\ queue' = enqueue(queue, c)
  \/ EndRound(c, "spoken") /\ locked' = locked

LEMMA EveryStride ==
  ASSUME Punctual, LineInv, NEW c \in Commentators, commmentator(c),
         pc[c] \notin {"silent", "silentu"}
  PROVE  Strides(c) /\ currentSize' = currentSize
<1> USE DEF Strides, lock, unlock, locks, locals, shared
<1>1. CASE wait_question(c)
  <2>1. \A n \in 0 .. 100 : n < P
    BY ChanceAssumption DEF Punctual
  <2>2. \A answers \in probabilityCheck(P) : answers
    BY ONLY <2>1, Zenon DEF probabilityCheck
  <2> QED
    BY <1>1, <2>2 DEF wait_question, Go
<1>2. CASE Answer(c)
  <2>1. ~Waits(c)
    BY <1>2 DEF Answer, Go, Waits
  <2>2. ~isFull(queue)
    BY <2>1, PlaceLeft, NAssumption DEF LineInv, WellFormed, isFull, getSize
  <2>3. [pos EXCEPT ![c] = @] = pos
    BY DEF LineInv
  <2> QED
    BY <1>2, <2>2, <2>3 DEF Answer
<1>3. CASE waitForQueueFill(c) \/ OpenGate(c) \/ PassGate(c)
  BY <1>3 DEF waitForQueueFill, OpenGate, PassGate
<1>4. CASE AwaitTurn(c)
  BY <1>4 DEF AwaitTurn
<1>5. CASE speak(c)
  <2>1. \A slices \in SpeechSlices : slices > 0
    BY SpeechAssumption DEF Punctual
  <2> QED
    BY <1>5, <2>1 DEF speak, StartSlice, Mute, MayWake, Punctual
<1>6. CASE ReportEnd(c)
  BY <1>6 DEF ReportEnd, EndRound
<1>7. CASE StaySilent(c)
  BY <1>7 DEF StaySilent, EndRound, Go
<1> QED
  BY ONLY commmentator(c), <1>1, <1>2, <1>3, <1>4, <1>5, <1>6, <1>7 DEF commmentator

\* A step that leaves all labels and locks that matter as they are.
LEMMA StagesKept ==
  ASSUME Stages, UNCHANGED <<round, queue, pos, currentSize>>,
         pc'[Main] = pc[Main], pc'[Moderator] = pc[Moderator],
         \A c \in Commentators : pc'[c] = pc[c],
         \A m \in Mutexes \ {"bnews_mutex"} : m \in locked' <=> m \in locked
  PROVE  Stages'
<1>1. Line' = Line /\ Places' = Places
  BY DEF Line, Places
<1>2. \A m \in {"question_mutex", "mutex1", "mutex2", "mutex3"} : m \in locked' <=> m \in locked
  BY DEF Mutexes
<1>3. \A c \in Commentators : /\ InRound(c)' <=> InRound(c)
                              /\ Waits(c)' <=> Waits(c)
                              /\ HasFloor(c)' <=> HasFloor(c)
  BY DEF InRound, Waits, HasFloor
<1>4. Beginning => Beginning'
  BY <1>1, <1>2 DEF Beginning
<1>5. Unasked => Unasked'
  BY <1>1, <1>2, <1>3 DEF Unasked
<1>6. Answering => Answering'
  BY <1>1, <1>2, <1>3 DEF Answering
<1>7. ASSUME NEW d \in Commentators
      PROVE  (Unopened(d) => Unopened(d)') /\ (Unclosed(d) => Unclosed(d)') /\ (Speaking(d) => Speaking(d)')
  BY <1>2, <1>3, <1>7 DEF Unopened, Unclosed, Speaking
<1>8. Counted => Counted'
  BY <1>7 DEF Counted
<1>9. Ended => Ended'
  BY DEF Ended
<1> QED
  BY <1>4, <1>5, <1>6, <1>8, <1>9 DEF Stages

\* A step of the moderator once it has counted.
LEMMA CountedKept ==
  ASSUME Counted, UNCHANGED <<round, pos, currentSize>>,
         pc'[Moderator] \in Asked \ {"asking"},
         \A c \in Commentators : pc'[c] = pc[c],
         "question_mutex" \in locked' <=> "question_mutex" \in locked,
         pc[Moderator] \in {"ask_m3u", "ask_gate"} /\ "mutex1" \in locked
           => pc'[Moderator] \in {"ask_m3u", "ask_gate"} /\ "mutex1" \in locked'
  PROVE  Counted'
<1>3. \A c \in Commentators : /\ InRound(c)' <=> InRound(c)
                              /\ Waits(c)' <=> Waits(c)
                              /\ HasFloor(c)' <=> HasFloor(c)
  BY DEF InRound, Waits, HasFloor
<1>7. ASSUME NEW d \in Commentators
      PROVE  (Unopened(d) => Unopened(d)') /\ (Unclosed(d) => Unclosed(d)') /\ (Speaking(d) => Speaking(d)')
  BY <1>3, <1>7 DEF Unopened, Unclosed, Speaking
<1> QED
  BY <1>7 DEF Counted

\* At the beginning and at the end no commentator is there.
LEMMA NobodyThere ==
  ASSUME Births, Stages, NEW c \in Commentators, pc[c] \notin {"unborn", "done"}
  PROVE  Unasked \/ Answering \/ Counted
<1>1. Beginning => thread_count \in {0, 1}
  BY DEF Births, Beginning, Moderator
<1>2. Beginning => pc[c] = "unborn"
  BY <1>1, NAssumption DEF Births, Moderator, Bnews, Commentators
<1> QED
  BY <1>2 DEF Stages, Ended

LEMMA MainStages ==
  ASSUME Punctual, Births, Rounds, Lives, Stages, main \/ join_all
  PROVE  Stages'
<1>1. UNCHANGED <<locked, round, queue, pos, currentSize>>
  BY MainCreates DEF shared, locks
<1>2. Line' = Line /\ Places' = Places
  BY <1>1 DEF Line, Places
<1>3. /\ \A c \in Commentators :
           pc'[c] = pc[c] \/ (pc[c] = "unborn" /\ pc'[c] = IF Q > 0 THEN "hear" ELSE "done")
      /\ pc'[Moderator] = pc[Moderator] \/ (pc[Moderator] = "unborn" /\ pc'[Moderator] = "start")
  BY MainBears
<1>4. \A c \in Commentators : InRound(c)' <=> InRound(c)
  BY <1>1 DEF InRound
<1>5. CASE Beginning
  <2>1. CASE pc[Main] = "create_moderator"
    <3>1. pc[Moderator] = "unborn" /\ pc'[Main] = "nap"
      BY <2>1, NAssumption DEF Births, main, join_all, create_new_thread, Go, Threads, Main,
         Moderator, Bnews
    <3>2. pc'[Moderator] \in {"unborn", "start"}
      BY <1>3, <3>1
    <3>3. Beginning'
      BY <1>1, <1>2, <1>5, <3>1, <3>2 DEF Beginning, Opening
    <3> QED
      BY <3>3 DEF Stages
  <2>2. CASE pc[Main] = "nap"
    <3>1. MayWake(Main)
      BY <2>2 DEF main, join_all, create_new_thread, Go
    <3>2. Blocked(Moderator)
      BY <3>1, Numbers DEF MayWake, Quiet, Punctual
    <3>3. pc[Moderator] # "unborn"
      BY <2>2, NAssumption DEF Births, Lives, Moderator, Bnews
    <3> QED
      BY <1>5, <3>2, <3>3, Awake, Numbers DEF Beginning, Opening
  <2> QED
    BY <1>5, <2>1, <2>2 DEF Beginning
<1>6. CASE Unasked \/ Answering
  <2>1. Q > 0 /\ pc[Moderator] # "unborn"
    BY <1>6, NAssumption, QAssumption DEF Rounds, Unasked, Answering, Moderator
  <2>2. Unasked => Unasked'
    BY <1>1, <1>2, <1>3, <1>4, <2>1 DEF Unasked
  <2>3. Answering => Answering'
    BY <1>1, <1>2, <1>3, <1>4, <2>1 DEF Answering
  <2> QED
    BY <1>6, <2>2, <2>3 DEF Stages
<1>7. CASE Counted
  <2>1. pc[Moderator] \in Asked \ {"asking"}
    BY <1>7 DEF Counted
  <2>2. pc'[Moderator] = pc[Moderator]
    BY <1>3, <2>1 DEF Asked
  <2>3. \A c \in Commentators : pc[c] # "unborn"
    BY <1>7 DEF Counted, Unopened, Unclosed, Speaking, Waits, HasFloor
  <2> QED
    BY <1>1, <1>3, <1>7, <2>1, <2>2, <2>3, CountedKept DEF Stages
<1>8. CASE Ended
  <2>1. Ended'
    BY <1>3, <1>8 DEF Ended, Closing
  <2> QED
    BY <2>1 DEF Stages
<1> QED
  BY <1>5, <1>6, <1>7, <1>8 DEF Stages

LEMMA BnewsStages ==
  ASSUME Births, Stages, bnews
  PROVE  Stages'
<1>1. UNCHANGED <<round, queue, pos, currentSize>>
  BY DEF bnews, lock, unlock, shared, locals
<1>2. \A m \in Mutexes \ {"bnews_mutex"} : m \in locked' <=> m \in locked
  BY DEF bnews, lock, unlock, Take, Free, locks
<1>3. PICK label : pc' = [pc EXCEPT ![Bnews] = label]
  BY BnewsMoves DEF Moves
<1>4. \A t \in Threads \ {Bnews} : pc'[t] = pc[t]
  BY <1>3, Numbers, OnlyOneMoves
<1>5. Bnews # Main
  BY NAssumption DEF Bnews, Main
<1> QED
  BY <1>1, <1>2, <1>4, <1>5, Numbers, StagesKept

\* A step of one commentator seen from the others.
LEMMA StrideMoves ==
  ASSUME Births, Rounds, NEW c \in Commentators, Strides(c)
  PROVE  /\ pc'[Moderator] = pc[Moderator]
         /\ \A d \in Commentators \ {c} : pc'[d] = pc[d] /\ round'[d] = round[d]
         /\ round'[Moderator] = round[Moderator]
         /\ \A d \in Commentators \ {c} : InRound(d)' <=> InRound(d)
<1>1. \E label : pc' = [pc EXCEPT ![c] = label]
  BY DEF Strides, EndRound, Go
<1>2. round' = round \/ round' = [round EXCEPT ![c] = @ + 1]
  BY DEF Strides, EndRound
<1>3. /\ pc'[Moderator] = pc[Moderator]
      /\ \A d \in Commentators \ {c} : pc'[d] = pc[d]
  BY <1>1, Numbers, OnlyOneMoves
<1>4. /\ round'[Moderator] = round[Moderator]
      /\ \A d \in Commentators \ {c} : round'[d] = round[d]
  BY <1>2, NAssumption DEF Rounds, Moderator, Commentators
<1>5. \A d \in Commentators \ {c} : InRound(d)' <=> InRound(d)
  BY <1>4 DEF InRound
<1> QED
  BY ONLY <1>3, <1>4, <1>5

LEMMA AnsweringStride ==
  ASSUME Births, Rounds, LineInv, Answering, NEW c \in Commentators, Strides(c)
  PROVE  Answering'
<1>1. /\ pc'[Moderator] = "asking"
      /\ \A d \in Commentators \ {c} : pc'[d] = pc[d] /\ (InRound(d)' <=> InRound(d))
      /\ round'[Moderator] = round[Moderator]
  BY StrideMoves DEF Answering
<1>2. pc[c] \in {"unborn", "hear", "heard", "answer", "enqueue", "fill"} /\ "mutex3" \in locked
  BY DEF Answering
<1>3. \/ /\ UNCHANGED <<round, queue, pos>>
         /\ \/ Go(c, "hear", "heard") /\ Take("question_mutex")
            \/ Go(c, "heard", "answer") /\ Free("question_mutex")
            \/ Go(c, "answer", "enqueue") /\ locked' = locked
      \/ /\ Go(c, "enqueue", "fill") /\ locked' = locked /\ round' = round
         /\ pos' = [pos EXCEPT ![c] = position(queue)]
         /\ queue' = enqueue(queue, c)
  BY ONLY <1>2, Strides(c) DEF Strides, Go, EndRound, Take
<1>4. \A d \in Commentators : InRound(d)'
  BY <1>1, <1>3 DEF Answering, InRound
<1>5. pc'[c] \in {"heard", "answer", "enqueue", "fill"}
  BY <1>3, Numbers DEF Births, Go
<1>6. "mutex1" \in locked' /\ "mutex3" \in locked'
  BY <1>3 DEF Answering, Take, Free
<1>7. "question_mutex" \in locked' => \E d \in Commentators : pc'[d] = "heard"
  <2>1. CASE Go(c, "hear", "heard")
    BY <2>1, Numbers DEF Births, Go
  <2>2. CASE Free("question_mutex")
    BY <2>2 DEF Free
  <2>3. CASE pc[c] # "heard" /\ locked' = locked
    BY <1>1, <2>3 DEF Answering
  <2> QED
    BY ONLY <1>3, <2>1, <2>2, <2>3 DEF Go
<1>8. \A k \in Places' : pos'[Line'[k]] = k - 1
  <2>1. CASE UNCHANGED <<queue, pos>>
    <3>1. Line' = Line /\ Places' = Places
      BY <2>1 DEF Line, Places
    <3> QED
      BY <2>1, <3>1 DEF Answering
  <2>2. CASE /\ Go(c, "enqueue", "fill")
             /\ pos' = [pos EXCEPT ![c] = position(queue)]
             /\ queue' = enqueue(queue, c)
    <3>1. ~Waits(c)
      BY <2>2 DEF Go, Waits
    <3>2. getSize(queue) \in 0 .. N - 1 /\ \A k \in Places : Line[k] # c
      BY <3>1, PlaceLeft
    <3>3. /\ \A k \in Places' : k \notin Places => Line'[k] = c
          /\ \A k \in Places : Line'[k] = Line[k]
      BY <2>2, <3>2, LineGrows
    <3>4. getSize(queue)' = getSize(queue) + 1
      BY <2>2 DEF enqueue, getSize, LineInv, WellFormed
    <3>5. \A k \in Places' : k \notin Places => k = getSize(queue) + 1
      BY <3>2, <3>4 DEF Places
    <3>6. pos'[c] = getSize(queue) /\ \A d \in Commentators \ {c} : pos'[d] = pos[d]
      BY <2>2 DEF LineInv, position, getSize
    <3>7. \A k \in Places : Line[k] \in Commentators \ {c} /\ pos[Line[k]] = k - 1
      BY <3>2 DEF LineInv, Answering
    <3> QED
      BY ONLY <3>2, <3>3, <3>5, <3>6, <3>7
  <2> QED
    BY ONLY <1>3, <2>1, <2>2
<1> QED
  BY <1>1, <1>4, <1>5, <1>6, <1>7, <1>8 DEF Answering

LEMMA CountedStride ==
  ASSUME Births, Rounds, Counted, NEW c \in Commentators, Strides(c), currentSize' = currentSize
  PROVE  Counted'
<1>1. /\ pc'[Moderator] = pc[Moderator] /\ round'[Moderator] = round[Moderator]
      /\ \A d \in Commentators \ {c} : /\ pc'[d] = pc[d] /\ round'[d] = round[d]
                                       /\ InRound(d)' <=> InRound(d)
  BY StrideMoves
<1>2. \A d \in Commentators \ {c} : /\ Waits(d)' <=> Waits(d)
                                    /\ HasFloor(d)' <=> HasFloor(d)
  BY <1>1 DEF Waits, HasFloor
<1>3. c \in Threads
  BY Numbers
<1>4. PICK d \in Commentators :
        /\ \A e \in Commentators : pos[e] = N - 1 <=> e = d
        /\ Unopened(d) \/ Unclosed(d) \/ Speaking(d)
  BY DEF Counted
<1>5. pc[c] # "enqueue"
  BY <1>4 DEF Unopened, Unclosed, Speaking, Waits, HasFloor
<1>6. pos' = pos
  BY <1>5 DEF Strides, Go, EndRound
<1>7. ASSUME Unopened(d)' \/ Unclosed(d)' \/ Speaking(d)' PROVE Counted'
  BY <1>1, <1>4, <1>6, <1>7 DEF Counted
<1>8. pc[c] = "last" /\ Go(c, "last", IF pos[c] = currentSize - 1 THEN "open" ELSE "gate")
        => Go(c, "last", IF c = d THEN "open" ELSE "gate")
  BY <1>4 DEF Counted
<1>9. CASE Unopened(d)
  <2>1. CASE c = d
    <3>1. \/ /\ pc'[d] \in {"filled", "last", "open"} /\ round' = round
             /\ "mutex1" \in locked' /\ "question_mutex" \notin locked'
          \/ /\ pc'[d] = "close" /\ round' = round /\ "question_mutex" \notin locked'
      BY <1>3, <1>8, <1>9, <2>1 DEF Unopened, Strides, Go, Take, Free, EndRound, Births
    <3>2. Unopened(d)' \/ Unclosed(d)'
      BY <1>1, <1>9, <2>1, <3>1 DEF Unopened, Unclosed, InRound
    <3> QED
      BY <1>7, <3>2
  <2>2. CASE c # d
    <3>1. /\ pc'[c] \in {"filled", "last", "gate"} /\ round' = round
          /\ "mutex1" \in locked' /\ "question_mutex" \notin locked'
      BY <1>3, <1>8, <1>9, <2>2 DEF Unopened, Strides, Go, Take, Free, EndRound, Births
    <3>2. Unopened(d)'
      BY <1>1, <1>9, <2>2, <3>1 DEF Unopened, InRound
    <3> QED
      BY <1>7, <3>2
  <2> QED
    BY <2>1, <2>2
<1>10. CASE Unclosed(d)
  <2>1. CASE c = d
    <3>1. pc'[d] = "gate" /\ round' = round /\ "question_mutex" \in locked'
      BY <1>3, <1>10, <2>1 DEF Unclosed, Strides, Go, Take, EndRound, Births
    <3>2. Speaking(d)'
      BY <1>1, <1>10, <2>1, <3>1 DEF Unclosed, Speaking, InRound, Waits, HasFloor
    <3> QED
      BY <1>7, <3>2
  <2>2. CASE c # d
    <3>1. ~Quiet
      <4>1. ~Blocked(d)
        BY <1>10, Numbers, Awake DEF Unclosed
      <4> QED
        BY <4>1, Numbers DEF Quiet
    <3>2. /\ pc'[c] \in {"filled", "last", "gate", "gated", "turn", "mic", "slice", "speaking"}
          /\ round' = round /\ "question_mutex" \notin locked'
      BY <1>3, <1>8, <1>10, <2>2, <3>1 DEF Unclosed, Strides, Go, Take, Free, EndRound, Births
    <3>3. Unclosed(d)'
      BY <1>1, <1>10, <2>2, <3>2 DEF Unclosed, InRound
    <3> QED
      BY <1>7, <3>3
  <2> QED
    BY <2>1, <2>2
<1>11. CASE Speaking(d)
  <2>1. /\ "question_mutex" \in locked'
        /\ c = d => pc'[c] \notin {"fill", "filled", "last"}
        /\ \/ InRound(c)' /\ (Waits(c)' \/ HasFloor(c)') /\ pc'[c] \notin {"open", "close"}
           \/ round'[c] = round[Moderator] + 1 /\ pc'[c] \in {"hear", "done"}
    <3>1. CASE EndRound(c, "spoken") /\ locked' = locked
      <4>1. pc[c] = "spoken" /\ pc'[c] \in {"hear", "done"}
        BY <1>3, <3>1 DEF EndRound, Go, Births
      <4>2. round'[c] = round[c] + 1 /\ round[c] = round[Moderator]
        BY <1>11, <3>1, <4>1, NAssumption DEF Speaking, InRound, EndRound, Rounds, Moderator, Commentators
      <4> QED
        BY <1>11, <3>1, <4>1, <4>2 DEF Speaking
    <3>2. CASE pc[c] # "spoken"
      <4> round' = round
        BY <3>2 DEF Strides, EndRound, Go
      <4>1. /\ "question_mutex" \in locked'
            /\ c = d => pc'[c] \notin {"fill", "filled", "last"}
            /\ pc'[c] \in {"filled", "last", "gate", "gated", "turn", "mic", "slice", "speaking",
                           "pause", "mute", "micu", "spoken"}
            /\ pc[c] \notin {"hear", "done"}
        BY <1>3, <1>8, <1>11, <3>2 DEF Speaking, Waits, HasFloor, Strides, Go, Take, Free, EndRound, Births
      <4>2. InRound(c)'
        BY <1>11, <3>2, <4>1 DEF Speaking, InRound
      <4> QED
        BY <4>1, <4>2 DEF Waits, HasFloor
    <3> QED
      BY <3>1, <3>2 DEF Strides, Go
  <2>2. Speaking(d)'
    BY <1>1, <1>2, <1>11, <2>1 DEF Speaking
  <2> QED
    BY <1>7, <2>2
<1> QED
  BY <1>4, <1>9, <1>10, <1>11

LEMMA CommentatorStages ==
  ASSUME Punctual, Births, Rounds, LineInv, Stages, NEW c \in Commentators, commmentator(c)
  PROVE  Stages'
<1>1. pc[c] \notin {"unborn", "done"}
  BY CommentatorCounts
<1>2. CASE Unasked
  <2>1. pc[c] = "hear" /\ "question_mutex" \in locked
    BY <1>1, <1>2 DEF Unasked
  <2>2. Strides(c)
    BY <2>1, EveryStride
  <2> QED
    BY <2>1, <2>2 DEF Strides, Go, Take, EndRound
<1>3. CASE Answering
  <2>1. Strides(c)
    BY <1>3, EveryStride DEF Answering
  <2> QED
    BY <1>3, <2>1, AnsweringStride DEF Stages
<1>4. CASE Counted
  <2>1. pc[c] \notin {"silent", "silentu"}
    BY <1>4 DEF Counted, Unopened, Unclosed, Speaking, Waits, HasFloor
  <2>2. Strides(c) /\ currentSize' = currentSize
    BY <2>1, EveryStride
  <2> QED
    BY <1>4, <2>2, CountedStride DEF Stages
<1> QED
  BY <1>1, <1>2, <1>3, <1>4, NobodyThere

\* When the sleep of the moderator ends, everybody is in the line.
LEMMA AllAnswered ==
  ASSUME Punctual, Births, Lives, Answering, MayWake(Moderator)
  PROVE  /\ "question_mutex" \notin locked
         /\ \A c \in Commentators : pc[c] = "fill"
<1>1. \A t \in Threads : Blocked(t)
  BY DEF MayWake, Quiet, Punctual
<1>2. pc[Main] \in {"join", "done"}
  <2>1. pc[Main] # "nap"
    BY Numbers DEF MayWake, Punctual
  <2> QED
    BY <1>1, <2>1, Awake, Numbers DEF Lives
<1>3. \A c \in Commentators : pc[c] # "unborn"
  BY <1>2, NAssumption DEF Lives, Commentators, Moderator, Bnews
<1>4. \A c \in Commentators : /\ pc[c] \notin {"heard", "answer", "enqueue"}
                              /\ pc[c] = "hear" => "question_mutex" \in locked
  BY <1>1, Awake, Numbers
<1>5. "question_mutex" \notin locked
  BY <1>4 DEF Answering
<1> QED
  BY <1>3, <1>4, <1>5 DEF Answering

\* Then the line is full, and one is the last in it.
LEMMA LineFull ==
  ASSUME LineInv, Standing, Answering, \A c \in Commentators : pc[c] = "fill"
  PROVE  /\ getSize(queue) = N
         /\ \E d \in Commentators : \A c \in Commentators : pos[c] = N - 1 <=> c = d
<1>1. \A c \in Commentators : \E k \in Places : Line[k] = c
  BY DEF Standing, Stands, Waits, Called, Answering
<1>2. getSize(queue) \in 0 .. N
  BY NAssumption DEF LineInv, WellFormed, getSize
<1>3. getSize(queue) = N
  <2> SUFFICES ASSUME getSize(queue) < N PROVE FALSE
    BY <1>2, NAssumption
  <2>1. IsFiniteSet(Commentators) /\ Cardinality(Commentators) = N
    <3>1. N \in Int /\ 1 <= N /\ N - 1 + 1 = N
      BY NAssumption
    <3> QED
      BY ONLY <3>1, FS_Interval DEF Commentators
  <2>2. IsFiniteSet(Places) /\ Cardinality(Places) = getSize(queue)
    BY <1>2, FS_Interval DEF Places
  <2> DEFINE place == [c \in Commentators |-> CHOOSE k \in Places : Line[k] = c]
  <2>3. \A c \in Commentators : place[c] \in Places /\ Line[place[c]] = c
    BY <1>1
  <2>4. place \in [Commentators -> Places]
    BY <2>3
  <2> HIDE DEF place
  <2>5. PICK b, c \in Commentators : b # c /\ place[b] = place[c]
    BY <2>1, <2>2, <2>4, FS_PigeonHole
  <2> QED
    BY <2>3, <2>5
<1>4. N \in Places /\ Line[N] \in Commentators
  BY <1>3, NAssumption DEF Places, LineInv
<1>5. ASSUME NEW c \in Commentators PROVE pos[c] = N - 1 <=> c = Line[N]
  <2>1. PICK k \in Places : Line[k] = c
    BY <1>1
  <2>2. pos[c] = k - 1 /\ pos[Line[N]] = N - 1 /\ k \in Nat
    BY <1>4, <2>1 DEF Answering, Places
  <2> QED
    BY <2>1, <2>2, NAssumption
<1> QED
  BY <1>3, <1>4, <1>5

\* When the line is empty and nobody has the floor, all are through.
LEMMA AllThrough ==
  ASSUME Births, Rounds, FloorInv, Lives, Standing, Counted, pc[Moderator] = "get",
         isEmpty(queue), NEW c \in Commentators
  PROVE  /\ round[c] = round[Moderator] + 1 /\ pc[c] \in {"hear", "done"}
         /\ "question_mutex" \in locked
         /\ pc[c] = "hear" => round[Moderator] + 1 < Q
         /\ pc[c] = "done" => round[Moderator] + 1 = Q
<1>1. \A d \in Commentators : ~Waits(d)
  BY DEF Standing, Stands, Called, Places, getSize, isEmpty
<1>2. \A d \in Commentators : ~HasFloor(d)
  BY DEF FloorInv, Token
<1>3. PICK d \in Commentators : Speaking(d)
  BY <1>1 DEF Counted, Unopened, Unclosed, Waits
<1>4. /\ round[c] = round[Moderator] + 1 /\ pc[c] \in {"hear", "done"}
      /\ "question_mutex" \in locked
  BY <1>1, <1>2, <1>3 DEF Speaking
<1> QED
  BY <1>4 DEF Rounds, Lives

LEMMA ModeratorStages ==
  ASSUME Punctual, ConferenceInv, Lives, Standing, Stages,
         moderator \/ ask_question \/ get_answers
  PROVE  Stages'
<1>0. Births /\ Rounds /\ FloorInv /\ LineInv
  BY DEF ConferenceInv
<1>1. \A c \in Commentators : pc'[c] = pc[c]
  <2>1. PICK label : pc' = [pc EXCEPT ![Moderator] = label]
    BY ModeratorMoves DEF Moves
  <2> QED
    BY <1>0, <2>1, Numbers, OnlyOneMoves
<1>2. pc'[Main] = pc[Main]
  <2>1. PICK label : pc' = [pc EXCEPT ![Moderator] = label]
    BY ModeratorMoves DEF Moves
  <2> QED
    BY <1>0, <2>1, Numbers, OnlyOneMoves
<1>3. ASSUME NEW from, NEW to, Go(Moderator, from, to) PROVE pc[Moderator] = from /\ pc'[Moderator] = to
  BY <1>0, <1>3, ModeratorMovesTo DEF Go
<1>4. CASE moderator
  <2>1. CASE lock(Moderator, "start", "question_mutex", "start2")
    <3>1. /\ pc[Moderator] = "start" /\ pc'[Moderator] = "start2"
          /\ locked' = locked \cup {"question_mutex"} /\ queue' = queue
      BY <1>3, <2>1 DEF lock, Take, shared
    <3>2. Beginning
      BY <3>1 DEF Stages, Unasked, Answering, Counted, Ended, Asked, Closing
    <3>3. Beginning'
      BY <1>2, <3>1, <3>2 DEF Beginning, Opening, Places
    <3> QED
      BY <3>3 DEF Stages
  <2>2. CASE lock(Moderator, "start2", "mutex2", NextQuestion(0))
    <3>1. /\ pc[Moderator] = "start2" /\ pc'[Moderator] = NextQuestion(0)
          /\ locked' = locked \cup {"mutex2"} /\ UNCHANGED <<queue, round>>
      BY <1>3, <2>2 DEF lock, Take, shared, locals
    <3>2. Beginning
      BY <3>1 DEF Stages, Unasked, Answering, Counted, Ended, Asked, Closing
    <3>3. \A c \in Commentators : pc[c] = "unborn"
      BY <1>0, <3>2, NAssumption DEF Births, Beginning, Moderator, Bnews, Commentators
    <3>4. \A c \in Commentators : InRound(c)'
      BY <1>0, <3>1, <3>3 DEF InRound, Rounds
    <3>5. Unasked' \/ Ended'
      BY <1>1, <3>1, <3>2, <3>3, <3>4, QAssumption
      DEF Beginning, Unasked, Ended, Closing, NextQuestion, Places
    <3> QED
      BY <3>5 DEF Stages
  <2>3. CASE Go(Moderator, "stop", "done")
    <3>1. pc[Moderator] = "stop" /\ pc'[Moderator] = "done"
      BY <1>3, <2>3
    <3>2. Ended
      BY <3>1 DEF Stages, Beginning, Unasked, Answering, Counted, Asked, Opening
    <3>3. Ended'
      BY <1>1, <3>1, <3>2 DEF Ended, Closing
    <3> QED
      BY <3>3 DEF Stages
  <2> QED
    BY ONLY <1>4, <2>1, <2>2, <2>3 DEF moderator
<1>5. CASE ask_question
  <2>1. ASSUME NEW from \in {"ask", "ask_bnews", "ask_m3"},
               NEW to \in {"ask_bnews", "ask_m3", "ask_open"},
               NEW m \in {"mutex1", "bnews_mutex", "mutex3"},
               from = "ask" => m = "mutex1", to = "ask_open" => m = "mutex3",
               lock(Moderator, from, m, to)
        PROVE  Stages'
    <3>1. /\ pc[Moderator] = from /\ pc'[Moderator] = to
          /\ locked' = locked \cup {m} /\ UNCHANGED <<queue, round>>
      BY <1>3, <2>1 DEF lock, Take, shared, locals
    <3>2. Unasked
      BY <3>1 DEF Stages, Beginning, Answering, Counted, Ended, Asked, Opening, Closing
    <3>3. Unasked'
      BY <1>1, <2>1, <3>1, <3>2 DEF Unasked, InRound, Places
    <3> QED
      BY <3>3 DEF Stages
  <2>2. CASE unlock(Moderator, "ask_open", "question_mutex", "asking")
    <3>1. /\ pc[Moderator] = "ask_open" /\ pc'[Moderator] = "asking"
          /\ locked' = locked \ {"question_mutex"} /\ UNCHANGED <<queue, round>>
      BY <1>3, <2>2 DEF unlock, Free, shared, locals
    <3>2. Unasked
      BY <3>1 DEF Stages, Beginning, Answering, Counted, Ended, Asked, Opening, Closing
    <3>3. Answering'
      BY <1>1, <3>1, <3>2 DEF Unasked, Answering, InRound, Places
    <3> QED
      BY <3>3 DEF Stages
  <2>3. CASE CountAnswers
    <3>1. /\ pc[Moderator] = "asking" /\ pc'[Moderator] = "ask_m3u" /\ MayWake(Moderator)
          /\ UNCHANGED <<locked, round, pos>> /\ currentSize' = getSize(queue)
      BY <1>3, <2>3 DEF CountAnswers, locks, locals
    <3>2. Answering
      BY <3>1 DEF Stages, Beginning, Unasked, Counted, Ended, Opening, Closing
    <3>3. "question_mutex" \notin locked /\ \A c \in Commentators : pc[c] = "fill"
      BY <1>0, <3>1, <3>2, AllAnswered
    <3>4. currentSize' = N
          /\ \E d \in Commentators : \A c \in Commentators : pos[c] = N - 1 <=> c = d
      BY <1>0, <3>1, <3>2, <3>3, LineFull
    <3>5. ASSUME NEW d \in Commentators PROVE Unopened(d)'
      BY <1>1, <3>1, <3>2, <3>3 DEF Unopened, Answering, InRound
    <3>6. Counted'
      BY <3>1, <3>4, <3>5 DEF Counted, Asked
    <3> QED
      BY <3>6 DEF Stages
  <2>4. ASSUME NEW from \in {"ask_m3u", "ask_gateu", "ask_bnewsu"},
               NEW to \in {"ask_gate", "ask_bnewsu", "get"},
               NEW m \in {"mutex3", "mutex1", "bnews_mutex"},
               from = "ask_m3u" => to = "ask_gate" /\ m = "mutex3",
               unlock(Moderator, from, m, to)
        PROVE  Stages'
    <3>1. /\ pc[Moderator] = from /\ pc'[Moderator] = to
          /\ locked' = locked \ {m} /\ UNCHANGED <<round, pos, currentSize>>
      BY <1>3, <2>4 DEF unlock, Free, shared, locals
    <3>2. Counted
      BY <3>1 DEF Stages, Beginning, Unasked, Answering, Ended, Opening, Closing
    <3>3. Counted'
      BY <1>1, <2>4, <3>1, <3>2, CountedKept DEF Asked
    <3> QED
      BY <3>3 DEF Stages
  <2>5. CASE lock(Moderator, "ask_gate", "mutex1", "ask_gateu")
    <3>1. /\ pc[Moderator] = "ask_gate" /\ pc'[Moderator] = "ask_gateu" /\ "mutex1" \notin locked
          /\ locked' = locked \cup {"mutex1"} /\ UNCHANGED <<round, pos, currentSize>>
      BY <1>3, <2>5 DEF lock, Take, shared, locals
    <3>2. Counted
      BY <3>1 DEF Stages, Beginning, Unasked, Answering, Ended, Opening, Closing
    <3>3. Counted'
      BY <1>1, <3>1, <3>2, CountedKept DEF Asked
    <3> QED
      BY <3>3 DEF Stages
  <2> QED
    BY ONLY <1>5, <2>1, <2>2, <2>3, <2>4, <2>5 DEF ask_question
<1>6. CASE get_answers
  <2>0. pc[Moderator] \in {"get", "get_check", "get_deq", "get_turn", "get_m2", "get_done"}
    BY <1>6 DEF get_answers, CallCommentator, AwaitSpeech, Go, unlock
  <2>1. Counted
    BY <2>0 DEF Stages, Beginning, Unasked, Answering, Ended, Opening, Closing
  <2>2. ASSUME pc[Moderator] = "get", isEmpty(queue), UNCHANGED <<locked, queue>>,
               pc' = [pc EXCEPT ![Moderator] = NextQuestion(round[Moderator] + 1)],
               round' = [round EXCEPT ![Moderator] = @ + 1]
        PROVE  Stages'
    <3>1. \A c \in Commentators :
            /\ round[c] = round[Moderator] + 1 /\ pc[c] \in {"hear", "done"}
            /\ "question_mutex" \in locked
            /\ pc[c] = "hear" => round[Moderator] + 1 < Q
            /\ pc[c] = "done" => round[Moderator] + 1 = Q
      BY <1>0, <2>1, <2>2, AllThrough
    <3>2. \A c \in Commentators : InRound(c)'
      BY <1>0, <2>2, <3>1, NAssumption DEF Rounds, InRound, Moderator, Commentators
    <3>3. pc'[Moderator] = NextQuestion(round[Moderator] + 1)
      BY <1>0, <2>2, ModeratorMovesTo
    <3>4. Places' = {} /\ 1 \in Commentators
      BY <2>2, NAssumption DEF Places, getSize, isEmpty, Commentators
    <3>5. CASE round[Moderator] + 1 < Q
      <4>1. \A c \in Commentators : pc[c] = "hear" /\ "question_mutex" \in locked
        BY <1>0, <3>1, <3>5, QAssumption, NAssumption DEF Rounds, Moderator
      <4>2. Unasked'
        BY <1>1, <2>2, <3>2, <3>3, <3>4, <3>5, <4>1 DEF Unasked, NextQuestion
      <4> QED
        BY <4>2 DEF Stages
    <3>6. CASE ~(round[Moderator] + 1 < Q)
      <4>1. Ended'
        BY <1>1, <3>1, <3>3, <3>6 DEF Ended, Closing, NextQuestion
      <4> QED
        BY <4>1 DEF Stages
    <3> QED
      BY <3>5, <3>6
  <2>3. ASSUME NEW from, NEW to, Go(Moderator, from, to),
               to \in Asked \ {"asking"},
               "question_mutex" \in locked' <=> "question_mutex" \in locked,
               UNCHANGED <<round, pos, currentSize>>
        PROVE  Stages'
    <3>1. pc'[Moderator] = to
      BY <1>3, <2>3
    <3>2. Counted'
      BY <1>1, <2>0, <2>1, <2>3, <3>1, CountedKept
    <3> QED
      BY <3>2 DEF Stages
  <2>4. CASE CallCommentator
    BY <2>3, <2>4 DEF CallCommentator, Asked, shared, locals
  <2>5. CASE AwaitSpeech
    BY <2>3, <2>5 DEF AwaitSpeech, Asked, shared, locals
  <2>6. CASE unlock(Moderator, "get_m2", "mutex2", "get_done")
    BY <2>3, <2>6 DEF unlock, Free, Asked, shared, locals
  <2>7. CASE Go(Moderator, "get_check", IF isEmpty(queue) THEN "stray" ELSE "get_deq")
             /\ UNCHANGED <<locks, shared, locals>>
    <3>1. ~isEmpty(queue)
      BY <1>0, <2>7 DEF LineInv, Turned, Go, isEmpty, getSize
    <3> QED
      BY <2>3, <2>7, <3>1 DEF Asked, locks, shared, locals
  <2>8. CASE Go(Moderator, "get_deq", "get_turn") /\ UNCHANGED <<locks, currentSize, round, pos>>
    BY <2>3, <2>8 DEF Asked, locks
  <2>9. CASE /\ pc[Moderator] = "get" /\ pc' = [pc EXCEPT ![Moderator] = "get_check"]
             /\ UNCHANGED <<locks, shared, round, pos>>
    BY <2>3, <2>9 DEF Go, Asked, locks, shared
  <2> QED
    BY ONLY <1>6, <2>2, <2>4, <2>5, <2>6, <2>7, <2>8, <2>9 DEF get_answers, locks, shared
<1> QED
  BY <1>4, <1>5, <1>6

LEMMA StagesStep ==
  ASSUME Punctual, ConferenceInv, Lives, Standing, Stages, [Next]_vars
  PROVE  Stages'
<1>0. Births /\ Rounds /\ LineInv
  BY DEF ConferenceInv
<1>1. CASE main \/ join_all
  BY <1>0, <1>1, MainStages
<1>2. CASE moderator \/ ask_question \/ get_answers
  BY <1>2, ModeratorStages
<1>3. CASE bnews
  BY <1>0, <1>3, BnewsStages
<1>4. ASSUME NEW c \in Commentators, commmentator(c) PROVE Stages'
  BY <1>0, <1>4, CommentatorStages
<1>5. CASE UNCHANGED vars
  BY <1>5, StagesKept DEF vars, locks, shared, locals
<1> QED
  BY ONLY [Next]_vars, <1>1, <1>2, <1>3, <1>4, <1>5 DEF Next

LEMMA PunctualInit == Init => Lives /\ Standing /\ Stages
<1> SUFFICES ASSUME Init PROVE Lives /\ Standing /\ Stages
  OBVIOUS
<1>1. \A t \in Threads : pc[t] = IF t = Main THEN "create_moderator" ELSE "unborn"
  BY DEF Init
<1>2. pc[Main] = "create_moderator" /\ \A t \in Threads \ {Main} : pc[t] = "unborn"
  BY <1>1, Numbers
<1>3. (\A c \in Commentators : pc[c] = "unborn") /\ pc[Moderator] = "unborn"
  BY <1>2, Numbers
<1>4. thread_count = 0 /\ locked = {} /\ Places = {}
  BY DEF Init, createQueue, Places, getSize
<1>5. Lives
  BY <1>2, <1>3, <1>4 DEF Lives, Moderator
<1>6. Standing
  BY <1>3 DEF Standing, Waits
<1>7. Beginning
  BY <1>2, <1>3, <1>4 DEF Beginning, Opening
<1> QED
  BY <1>5, <1>6, <1>7 DEF Stages

LEMMA PunctualHolds ==
  ASSUME Punctual
  PROVE  Spec => [](ConferenceInv /\ Lives /\ Standing /\ Stages)
<1>1. ConferenceInv /\ Lives /\ Standing /\ Stages /\ [Next]_vars
        => Lives' /\ Standing' /\ Stages'
  BY LivesStep, StandingStep, StagesStep DEF ConferenceInv
<1> QED
  BY <1>1, ConferenceInit, ConferenceStep, PunctualInit, PTL DEF Spec

\* If sleeps last and all answer (pthread_sleep, -p), no commentator gets a
\* question ahead: whoever is through with its speech finds question_mutex
\* locked until the moderator asks again (wait_question, main.c:122, 163).
THEOREM HeardTheorem ==
  ASSUME Punctual
  PROVE  Spec => []HeardWhatWasAsked
<1>1. Births /\ Rounds /\ Stages => HeardWhatWasAsked
  <2> SUFFICES ASSUME Births, Rounds, Stages, NEW c \in Commentators,
                      \/ pc[c] \in {"heard", "answer", "enqueue", "silent", "silentu"}
                      \/ Waits(c) \/ HasFloor(c)
               PROVE  round[c] < round[Moderator] + IF pc[Moderator] \in Asked THEN 1 ELSE 0
    BY DEF HeardWhatWasAsked
  <2>1. pc[c] \notin {"unborn", "hear", "done"}
    BY DEF Waits, HasFloor
  <2>2. Answering \/ Counted
    BY <2>1, NobodyThere DEF Unasked
  <2>3. InRound(c) /\ pc[Moderator] \in Asked
    <3>1. CASE Answering
      BY <3>1 DEF Answering, Asked
    <3>2. CASE Counted
      BY <2>1, <3>2 DEF Counted, Unopened, Unclosed, Speaking
    <3> QED
      BY <2>2, <3>1, <3>2
  <2>4. round[c] \in Nat
    BY NAssumption DEF Rounds, Moderator, Commentators
  <2> QED
    BY <2>3, <2>4 DEF InRound
<1> QED
  BY <1>1, PunctualHolds, PTL DEF ConferenceInv

\* Under the same condition the count taken after the sleep (ask_question,
\* main.c:92) is complete: everybody is in the line, and the one whose position
\* is currentSize - 1 is the last.
THEOREM CountTheorem ==
  ASSUME Punctual
  PROVE  Spec => []CountIsComplete
<1>1. LineInv /\ Stages => CountIsComplete
  <2> SUFFICES ASSUME LineInv, Stages, pc[Moderator] \in {"ask_m3u", "ask_gate"}, NEW c \in Commentators
               PROVE  pc[c] \notin {"heard", "answer", "enqueue"} /\ pos[c] < currentSize
    BY DEF CountIsComplete
  <2>1. Counted
    BY DEF Stages, Beginning, Unasked, Answering, Ended, Opening, Closing
  <2>2. pc[c] \notin {"heard", "answer", "enqueue"}
    BY <2>1 DEF Counted, Unopened, Unclosed, Speaking, Waits, HasFloor
  <2>3. pos[c] \in 0 .. N - 1 /\ currentSize = N
    BY <2>1 DEF LineInv, Counted
  <2> QED
    BY <2>2, <2>3, NAssumption
<1> QED
  BY <1>1, PunctualHolds, PTL DEF ConferenceInv
=============================================================================
