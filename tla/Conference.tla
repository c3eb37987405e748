----------------------------- MODULE Conference -----------------------------
(***************************************************************************)
(* prj2/main.c: a moderator asks Q questions, N commentators answer them   *)
(* in turn, and breaking news interrupt.  Every pthread_mutex_lock and     *)
(* unlock of the code is one step; between two of them a thread does only  *)
(* what it does to its own locals or to state that lock guards, and that   *)
(* belongs to the step before it.                                          *)
(*                                                                         *)
(* The mutexes are default (glibc "normal") mutexes, which the code uses   *)
(* as binary semaphores: it locks one twice in a thread to wait, and       *)
(* unlocks what another thread locked.  On that build unlock frees the     *)
(* mutex whoever calls it and does nothing to a free one.                  *)
(***************************************************************************)
EXTENDS Integers, QueueOps

CONSTANTS N,               \* -n, the commentators
          Q,               \* -q, the questions
          P,               \* -p in percent: does a commentator answer
          B,               \* -b in percent: do news break
          SpeechSlices,    \* the lengths a speech may have, in 0.1 s slices (-t)
          Timely           \* TRUE: a sleep outlasts everything awake threads can do

ASSUME NAssumption  == N \in 1 .. 4   \* mutex[4] and mutex_2[4], main.c:23
ASSUME QAssumption  == Q \in Nat
ASSUME SpeechAssumption == SpeechSlices \subseteq Nat /\ SpeechSlices # {}
ASSUME ChanceAssumption == P \in Nat /\ B \in Nat
ASSUME TimelyAssumption == Timely \in BOOLEAN

\* A thread is the value main passes it: thread_count when it was created.
Main         == -1
Moderator    == 0
Commentators == 1 .. N
Bnews        == N + 1
Threads      == Main .. Bnews

\* What probabilityCheck may return: `rand() % 101 < p * 100`.  It can be
\* FALSE for p = 1, and is always TRUE only beyond that.
probabilityCheck(percent) == {r < percent : r \in 0 .. 100}

Mutexes == {"mutex1", "mutex2", "mutex3", "question_mutex", "bnews_mutex"}
Garbage == 0   \* what an unwritten cell of queue->list holds

VARIABLES
  pc,           \* pc[t]: where thread t is
  locked,       \* the global mutexes that are locked
  mutex,        \* the commentators c whose mutex[c-1], where c waits for its turn, is locked
  mutex_2,      \* those whose mutex_2[c-1], where c reports its end, is locked
  queue, currentSize, curr_com_id, running,   \* the other globals
  thread_count, \* util.c: the threads created so far
  round,        \* round[t]: the loop counter i of the moderator and the commentators
  idx,          \* get_answers: who has been called
  pos,          \* pos[c]: the position enqueue returned to c
  left          \* left[c]: the slices c has still to speak

locks  == <<locked, mutex, mutex_2>>
shared == <<queue, currentSize, curr_com_id, running>>
locals == <<thread_count, round, idx, pos, left>>
vars   == <<pc, locks, shared, locals>>

Init ==
  /\ pc = [t \in Threads |-> IF t = Main THEN "create_moderator" ELSE "unborn"]
  /\ locked = {}
  /\ mutex = Commentators /\ mutex_2 = Commentators
  /\ queue = createQueue(N, [k \in 0 .. N - 1 |-> Garbage])
  /\ currentSize = 0
  /\ curr_com_id = -1
  /\ running = TRUE
  /\ thread_count = 0
  /\ round = [t \in Moderator .. N |-> 0]
  /\ idx = 0
  /\ pos = [c \in Commentators |-> 0]
  /\ left = [c \in Commentators |-> 0]

-----------------------------------------------------------------------------
Go(t, from, to) == pc[t] = from /\ pc' = [pc EXCEPT ![t] = to]

Take(m) == m \notin locked /\ locked' = locked \cup {m}
Free(m) == locked' = locked \ {m}

\* The steps that do nothing but lock or unlock one of the global mutexes.
lock(t, from, m, to) ==
  Go(t, from, to) /\ Take(m) /\ UNCHANGED <<mutex, mutex_2, shared, locals>>
unlock(t, from, m, to) ==
  Go(t, from, to) /\ Free(m) /\ UNCHANGED <<mutex, mutex_2, shared, locals>>

-----------------------------------------------------------------------------
(* Time.  A sleeping thread waits at one of the labels in Asleep; the code *)
(* hopes that the others get done meanwhile what there is to do.  Timely   *)
(* is that hope: no sleep ends while an awake thread can take a step, and  *)
(* main's 0.1 s end before the moderator's 0.5 s.  Without it a sleep may  *)
(* end at once, which is all that pthread_cond_timedwait guarantees.       *)

Asleep == {"nap", "asking", "speaking", "airing", "no_news"}

\* The global mutex that a thread at a label needs in order to go on.
Awaits == [start |-> "question_mutex", start2 |-> "mutex2",
           ask |-> "mutex1", ask_bnews |-> "bnews_mutex", ask_m3 |-> "mutex3",
           ask_gate |-> "mutex1",
           hear |-> "question_mutex", fill |-> "mutex3", close |-> "question_mutex",
           gate |-> "mutex1", silent |-> "mutex1", mic |-> "mutex2",
           slice |-> "bnews_mutex", news |-> "bnews_mutex"]

Blocked(t) ==
  \/ pc[t] \in {"unborn", "done", "stray"} \cup Asleep
  \/ pc[t] \in DOMAIN Awaits /\ Awaits[pc[t]] \in locked
  \/ pc[t] = "get_done" /\ idx \in mutex_2
  \/ pc[t] = "turn" /\ t \in mutex
  \/ pc[t] = "join"

Quiet == \A t \in Threads : Blocked(t)

MayWake(t) == Timely => Quiet /\ (pc[Main] = "nap" => t = Main)

-----------------------------------------------------------------------------
(* main, util.c *)

\* create_new_thread: the new thread's argument is thread_count.
create_new_thread(from, to) ==
  /\ pc[Main] = from
  /\ pc' = [pc EXCEPT ![Main] = to,
                      ![thread_count] = IF thread_count = Moderator THEN "start"
                                        ELSE IF thread_count = Bnews THEN "watch"
                                        ELSE IF Q > 0 THEN "hear" ELSE "done"]
  /\ thread_count' = thread_count + 1
  /\ UNCHANGED <<locks, shared, round, idx, pos, left>>

\* main from its first thread to its last; join_all then waits for all.
main ==
  \/ create_new_thread("create_moderator", "nap")
  \/ /\ Go(Main, "nap", "create") /\ MayWake(Main)
     /\ UNCHANGED <<locks, shared, locals>>
  \/ create_new_thread("create", IF thread_count = Bnews THEN "join" ELSE "create")

join_all ==
  /\ Go(Main, "join", "done")
  /\ \A t \in Threads \ {Main} : pc[t] = "done"
  /\ UNCHANGED <<locks, shared, locals>>

-----------------------------------------------------------------------------
(* The moderator *)

\* `while(!isEmpty(queue))` found the queue empty: the next question, or the end.
NextQuestion(i) == IF i < Q THEN "ask" ELSE "stop"

moderator ==
  \/ lock(Moderator, "start", "question_mutex", "start2")
  \/ lock(Moderator, "start2", "mutex2", NextQuestion(0))
  \/ /\ Go(Moderator, "stop", "done")
     /\ running' = FALSE
     /\ UNCHANGED <<locks, queue, currentSize, curr_com_id, locals>>

\* Mutant: the sleep may end before the answers are in.
CountAnswers_Hasty ==
  /\ Go(Moderator, "asking", "ask_m3u")
  /\ currentSize' = getSize(queue)
  /\ UNCHANGED <<locks, queue, curr_com_id, running, locals>>

\* The end of the 0.5 s: currentSize = getSize(queue).
CountAnswers ==
  /\ Go(Moderator, "asking", "ask_m3u") /\ MayWake(Moderator)
  /\ currentSize' = getSize(queue)
  /\ UNCHANGED <<locks, queue, curr_com_id, running, locals>>

\* The question is out from the unlock of question_mutex on; then the
\* moderator sleeps, counts the answers, and waits at mutex1, which it holds
\* itself, for the last of those who answered to unlock it.
ask_question ==
  \/ lock(Moderator, "ask", "mutex1", "ask_bnews")
  \/ lock(Moderator, "ask_bnews", "bnews_mutex", "ask_m3")
  \/ lock(Moderator, "ask_m3", "mutex3", "ask_open")
  \/ unlock(Moderator, "ask_open", "question_mutex", "asking")
  \/ CountAnswers
  \/ unlock(Moderator, "ask_m3u", "mutex3", "ask_gate")
  \/ lock(Moderator, "ask_gate", "mutex1", "ask_gateu")
  \/ unlock(Moderator, "ask_gateu", "mutex1", "ask_bnewsu")
  \/ unlock(Moderator, "ask_bnewsu", "bnews_mutex", "get")

\* unlock(mutex[idx-1]): the one called may leave its own wait.
CallCommentator ==
  /\ Go(Moderator, "get_turn", "get_m2")
  /\ mutex' = mutex \ {idx}
  /\ UNCHANGED <<locked, mutex_2, shared, locals>>

\* Mutant: does not wait.
AwaitSpeech_Impatient ==
  /\ Go(Moderator, "get_done", "get")
  /\ mutex_2' = mutex_2 \cup {idx}
  /\ UNCHANGED <<locked, mutex, shared, locals>>

\* lock(mutex_2[idx-1]): until the one called has spoken.
AwaitSpeech ==
  /\ Go(Moderator, "get_done", "get")
  /\ idx \notin mutex_2
  /\ mutex_2' = mutex_2 \cup {idx}
  /\ UNCHANGED <<locked, mutex, shared, locals>>

\* Calls the answers one by one and waits for the end of each speech.
get_answers ==
  \/ /\ pc[Moderator] = "get"
     /\ IF isEmpty(queue)
        THEN /\ pc' = [pc EXCEPT ![Moderator] = NextQuestion(round[Moderator] + 1)]
             /\ round' = [round EXCEPT ![Moderator] = @ + 1]
        ELSE pc' = [pc EXCEPT ![Moderator] = "get_check"] /\ UNCHANGED round
     /\ UNCHANGED <<locks, shared, thread_count, idx, pos, left>>
  \/ /\ Go(Moderator, "get_check", IF isEmpty(queue) THEN "stray" ELSE "get_deq")
     /\ UNCHANGED <<locks, shared, locals>>   \* stray: dequeue returned -1, mutex[-2] follows
  \/ /\ Go(Moderator, "get_deq", "get_turn")
     /\ idx' = dequeued(queue)
     /\ queue' = dequeue(queue)
     /\ UNCHANGED <<locks, currentSize, curr_com_id, running, thread_count, round, pos, left>>
  \/ CallCommentator
  \/ unlock(Moderator, "get_m2", "mutex2", "get_done")
  \/ AwaitSpeech

-----------------------------------------------------------------------------
(* A commentator *)

wait_question(c) ==
  \/ lock(c, "hear", "question_mutex", "heard")
  \/ /\ \E answers \in probabilityCheck(P) : Go(c, "heard", IF answers THEN "answer" ELSE "silent")
     /\ Free("question_mutex")
     /\ UNCHANGED <<mutex, mutex_2, shared, locals>>

\* enqueue: the unguarded isFull check (a refused answer has pos = -1), then the insertion.
Answer(c) ==
  \/ /\ Go(c, "answer", IF isFull(queue) THEN "fill" ELSE "enqueue")
     /\ pos' = [pos EXCEPT ![c] = IF isFull(queue) THEN -1 ELSE @]
     /\ UNCHANGED <<locks, shared, thread_count, round, idx, left>>
  \/ /\ Go(c, "enqueue", "fill")
     /\ pos' = [pos EXCEPT ![c] = position(queue)]
     /\ queue' = enqueue(queue, c)
     /\ UNCHANGED <<locks, currentSize, curr_com_id, running, thread_count, round, idx, left>>

waitForQueueFill(c) ==
  \/ lock(c, "fill", "mutex3", "filled")
  \/ unlock(c, "filled", "mutex3", "last")

\* Mutant: the last one leaves the question open.
OpenGate_NotClosed(c) ==
  \/ /\ Go(c, "last", IF pos[c] = currentSize - 1 THEN "open" ELSE "gate")
     /\ UNCHANGED <<locks, shared, locals>>
  \/ unlock(c, "open", "mutex1", "gate")

\* Whoever is last in the line opens the gate and closes the question.
OpenGate(c) ==
  \/ /\ Go(c, "last", IF pos[c] = currentSize - 1 THEN "open" ELSE "gate")
     /\ UNCHANGED <<locks, shared, locals>>
  \/ unlock(c, "open", "mutex1", "close")
  \/ lock(c, "close", "question_mutex", "gate")

PassGate(c) ==
  \/ lock(c, "gate", "mutex1", "gated")
  \/ unlock(c, "gated", "mutex1", "turn")

\* Mutant: does not wait.
AwaitTurn_Impatient(c) ==
  /\ Go(c, "turn", "mic")
  /\ mutex' = mutex \cup {c}
  /\ UNCHANGED <<locked, mutex_2, shared, locals>>

AwaitTurn(c) ==
  /\ Go(c, "turn", "mic")
  /\ c \notin mutex
  /\ mutex' = mutex \cup {c}
  /\ UNCHANGED <<locked, mutex_2, shared, locals>>

\* Mutant: does not take bnews_mutex.
StartSlice_Unlocked(c) ==
  /\ Go(c, "slice", "speaking")
  /\ curr_com_id' = c
  /\ UNCHANGED <<locks, queue, currentSize, running, locals>>

StartSlice(c) ==
  /\ Go(c, "slice", "speaking")
  /\ Take("bnews_mutex")
  /\ curr_com_id' = c
  /\ UNCHANGED <<mutex, mutex_2, queue, currentSize, running, locals>>

\* Mutant: curr_com_id is not reset.
Mute_NotReset(c) == Go(c, "mute", "micu") /\ UNCHANGED <<locks, shared, locals>>

Mute(c) ==
  /\ Go(c, "mute", "micu")
  /\ curr_com_id' = -1
  /\ UNCHANGED <<locks, queue, currentSize, running, locals>>

\* One slice of speech at a time, each under bnews_mutex.
speak(c) ==
  \/ \E slices \in SpeechSlices :
       /\ Go(c, "mic", IF slices > 0 THEN "slice" ELSE "mute")
       /\ Take("mutex2")
       /\ left' = [left EXCEPT ![c] = slices]
       /\ UNCHANGED <<mutex, mutex_2, shared, thread_count, round, idx, pos>>
  \/ StartSlice(c)
  \/ /\ Go(c, "speaking", "pause") /\ MayWake(c)
     /\ left' = [left EXCEPT ![c] = @ - 1]
     /\ UNCHANGED <<locks, shared, thread_count, round, idx, pos>>
  \/ unlock(c, "pause", "bnews_mutex", IF left[c] > 0 THEN "slice" ELSE "mute")
  \/ Mute(c)
  \/ unlock(c, "micu", "mutex2", "spoken")

\* The end of one iteration: back to wait_question, or out of the loop.
EndRound(c, from) ==
  /\ Go(c, from, IF round[c] + 1 < Q THEN "hear" ELSE "done")
  /\ round' = [round EXCEPT ![c] = @ + 1]
  /\ UNCHANGED <<mutex, shared, thread_count, idx, pos, left>>

\* Mutant: the moderator is not told.
ReportEnd_Untold(c) == EndRound(c, "spoken") /\ UNCHANGED <<locked, mutex_2>>

ReportEnd(c) ==
  /\ EndRound(c, "spoken")
  /\ mutex_2' = mutex_2 \ {c}
  /\ UNCHANGED locked

\* Mutant: unlocks mutex1 without waiting for it.
StaySilent_Unlocks(c) ==
  EndRound(c, "silent") /\ Free("mutex1") /\ UNCHANGED mutex_2

StaySilent(c) ==
  \/ lock(c, "silent", "mutex1", "silentu")
  \/ EndRound(c, "silentu") /\ Free("mutex1") /\ UNCHANGED mutex_2

commmentator(c) ==
  \/ wait_question(c) \/ Answer(c) \/ waitForQueueFill(c) \/ OpenGate(c)
  \/ PassGate(c) \/ AwaitTurn(c) \/ speak(c) \/ ReportEnd(c)
  \/ StaySilent(c)

-----------------------------------------------------------------------------
(* Breaking news *)

bnews ==
  \/ /\ pc[Bnews] = "watch"
     /\ \E news \in probabilityCheck(B) :
          pc' = [pc EXCEPT ![Bnews] = IF ~running THEN "done"
                                      ELSE IF news THEN "news" ELSE "no_news"]
     /\ UNCHANGED <<locks, shared, locals>>
  \/ lock(Bnews, "news", "bnews_mutex", "airing")
  \/ unlock(Bnews, "airing", "bnews_mutex", "watch") /\ MayWake(Bnews)
  \/ /\ Go(Bnews, "no_news", "watch") /\ MayWake(Bnews)
     /\ UNCHANGED <<locks, shared, locals>>

-----------------------------------------------------------------------------
Next == main \/ join_all \/ moderator \/ ask_question \/ get_answers \/ bnews
        \/ \E c \in Commentators : commmentator(c)

Spec == Init /\ [][Next]_vars

\* The threads are scheduled: each takes a step it can always take (WF).
\* While the news come and go for ever, what waits for them is enabled only
\* time and again (SF): bnews_mutex, which for b < 1 is free for seconds at a
\* time, and (Timely) the end of a sleep that a bnews step has to precede.
Fairness ==
  /\ WF_vars(main) /\ WF_vars(join_all) /\ WF_vars(bnews)
  /\ WF_vars(moderator \/ get_answers) /\ SF_vars(ask_question)
  /\ \A c \in Commentators : WF_vars(commmentator(c)) /\ SF_vars(speak(c))

FairSpec == Spec /\ Fairness

-----------------------------------------------------------------------------
(* Properties *)

Labels ==
  {"unborn", "done", "create_moderator", "nap", "create", "join",
   "start", "start2", "stop", "ask", "ask_bnews", "ask_m3", "ask_open", "asking",
   "ask_m3u", "ask_gate", "ask_gateu", "ask_bnewsu",
   "get", "get_check", "get_deq", "get_turn", "get_m2", "get_done", "stray",
   "hear", "heard", "answer", "enqueue", "fill", "filled", "last", "open", "close",
   "gate", "gated", "turn", "mic", "slice", "speaking", "pause", "mute", "micu",
   "spoken", "silent", "silentu", "watch", "news", "airing", "no_news"}

TypeOK ==
  /\ pc \in [Threads -> Labels]
  /\ locked \subseteq Mutexes /\ mutex \subseteq Commentators /\ mutex_2 \subseteq Commentators
  /\ WellFormed(queue, Commentators \cup {Garbage}, N)
  /\ currentSize \in 0 .. N
  /\ curr_com_id \in Commentators \cup {-1}
  /\ running \in BOOLEAN
  /\ thread_count \in 0 .. N + 2
  /\ round \in [Moderator .. N -> 0 .. Q]
  /\ idx \in Commentators \cup {0}
  /\ pos \in [Commentators -> -1 .. N - 1]
  /\ left \in [Commentators -> SpeechSlices \cup Nat]

\* The labels at which a commentator has the floor, is through with a
\* question, and at which the moderator has one open.
HasFloor(c) == pc[c] \in {"mic", "slice", "speaking", "pause", "mute", "micu", "spoken"}
Waits(c) == pc[c] \in {"fill", "filled", "last", "open", "close", "gate", "gated", "turn"}
Asked == {"asking", "ask_m3u", "ask_gate", "ask_gateu", "ask_bnewsu", "get",
          "get_check", "get_deq", "get_turn", "get_m2", "get_done"}

\* One commentator speaks at a time, and only the one whose turn the
\* moderator has given and is waiting out (get_answers, speak): the handshake
\* over mutex[] and mutex_2[] never lets two through, however late a wake-up.
OneSpeaker ==
  \A c \in Commentators :
    HasFloor(c) => idx = c /\ pc[Moderator] \in {"get_m2", "get_done"}

\* Who is on the air: what bnews_mutex is there to keep apart.
OnAir(t) ==
  \/ t = Moderator /\ pc[t] \in {"ask_m3", "ask_open", "asking", "ask_m3u", "ask_gate",
                                   "ask_gateu", "ask_bnewsu"}
  \/ t = Bnews /\ pc[t] = "airing"
  \/ t \in Commentators /\ pc[t] \in {"speaking", "pause"}

\* News are never on the air during a question or a slice of speech, nor do
\* those two overlap (bnews_mutex in ask_question, speak and bnews).
NewsInterrupt == \A s, t \in Threads : OnAir(s) /\ OnAir(t) => s = t

\* A commentator stands in the line at most once, exactly while it waits, so
\* neither the unguarded isFull check of enqueue ever refuses an answer nor
\* the isEmpty check of dequeue ever fails the moderator.
AnswersFit ==
  /\ \A j, k \in DOMAIN Contents(queue) :
       Contents(queue)[j] = Contents(queue)[k] => j = k
  /\ \A k \in DOMAIN Contents(queue) : Waits(Contents(queue)[k])
  /\ \A c \in Commentators : pos[c] # -1
  /\ pc[Moderator] # "stray"

\* The speaker whom the news claim to cut short has the floor (curr_com_id is
\* read under bnews_mutex but reset without it).
CutShortIsSpeaker == curr_com_id # -1 => HasFloor(curr_com_id)

\* Once no one answers a question, the moderator waits at the gate for ever:
\* mutex1 is unlocked only by the last of those who answered (main.c:94, 161).
AllSilent ==
  /\ pc[Moderator] = "ask_gate" /\ "mutex1" \in locked
  /\ \A c \in Commentators : pc[c] \in {"silent", "done"}
SilenceIsFinal == [][AllSilent => AllSilent']_vars

\* The refinement mapping into TurnTaking: the line is what queue holds, and
\* the floor is taken from the dequeue to the unlock of mutex_2[idx-1].
Turns == INSTANCE TurnTaking
  WITH waiting <- Contents(queue),
       floor <- IF pc[Moderator] \in {"get_turn", "get_m2", "get_done"} /\ idx \in mutex_2
                THEN {idx} ELSE {}

\* The floor goes round in the order of the answers, to one at a time.
TurnsSpec == Turns!Spec

\* A commentator in its (i+1)st iteration answers the (i+1)st question, which
\* has been asked (wait_question, main.c:121).
HeardWhatWasAsked ==
  \A c \in Commentators :
    pc[c] \in {"heard", "answer", "enqueue", "silent", "silentu"} \/ Waits(c) \/ HasFloor(c)
      => round[c] < round[Moderator] + IF pc[Moderator] \in Asked THEN 1 ELSE 0

\* When the moderator closes the question, every answer is in the count that
\* selects the commentator who opens the gate (ask_question, commmentator).
CountIsComplete ==
  pc[Moderator] \in {"ask_m3u", "ask_gate"} =>
    \A c \in Commentators : ~(pc[c] \in {"heard", "answer", "enqueue"})
                              /\ (Waits(c) => pos[c] < currentSize)

\* If everyone answers every question, the program ends, which no thread can
\* without having had the floor once per question: no wake-up is ever lost.
Termination == <>(pc[Main] = "done")
=============================================================================
