------------------------------ MODULE QueueOps ------------------------------
(***************************************************************************)
(* struct Queue of prj2 (include/queue.h, src/queue.c) as a record, and    *)
(* what each critical section of queue.c does to it.  Every section is     *)
(* guarded by the queue's own mutex, so one section is one operator; an    *)
(* operation made of two sections (enqueue and dequeue first call isFull   *)
(* or isEmpty) is two steps of whoever uses these operators.               *)
(***************************************************************************)
EXTENDS Integers

\* createQueue.  The cells of list are whatever malloc returned: `cells`.
createQueue(capacity, cells) ==
  [front |-> 0, end |-> capacity - 1, size |-> 0, capacity |-> capacity, list |-> cells]

isFull(queue)  == queue.size = queue.capacity
isEmpty(queue) == queue.size = 0
getSize(queue) == queue.size

\* The locked section of enqueue; it returns the position, the old size.
enqueue(queue, data) ==
  LET end == (queue.end + 1) % queue.capacity
  IN  [queue EXCEPT !.end = end, !.list[end] = data, !.size = @ + 1]
position(queue) == queue.size

\* Mutant: front does not wrap.
dequeue_NoWrap(queue) == [queue EXCEPT !.front = @ + 1, !.size = @ - 1]

\* Mutant: the newest value instead of the oldest.
dequeued_Newest(queue) == queue.list[queue.end]

\* The locked section of dequeue, and the value it returns.
dequeue(queue) ==
  [queue EXCEPT !.front = (@ + 1) % queue.capacity, !.size = @ - 1]
dequeued(queue) == queue.list[queue.front]

\* The abstraction function: the queued values, oldest first.
Contents(queue) ==
  [k \in 1 .. queue.size |-> queue.list[(queue.front + k - 1) % queue.capacity]]

\* The representation invariant: end is always the cell before the one that
\* comes size cells after front.
WellFormed(queue, Data, capacity) ==
  /\ queue \in [front : 0 .. capacity - 1, end : 0 .. capacity - 1, size : 0 .. capacity,
                capacity : {capacity}, list : [0 .. capacity - 1 -> Data]]
  /\ (queue.end + 1) % capacity = (queue.front + queue.size) % capacity
=============================================================================
