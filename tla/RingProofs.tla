----------------------------- MODULE RingProofs -----------------------------
(***************************************************************************)
(* What the two arrays that the programs write round and round promise,    *)
(* for every size: the queue of prj2, to whose end enqueue adds and from   *)
(* whose head dequeue takes, and the TLB of prj3, which never contradicts  *)
(* the page table it is filled from.                                       *)
(***************************************************************************)
EXTENDS QueueOps, TLBOps, Sequences, WellFoundedInduction, TLAPS

LEMMA WrapOnce ==
  ASSUME NEW n \in Nat \ {0}, NEW x \in 0 .. 2 * n - 1
  PROVE  x % n = IF x < n THEN x ELSE x - n
<1>1. CASE x < n
  BY <1>1
<1>2. CASE x >= n
  BY <1>2
<1> QED
  BY <1>1, <1>2

\* The types of the fields, and a remainder that the code only ever takes of a
\* number less than two capacities.
Buffers(Data, capacity) ==
  [front : 0 .. capacity - 1, end : 0 .. capacity - 1, size : 0 .. capacity,
   capacity : {capacity}, list : [0 .. capacity - 1 -> Data]]
Wrap(x, n) == IF x < n THEN x ELSE x - n

LEMMA Insertion ==
  ASSUME NEW Data, NEW capacity \in Nat \ {0}, NEW queue \in Buffers(Data, capacity),
         queue.size < capacity, NEW cell \in 0 .. capacity - 1, NEW data \in Data
  PROVE  [queue EXCEPT !.end = cell, !.list[cell] = data, !.size = @ + 1] \in Buffers(Data, capacity)
<1>1. /\ queue.size + 1 \in 0 .. capacity
      /\ [queue.list EXCEPT ![cell] = data] \in [0 .. capacity - 1 -> Data]
  BY DEF Buffers
<1> QED
  BY <1>1 DEF Buffers

LEMMA Removal ==
  ASSUME NEW Data, NEW capacity \in Nat \ {0}, NEW queue \in Buffers(Data, capacity),
         queue.size > 0, NEW next \in 0 .. capacity - 1
  PROVE  [queue EXCEPT !.front = next, !.size = @ - 1] \in Buffers(Data, capacity)
<1>1. queue.size - 1 \in 0 .. capacity
  BY DEF Buffers
<1> QED
  BY <1>1 DEF Buffers

LEMMA Fields ==
  ASSUME NEW Data, NEW capacity \in Nat \ {0}, NEW queue
  PROVE  WellFormed(queue, Data, capacity) <=>
           /\ queue \in Buffers(Data, capacity)
           /\ Wrap(queue.end + 1, capacity) = Wrap(queue.front + queue.size, capacity)
<1> SUFFICES ASSUME queue \in Buffers(Data, capacity)
             PROVE  /\ (queue.end + 1) % capacity = Wrap(queue.end + 1, capacity)
                    /\ (queue.front + queue.size) % capacity
                         = Wrap(queue.front + queue.size, capacity)
  BY DEF WellFormed, Buffers
<1>1. queue.end + 1 \in 0 .. 2 * capacity - 1
  BY DEF Buffers
<1>2. queue.front + queue.size \in 0 .. 2 * capacity - 1
  BY DEF Buffers
<1> QED
  BY <1>1, <1>2, WrapOnce DEF Wrap

LEMMA NextCell ==
  ASSUME NEW n \in Nat \ {0}, NEW x \in 0 .. n - 1
  PROVE  (x + 1) % n = Wrap(x + 1, n) /\ Wrap(x + 1, n) \in 0 .. n - 1
<1>1. x + 1 \in 0 .. 2 * n - 1
  OBVIOUS
<1>2. (x + 1) % n = Wrap(x + 1, n)
  BY <1>1, WrapOnce DEF Wrap
<1>3. Wrap(x + 1, n) \in 0 .. n - 1
  BY DEF Wrap
<1> QED
  BY <1>2, <1>3

\* The cell of the k-th queued value.
Cell(queue, capacity, k) == queue.list[Wrap(queue.front + k - 1, capacity)]

LEMMA ContentsCell ==
  ASSUME NEW Data, NEW capacity \in Nat \ {0}, NEW queue, WellFormed(queue, Data, capacity),
         NEW k \in 1 .. getSize(queue)
  PROVE  Contents(queue)[k] = Cell(queue, capacity, k)
<1>1. /\ queue.front \in 0 .. capacity - 1 /\ queue.size \in 0 .. capacity
      /\ queue.capacity = capacity
  BY DEF WellFormed
<1>2. queue.front + k - 1 \in 0 .. 2 * capacity - 1
  BY <1>1 DEF getSize
<1>3. (queue.front + k - 1) % capacity = Wrap(queue.front + k - 1, capacity)
  BY <1>2, WrapOnce DEF Wrap
<1> QED
  BY <1>1, <1>3 DEF Contents, Cell, getSize

LEMMA ContentsData ==
  ASSUME NEW Data, NEW capacity \in Nat \ {0}, NEW queue, WellFormed(queue, Data, capacity),
         NEW k \in 1 .. getSize(queue)
  PROVE  Contents(queue)[k] \in Data
<1>1. /\ queue.front \in 0 .. capacity - 1 /\ queue.size \in 0 .. capacity
      /\ queue.list \in [0 .. capacity - 1 -> Data]
  BY DEF WellFormed
<1>2. Wrap(queue.front + k - 1, capacity) \in 0 .. capacity - 1
  BY <1>1 DEF Wrap, getSize
<1>3. Cell(queue, capacity, k) \in Data
  BY <1>1, <1>2 DEF Cell
<1> QED
  BY <1>3, ContentsCell

LEMMA ContentsType ==
  ASSUME NEW Data, NEW capacity \in Nat \ {0}, NEW queue, WellFormed(queue, Data, capacity)
  PROVE  Contents(queue) \in Seq(Data) /\ Len(Contents(queue)) = getSize(queue)
<1>1. getSize(queue) \in Nat
  BY DEF WellFormed, getSize
<1>2. \A k \in 1 .. getSize(queue) : Contents(queue)[k] \in Data
  BY ContentsData
<1>3. Contents(queue) = [k \in 1 .. getSize(queue) |-> Contents(queue)[k]]
  BY DEF Contents, getSize
<1> QED
  BY <1>1, <1>2, <1>3

\* enqueue, while there is room, keeps the buffer well formed ...
LEMMA EnqueueWellFormed ==
  ASSUME NEW Data, NEW capacity \in Nat \ {0}, NEW queue, WellFormed(queue, Data, capacity),
         getSize(queue) < capacity, NEW data \in Data
  PROVE  /\ enqueue(queue, data) = [queue EXCEPT !.end = Wrap(queue.end + 1, capacity),
                                                 !.list[Wrap(queue.end + 1, capacity)] = data,
                                                 !.size = @ + 1]
         /\ WellFormed(enqueue(queue, data), Data, capacity)
<1> DEFINE cell  == Wrap(queue.end + 1, capacity)
           after == [queue EXCEPT !.end = cell, !.list[cell] = data, !.size = @ + 1]
<1>1. queue \in Buffers(Data, capacity) /\ queue.size < capacity
  BY DEF WellFormed, Buffers, getSize
<1>2. queue.end \in 0 .. capacity - 1 /\ queue.capacity = capacity
  BY <1>1 DEF Buffers
<1>3. (queue.end + 1) % queue.capacity = cell /\ cell \in 0 .. capacity - 1
  BY <1>2, NextCell
<1>4. cell = Wrap(queue.front + queue.size, capacity)
  BY Fields
<1>5. enqueue(queue, data) = after
  BY <1>3 DEF enqueue
<1> HIDE DEF cell
<1>6. after \in Buffers(Data, capacity)
  BY <1>1, <1>3, Insertion
<1>7. after.end = cell /\ after.front = queue.front /\ after.size = queue.size + 1
  BY <1>1 DEF Buffers
<1> HIDE DEF after
<1>8. Wrap(after.end + 1, capacity) = Wrap(after.front + after.size, capacity)
  <2>1. Wrap(cell + 1, capacity) = Wrap(queue.front + (queue.size + 1), capacity)
    BY <1>1, <1>4 DEF Wrap, Buffers
  <2> QED
    BY <1>7, <2>1
<1>9. WellFormed(after, Data, capacity)
  BY <1>6, <1>8, Fields
<1> QED
  BY <1>5, <1>9 DEF after, cell

\* ... and appends.
THEOREM EnqueueAppends ==
  ASSUME NEW Data, NEW capacity \in Nat \ {0}, NEW queue, WellFormed(queue, Data, capacity),
         getSize(queue) < capacity, NEW data \in Data
  PROVE  Contents(enqueue(queue, data)) = Append(Contents(queue), data)
<1> DEFINE cell  == Wrap(queue.end + 1, capacity)
           after == enqueue(queue, data)
           size  == getSize(queue)
<1>1. /\ queue \in Buffers(Data, capacity)
      /\ size = queue.size /\ size \in 0 .. capacity - 1
  BY DEF WellFormed, Buffers, getSize
<1>2. cell \in 0 .. capacity - 1
  BY <1>1, NextCell DEF Buffers
<1>2a. /\ after = [queue EXCEPT !.end = cell, !.list[cell] = data, !.size = @ + 1]
      /\ WellFormed(after, Data, capacity)
  BY EnqueueWellFormed
<1>3. cell = Wrap(queue.front + size, capacity)
  BY <1>1, Fields
<1> HIDE DEF cell, after, size
<1>4. /\ after.front = queue.front /\ getSize(after) = size + 1
      /\ after.list = [queue.list EXCEPT ![cell] = data]
  BY <1>1, <1>2a DEF getSize, Buffers
<1>5. /\ Contents(queue) \in Seq(Data) /\ Len(Contents(queue)) = size
      /\ Contents(after) \in Seq(Data) /\ Len(Contents(after)) = size + 1
  BY <1>2a, <1>4, ContentsType DEF size
<1>6. ASSUME NEW k \in 1 .. size + 1
      PROVE  Contents(after)[k] = IF k = size + 1 THEN data ELSE Contents(queue)[k]
  <2>1. k \in 1 .. getSize(after)
    BY <1>4
  <2>2. Contents(after)[k] = Cell(after, capacity, k)
    BY <1>2a, <2>1, ContentsCell
  <2>3. Contents(after)[k] = after.list[Wrap(queue.front + k - 1, capacity)]
    BY <1>4, <2>2 DEF Cell
  <2>4. CASE k = size + 1
    <3>1. Wrap(queue.front + k - 1, capacity) = cell
      BY <1>1, <1>3, <2>4 DEF Buffers
    <3> QED
      BY <1>1, <1>2, <1>4, <2>3, <2>4, <3>1 DEF Buffers
  <2>5. CASE k \in 1 .. size
    <3>1. /\ Wrap(queue.front + k - 1, capacity) \in 0 .. capacity - 1
          /\ Wrap(queue.front + k - 1, capacity) # cell
      BY <1>1, <1>3, <2>5, SMTT(30) DEF Wrap, Buffers
    <3>2. Contents(queue)[k] = Cell(queue, capacity, k)
      BY <2>5, ContentsCell DEF size
    <3>3. Contents(queue)[k] = queue.list[Wrap(queue.front + k - 1, capacity)]
      BY <3>2 DEF Cell
    <3>4. k # size + 1
      BY <1>1, <2>5
    <3> QED
      BY <1>1, <1>4, <2>3, <3>1, <3>3, <3>4 DEF Buffers
  <2> QED
    BY <1>1, <2>4, <2>5
<1>7. Contents(after) = Append(Contents(queue), data)
  <2>1. /\ Append(Contents(queue), data) \in Seq(Data)
        /\ Len(Append(Contents(queue), data)) = size + 1
    BY <1>5
  <2>2. \A k \in 1 .. size + 1 :
          Append(Contents(queue), data)[k] = IF k = size + 1 THEN data ELSE Contents(queue)[k]
    BY <1>1, <1>5
  <2>3. \A k \in 1 .. size + 1 : Contents(after)[k] = Append(Contents(queue), data)[k]
    BY <1>6, <2>2
  <2> QED
    BY <1>5, <2>1, <2>3
<1> QED
  BY <1>7 DEF after

\* dequeue, while there is a value, keeps the buffer well formed ...
LEMMA DequeueWellFormed ==
  ASSUME NEW Data, NEW capacity \in Nat \ {0}, NEW queue, WellFormed(queue, Data, capacity),
         getSize(queue) > 0
  PROVE  /\ dequeue(queue) = [queue EXCEPT !.front = Wrap(queue.front + 1, capacity), !.size = @ - 1]
         /\ WellFormed(dequeue(queue), Data, capacity)
<1> DEFINE next  == Wrap(queue.front + 1, capacity)
           after == [queue EXCEPT !.front = next, !.size = @ - 1]
<1>1. queue \in Buffers(Data, capacity) /\ queue.size > 0
  BY DEF WellFormed, Buffers, getSize
<1>2. queue.front \in 0 .. capacity - 1 /\ queue.capacity = capacity
  BY <1>1 DEF Buffers
<1>3. (queue.front + 1) % queue.capacity = next /\ next \in 0 .. capacity - 1
  BY <1>2, NextCell
<1>4. Wrap(queue.front + queue.size, capacity) = Wrap(next + (queue.size - 1), capacity)
  BY <1>1 DEF Wrap, Buffers
<1>5. dequeue(queue) = after
  BY <1>3 DEF dequeue
<1>6. Wrap(queue.end + 1, capacity) = Wrap(queue.front + queue.size, capacity)
  BY Fields
<1> HIDE DEF next
<1>7. after \in Buffers(Data, capacity)
  BY <1>1, <1>3, Removal
<1>8. after.end = queue.end /\ after.front = next /\ after.size = queue.size - 1
  BY <1>1 DEF Buffers
<1> HIDE DEF after
<1>9. WellFormed(after, Data, capacity)
  BY <1>4, <1>6, <1>7, <1>8, Fields
<1> QED
  BY <1>5, <1>9 DEF after, next

\* ... and takes the head.
THEOREM DequeueTakesHead ==
  ASSUME NEW Data, NEW capacity \in Nat \ {0}, NEW queue, WellFormed(queue, Data, capacity),
         getSize(queue) > 0
  PROVE  /\ dequeued(queue) = Head(Contents(queue))
         /\ Contents(dequeue(queue)) = Tail(Contents(queue))
<1> DEFINE next  == Wrap(queue.front + 1, capacity)
           after == dequeue(queue)
           size  == getSize(queue)
<1>1. /\ queue \in Buffers(Data, capacity)
      /\ size = queue.size /\ size \in 1 .. capacity
  BY DEF WellFormed, Buffers, getSize
<1>2. /\ after = [queue EXCEPT !.front = next, !.size = @ - 1]
      /\ WellFormed(after, Data, capacity)
  BY DequeueWellFormed
<1> HIDE DEF after, size
<1>3. after.front = next /\ getSize(after) = size - 1 /\ after.list = queue.list
  BY <1>1, <1>2 DEF getSize, Buffers
<1>4. /\ Contents(queue) \in Seq(Data) /\ Len(Contents(queue)) = size
      /\ Contents(after) \in Seq(Data) /\ Len(Contents(after)) = size - 1
  BY <1>2, <1>3, ContentsType DEF size
<1>5. ASSUME NEW k \in 1 .. size
      PROVE  Contents(queue)[k] = queue.list[Wrap(queue.front + k - 1, capacity)]
  <2>1. Contents(queue)[k] = Cell(queue, capacity, k)
    BY ContentsCell DEF size
  <2> QED
    BY <2>1 DEF Cell
<1>6. dequeued(queue) = Head(Contents(queue))
  <2>1. 1 \in 1 .. size /\ Wrap(queue.front + 1 - 1, capacity) = queue.front
    BY <1>1 DEF Wrap, Buffers
  <2>2. Contents(queue)[1] = queue.list[queue.front]
    BY <1>5, <2>1
  <2> QED
    BY <1>1, <1>4, <2>2 DEF dequeued
<1>7. ASSUME NEW k \in 1 .. size - 1
      PROVE  Contents(after)[k] = Contents(queue)[k + 1]
  <2>1. k \in 1 .. getSize(after) /\ k + 1 \in 1 .. size
    BY <1>1, <1>3
  <2>2. Contents(after)[k] = Cell(after, capacity, k)
    BY <1>2, <2>1, ContentsCell
  <2>3. Contents(after)[k] = queue.list[Wrap(next + k - 1, capacity)]
    BY <1>3, <2>2 DEF Cell
  <2>4. Contents(queue)[k + 1] = queue.list[Wrap(queue.front + (k + 1) - 1, capacity)]
    BY <1>5, <2>1
  <2>5. Wrap(next + k - 1, capacity) = Wrap(queue.front + (k + 1) - 1, capacity)
    BY <1>1 DEF Wrap, Buffers
  <2> QED
    BY <2>3, <2>4, <2>5
<1>8. Contents(after) = Tail(Contents(queue))
  BY <1>1, <1>4, <1>7
<1> QED
  BY <1>6, <1>8 DEF after

-----------------------------------------------------------------------------
LEMMA Remainder ==
  ASSUME NEW n \in Nat \ {0}, NEW x \in Int
  PROVE  /\ x % n \in 0 .. n - 1
         /\ x \in 0 .. n - 1 => x % n = x
  OBVIOUS

LEMMA Least ==
  ASSUME NEW S \in SUBSET Nat, S # {}
  PROVE  \E a \in S : \A b \in S : a <= b
<1>1. PICK a \in S : \A b \in S : ~(<<b, a>> \in OpToRel(<, Nat))
  BY NatLessThanWellFounded, WFMin
<1>2. ASSUME NEW b \in S PROVE a <= b
  <2>1. b < a => <<b, a>> \in OpToRel(<, Nat)
    BY DEF OpToRel
  <2>2. ~(b < a)
    BY <1>1, <2>1, Zenon
  <2> QED
    BY <2>2
<1> QED
  BY <1>2

\* search_tlb finds something exactly if some written entry holds the page.
LEMMA SearchFinds ==
  ASSUME NEW size \in Nat \ {0}, NEW table, NEW index \in Nat, NEW page,
         Holding(table, index, size, page) # {}
  PROVE  \E k \in Holding(table, index, size, page) :
           search_tlb(table, index, size, page) = table[k].physical
<1> DEFINE holding == Holding(table, index, size, page)
           ages == {Age(index, size, k) : k \in holding}
<1>1. \A k \in holding : Age(index, size, k) \in Nat
  BY Remainder DEF Holding, Age
<1>2. ages \in SUBSET Nat /\ ages # {}
  BY <1>1
<1>3. \E a \in ages : \A b \in ages : a <= b
  <2> HIDE DEF ages
  <2> QED
    BY ONLY <1>2, Least
<1>4. \E k \in holding : \A j \in holding : Age(index, size, k) <= Age(index, size, j)
  BY <1>3
<1> QED
  BY <1>4 DEF search_tlb

\* The entries that were written, and a TLB that repeats a page table: every
\* such entry is in the table too, and no page is in the TLB twice.
Slots(index, size) == {k \in 0 .. size - 1 : k < index}
Repeats(table, index, size, pagetable) ==
  /\ \A k \in Slots(index, size) :
       /\ table[k].logical \in DOMAIN pagetable
       /\ pagetable[table[k].logical] # -1
       /\ pagetable[table[k].logical] = table[k].physical
  /\ \A j, k \in Slots(index, size) : table[j].logical = table[k].logical => j = k

\* What such a TLB finds is what the page table says ...
LEMMA SearchAgrees ==
  ASSUME NEW size \in Nat \ {0}, NEW table, NEW index \in Nat, NEW pagetable,
         Repeats(table, index, size, pagetable), NEW page
  PROVE  LET frame == search_tlb(table, index, size, page)
         IN  /\ frame # -1 => /\ page \in DOMAIN pagetable
                              /\ pagetable[page] # -1 /\ frame = pagetable[page]
             /\ frame = -1 => \A k \in Slots(index, size) : table[k].logical # page
<1>1. CASE Holding(table, index, size, page) = {}
  <2>1. search_tlb(table, index, size, page) = -1
    BY <1>1 DEF search_tlb
  <2>2. \A k \in Slots(index, size) : table[k].logical # page
    BY <1>1 DEF Holding, Slots
  <2> QED
    BY <2>1, <2>2
<1>2. CASE Holding(table, index, size, page) # {}
  <2>1. PICK k \in Holding(table, index, size, page) :
          search_tlb(table, index, size, page) = table[k].physical
    BY <1>2, SearchFinds
  <2>2. k \in Slots(index, size) /\ table[k].logical = page
    BY DEF Holding, Slots
  <2> QED
    BY <2>1, <2>2 DEF Repeats
<1> QED
  BY <1>1, <1>2

\* ... and stays so when a page that was not found is entered in both.
LEMMA AddAgrees ==
  ASSUME NEW size \in Nat \ {0}, NEW table, DOMAIN table = 0 .. size - 1,
         table = [k \in DOMAIN table |-> table[k]], NEW index \in Nat,
         NEW pagetable, pagetable = [q \in DOMAIN pagetable |-> pagetable[q]],
         Repeats(table, index, size, pagetable),
         NEW page \in DOMAIN pagetable, search_tlb(table, index, size, page) = -1,
         NEW frame, frame # -1, pagetable[page] \in {-1, frame}
  PROVE  Repeats(add_to_tlb(table, index, size, page, frame), index + 1, size,
                 [pagetable EXCEPT ![page] = frame])
<1> DEFINE new   == index % size
           entry == [logical |-> page, physical |-> frame]
           after == [table EXCEPT ![new] = entry]
           pages == [pagetable EXCEPT ![page] = frame]
<1>1. new \in 0 .. size - 1 /\ (index < size => new = index)
  BY Remainder
<1>2. add_to_tlb(table, index, size, page, frame) = after
  BY DEF add_to_tlb
<1> HIDE DEF new
<1>3. Slots(index + 1, size) = Slots(index, size) \cup {new}
  BY <1>1 DEF Slots
<1>4. after[new] = entry /\ \A k \in Slots(index, size) \ {new} : after[k] = table[k]
  BY <1>1 DEF Slots
<1>5. /\ DOMAIN pages = DOMAIN pagetable /\ pages[page] = frame
      /\ \A q \in DOMAIN pagetable : pagetable[q] # -1 => pages[q] = pagetable[q]
  OBVIOUS
<1>6. \A k \in Slots(index, size) : table[k].logical # page
  BY SearchAgrees
<1> HIDE DEF after, pages
<1>7. ASSUME NEW k \in Slots(index + 1, size)
      PROVE  /\ after[k].logical \in DOMAIN pages
             /\ pages[after[k].logical] # -1 /\ pages[after[k].logical] = after[k].physical
  BY <1>3, <1>4, <1>5 DEF Repeats
<1>8. ASSUME NEW j \in Slots(index + 1, size), NEW k \in Slots(index + 1, size),
             after[j].logical = after[k].logical
      PROVE  j = k
  BY <1>3, <1>4, <1>6, <1>8 DEF Repeats
<1>9. Repeats(after, index + 1, size, pages)
  BY <1>7, <1>8 DEF Repeats
<1> QED
  BY <1>2, <1>9 DEF pages
=============================================================================
