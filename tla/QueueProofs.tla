----------------------------- MODULE QueueProofs -----------------------------
(***************************************************************************)
(* The two ring buffers of src/lib implement the queues their callers see, *)
(* for any capacity, any values and any sequence of calls: a growing FIFO  *)
(* queue and a bounded sorted log that is cut by binary search.            *)
(***************************************************************************)
EXTENDS MCQueues, SequenceTheorems, WellFoundedInduction, TLAPS

\* An index that has passed the end of the ring at most once.
Wrapped(c, x) == IF x < c THEN x ELSE x - c

\* A buffer of capacity c, its head and its size.
IsRing(S, d, c, h, n) ==
    c \in Nat \ {0} /\ d \in [0..(c - 1) -> S] /\ h \in 0..(c - 1) /\ n \in 0..c

\* A buffer after a write.
Written(d, t, v) == [d EXCEPT ![t] = v]

\* A full buffer unrolled from h into one of twice its length.
Doubled(d, c, h, z) ==
    [i \in 0..(2 * c - 1) |->
        IF i < c - h THEN d[h + i] ELSE IF i < c - h + h THEN d[i - (c - h)] ELSE z]

\* What a ring of capacity c holds from h on, n entries of it.
Ring(d, c, h, n) == [i \in 1..n |-> d[Wrapped(c, h + i - 1)]]

-----------------------------------------------------------------------------
(***************************************************************************)
(* Rings.                                                                  *)
(***************************************************************************)

\* An index less than twice the capacity wraps around at most once.
LEMMA Wrap ==
    ASSUME NEW c \in Nat \ {0}, NEW x \in 0..(2 * c - 1)
    PROVE  x % c = Wrapped(c, x) /\ Wrapped(c, x) \in 0..(c - 1)
BY DEF Wrapped

\* A ring read in order is a sequence of its slots.
LEMMA RingSeq ==
    ASSUME NEW S, NEW d, NEW c, NEW h, NEW n, IsRing(S, d, c, h, n)
    PROVE  Ring(d, c, h, n) \in Seq(S) /\ Len(Ring(d, c, h, n)) = n
<1>1. ASSUME NEW i \in 1..n PROVE d[Wrapped(c, h + i - 1)] \in S
    BY DEF Wrapped, IsRing
<1>2. n \in Nat
    BY DEF IsRing
<1>3. Ring(d, c, h, n) \in [1..n -> S]
    BY <1>1 DEF Ring
<1> QED BY <1>2, <1>3

\* An entry written at the tail is the last of the contents.
LEMMA RingAppend ==
    ASSUME NEW S, NEW d, NEW c, NEW h, NEW n, IsRing(S, d, c, h, n), n # c, NEW v \in S,
           NEW t, t = Wrapped(c, h + n)
    PROVE  /\ IsRing(S, Written(d, t, v), c, h, n + 1)
           /\ Ring(Written(d, t, v), c, h, n + 1) = Append(Ring(d, c, h, n), v)
           /\ t \in 0..(c - 1) /\ Wrapped(c, t + 1) = Wrapped(c, h + (n + 1))
<1> DEFINE e == Written(d, t, v)
<1>0. c \in Nat \ {0} /\ h \in 0..(c - 1) /\ n \in 0..(c - 1)
    BY DEF IsRing
<1>1. t \in 0..(c - 1)
    BY <1>0 DEF Wrapped
<1>2. e \in [0..(c - 1) -> S] /\ e[t] = v /\ \A k \in 0..(c - 1) : k # t => e[k] = d[k]
    BY <1>1 DEF IsRing, Written
<1> HIDE DEF e
<1>3. /\ IsRing(S, e, c, h, n + 1)
      /\ Ring(e, c, h, n + 1) \in Seq(S) /\ Len(Ring(e, c, h, n + 1)) = n + 1
  <2>1. IsRing(S, e, c, h, n + 1)
      BY <1>0, <1>2 DEF IsRing
  <2> QED BY <2>1, RingSeq
<1>4. Ring(d, c, h, n) \in Seq(S) /\ Len(Ring(d, c, h, n)) = n
    BY RingSeq
<1>5. /\ Append(Ring(d, c, h, n), v) \in Seq(S) /\ Len(Append(Ring(d, c, h, n), v)) = n + 1
      /\ Append(Ring(d, c, h, n), v)[n + 1] = v
      /\ \A i \in 1..n : Append(Ring(d, c, h, n), v)[i] = Ring(d, c, h, n)[i]
    BY <1>0, <1>4
<1>6. ASSUME NEW i \in 1..(n + 1)
      PROVE  Ring(e, c, h, n + 1)[i] = Append(Ring(d, c, h, n), v)[i]
  <2>1. Ring(e, c, h, n + 1)[i] = e[Wrapped(c, h + i - 1)]
      BY DEF Ring
  <2>2. CASE i = n + 1
    <3>1. h + i - 1 = h + n
        BY <1>0, <2>2
    <3> QED BY <1>2, <1>5, <2>1, <2>2, <3>1
  <2>3. CASE i # n + 1
    <3>1. i \in 1..n
        BY <1>0, <2>3
    <3>2. Wrapped(c, h + i - 1) \in 0..(c - 1) /\ Wrapped(c, h + i - 1) # t
        BY <1>0, <3>1 DEF Wrapped
    <3>3. Ring(d, c, h, n)[i] = d[Wrapped(c, h + i - 1)]
        BY <3>1 DEF Ring
    <3> QED BY <1>2, <1>5, <2>1, <3>1, <3>2, <3>3
  <2> QED BY <2>2, <2>3
<1>7. Ring(e, c, h, n + 1) = Append(Ring(d, c, h, n), v)
    BY <1>0, <1>3, <1>5, <1>6
<1>8. Wrapped(c, t + 1) = Wrapped(c, h + (n + 1))
    BY <1>0 DEF Wrapped
<1> QED BY <1>1, <1>3, <1>7, <1>8 DEF e

\* Moving the head on by k cuts the first k entries off.
LEMMA RingCut ==
    ASSUME NEW S, NEW d, NEW c, NEW h, NEW n, IsRing(S, d, c, h, n), NEW k \in 0..n,
           NEW g, g = Wrapped(c, h + k)
    PROVE  /\ IsRing(S, d, c, g, n - k)
           /\ Ring(d, c, g, n - k) = SubSeq(Ring(d, c, h, n), k + 1, n)
           /\ Wrapped(c, g + (n - k)) = Wrapped(c, h + n)
<1>0. c \in Nat \ {0} /\ h \in 0..(c - 1) /\ n \in 0..c
    BY DEF IsRing
<1>1. g \in 0..(c - 1) /\ n - k \in 0..c /\ k + 1 \in 1..(n + 1)
    BY <1>0 DEF Wrapped
<1>2. /\ IsRing(S, d, c, g, n - k)
      /\ Ring(d, c, g, n - k) \in Seq(S) /\ Len(Ring(d, c, g, n - k)) = n - k
  <2>1. IsRing(S, d, c, g, n - k)
      BY <1>1 DEF IsRing
  <2> QED BY <2>1, RingSeq
<1>3. /\ SubSeq(Ring(d, c, h, n), k + 1, n) \in Seq(S)
      /\ Len(SubSeq(Ring(d, c, h, n), k + 1, n)) = n - k
      /\ \A i \in 1..(n - k) : SubSeq(Ring(d, c, h, n), k + 1, n)[i] = Ring(d, c, h, n)[k + i]
  <2>1. Ring(d, c, h, n) \in Seq(S) /\ Len(Ring(d, c, h, n)) = n
      BY RingSeq
  <2>2. /\ SubSeq(Ring(d, c, h, n), k + 1, n) \in Seq(S)
        /\ Len(SubSeq(Ring(d, c, h, n), k + 1, n)) =
               IF k + 1 <= n THEN n - (k + 1) + 1 ELSE 0
        /\ \A i \in 1..(n - (k + 1) + 1) :
               SubSeq(Ring(d, c, h, n), k + 1, n)[i] = Ring(d, c, h, n)[(k + 1) + i - 1]
      BY <1>0, <1>1, <2>1, SubSeqProperties
  <2>3. \A i \in 1..(n - k) : i \in 1..(n - (k + 1) + 1) /\ (k + 1) + i - 1 = k + i
      BY <1>0
  <2>4. (IF k + 1 <= n THEN n - (k + 1) + 1 ELSE 0) = n - k
      BY <1>0
  <2> QED BY <2>2, <2>3, <2>4
<1>4. ASSUME NEW i \in 1..(n - k)
      PROVE  Ring(d, c, g, n - k)[i] = Ring(d, c, h, n)[k + i]
  <2>1. k + i \in 1..n
      BY <1>0
  <2>2. /\ Ring(d, c, h, n)[k + i] = d[Wrapped(c, h + (k + i) - 1)]
        /\ Ring(d, c, g, n - k)[i] = d[Wrapped(c, g + i - 1)]
      BY <2>1 DEF Ring
  <2>3. Wrapped(c, g + i - 1) = Wrapped(c, h + (k + i) - 1)
      BY <1>0, <2>1 DEF Wrapped
  <2> QED BY <2>2, <2>3
<1>5. Ring(d, c, g, n - k) = SubSeq(Ring(d, c, h, n), k + 1, n)
    BY <1>1, <1>2, <1>3, <1>4
<1>6. Wrapped(c, g + (n - k)) = Wrapped(c, h + n)
    BY <1>0 DEF Wrapped
<1> QED BY <1>2, <1>5, <1>6

\* The entry at the head is the first of the contents, and the others are the rest.
LEMMA RingHead ==
    ASSUME NEW S, NEW d, NEW c, NEW h, NEW n, IsRing(S, d, c, h, n), n # 0
    PROVE  /\ Ring(d, c, h, n) # <<>> /\ Head(Ring(d, c, h, n)) = d[h]
           /\ Tail(Ring(d, c, h, n)) = SubSeq(Ring(d, c, h, n), 2, n)
<1>1. c \in Nat \ {0} /\ h \in 0..(c - 1) /\ n \in 1..c
    BY DEF IsRing
<1>2. Ring(d, c, h, n) \in Seq(S) /\ Len(Ring(d, c, h, n)) = n
    BY RingSeq
<1>3. Ring(d, c, h, n)[1] = d[Wrapped(c, h + 1 - 1)]
    BY <1>1 DEF Ring
<1>4. Wrapped(c, h + 1 - 1) = h
    BY <1>1 DEF Wrapped
<1>5. Ring(d, c, h, n) # <<>> /\ Head(Ring(d, c, h, n)) = Ring(d, c, h, n)[1]
    BY <1>1, <1>2
<1>6. Tail(Ring(d, c, h, n)) = SubSeq(Ring(d, c, h, n), 2, n)
    BY <1>2, <1>5, TailIsSubSeq
<1> QED BY <1>3, <1>4, <1>5, <1>6

\* A buffer unrolled into one of twice the length holds the same contents.
LEMMA RingUnrolled ==
    ASSUME NEW S, NEW d, NEW c, NEW h, IsRing(S, d, c, h, c), NEW z \in S
    PROVE  /\ IsRing(S, Doubled(d, c, h, z), 2 * c, 0, c)
           /\ Ring(Doubled(d, c, h, z), 2 * c, 0, c) = Ring(d, c, h, c)
<1> DEFINE u == Doubled(d, c, h, z)
<1>1. c \in Nat \ {0} /\ h \in 0..(c - 1) /\ d \in [0..(c - 1) -> S]
    BY DEF IsRing
<1>2. ASSUME NEW i \in 0..(c - 1) PROVE u[i] = d[Wrapped(c, h + i)] /\ u[i] \in S
  <2>1. i \in 0..(2 * c - 1)
      BY <1>1
  <2>2. u[i] = IF i < c - h THEN d[h + i] ELSE IF i < c - h + h THEN d[i - (c - h)] ELSE z
      BY <2>1 DEF Doubled
  <2>3. CASE i < c - h
    <3>1. Wrapped(c, h + i) = h + i /\ h + i \in 0..(c - 1)
        BY <1>1, <2>3 DEF Wrapped
    <3> QED BY <1>1, <2>2, <2>3, <3>1
  <2>4. CASE ~(i < c - h)
    <3>1. Wrapped(c, h + i) = i - (c - h) /\ i - (c - h) \in 0..(c - 1) /\ i < c - h + h
        BY <1>1, <2>4 DEF Wrapped
    <3> QED BY <1>1, <2>2, <2>4, <3>1
  <2> QED BY <2>3, <2>4
<1>3. ASSUME NEW i \in 0..(2 * c - 1) PROVE u[i] \in S
  <2>1. CASE i < c
    <3>1. i \in 0..(c - 1)
        BY <1>1, <2>1
    <3> QED BY <1>2, <3>1
  <2>2. CASE ~(i < c)
    <3>1. ~(i < c - h) /\ ~(i < c - h + h)
        BY <1>1, <2>2
    <3> QED BY <3>1 DEF Doubled
  <2> QED BY <2>1, <2>2
<1>4. u \in [0..(2 * c - 1) -> S]
    BY <1>3 DEF Doubled
<1> HIDE DEF u
<1>5. IsRing(S, u, 2 * c, 0, c)
    BY <1>1, <1>4 DEF IsRing
<1>6. ASSUME NEW i \in 1..c PROVE u[Wrapped(2 * c, 0 + i - 1)] = d[Wrapped(c, h + i - 1)]
  <2>1. Wrapped(2 * c, 0 + i - 1) = i - 1 /\ i - 1 \in 0..(c - 1) /\ h + (i - 1) = h + i - 1
      BY <1>1 DEF Wrapped
  <2> QED BY <1>2, <2>1
<1>7. Ring(u, 2 * c, 0, c) = Ring(d, c, h, c)
    BY <1>6 DEF Ring
<1> QED BY <1>5, <1>7 DEF u

-----------------------------------------------------------------------------
(***************************************************************************)
(* The request queue implements a FIFO queue.                              *)
(***************************************************************************)

\* Head, tail and size of a request queue belong together.
QueueInv ==
    /\ IsRing(Values \cup {0}, data, capacity, head, queueSize)
    /\ tail = Wrapped(capacity, head + queueSize)
    /\ queueResult \in Values \cup {0, NoValue}

\* The contents of a request queue are those of its ring.
LEMMA QueueContents ==
    QueueInv => Queue!Contents = Ring(data, capacity, head, queueSize)
<1> SUFFICES ASSUME QueueInv PROVE Queue!Contents = Ring(data, capacity, head, queueSize)
    OBVIOUS
<1>1. capacity \in Nat \ {0} /\ head \in 0..(capacity - 1) /\ queueSize \in 0..capacity
    BY DEF QueueInv, IsRing
<1>2. ASSUME NEW i \in 1..queueSize
      PROVE  (head + i - 1) % capacity = Wrapped(capacity, head + i - 1)
  <2>1. head + i - 1 \in 0..(2 * capacity - 1)
      BY <1>1
  <2> QED BY <1>1, <2>1, Wrap
<1> QED BY <1>2 DEF Queue!Contents, Ring

\* At the start the queue is empty.
LEMMA QueueInit ==
    ASSUME Queue!Init
    PROVE  QueueInv /\ Queue!Fifo!Init
<1>1. QueueInv
    BY CapacityAssumption DEF Queue!Init, QueueInv, IsRing, Wrapped
<1>2. Queue!Contents = <<>>
    BY DEF Queue!Init, Queue!Contents
<1> QED BY <1>1, <1>2 DEF Queue!Init, Queue!Fifo!Init

\* enqueue, with the growth of a full buffer, appends to the contents.
LEMMA QueueEnqueue ==
    ASSUME QueueInv, NEW v \in Values, Queue!Enqueue(v)
    PROVE  QueueInv' /\ Queue!Fifo!Enqueue(v)
<1> DEFINE S == Values \cup {0}
<1>1. /\ capacity \in Nat \ {0} /\ head \in 0..(capacity - 1) /\ queueSize \in 0..capacity
      /\ tail = Wrapped(capacity, head + queueSize) /\ v \in S /\ 0 \in S
      /\ IsRing(S, data, capacity, head, queueSize)
    BY DEF QueueInv, IsRing
<1> HIDE DEF S
<1>2. queueSize' = queueSize + 1 /\ queueResult' = NoValue
    BY DEF Queue!Enqueue
<1>3. /\ IsRing(S, data', capacity', head', queueSize')
      /\ tail' = Wrapped(capacity', head' + queueSize')
      /\ Ring(data', capacity', head', queueSize') = Append(Ring(data, capacity, head, queueSize), v)
  <2>1. CASE queueSize # capacity
    <3>1. /\ data' = Written(data, tail, v) /\ tail' = (tail + 1) % capacity
          /\ UNCHANGED <<capacity, head>>
        BY <2>1 DEF Queue!Enqueue, Written
    <3>2. /\ IsRing(S, Written(data, tail, v), capacity, head, queueSize + 1)
          /\ Ring(Written(data, tail, v), capacity, head, queueSize + 1)
                 = Append(Ring(data, capacity, head, queueSize), v)
          /\ tail \in 0..(capacity - 1) /\ Wrapped(capacity, tail + 1) = Wrapped(capacity, head + (queueSize + 1))
        BY <1>1, <2>1, RingAppend
    <3>3. (tail + 1) % capacity = Wrapped(capacity, tail + 1)
      <4>1. tail + 1 \in 0..(2 * capacity - 1)
          BY <1>1, <3>2
      <4> QED BY <1>1, <4>1, Wrap
    <3> QED BY <1>2, <3>1, <3>2, <3>3
  <2>2. CASE queueSize = capacity
    <3>1. /\ data' = Written(Queue!Unrolled, capacity, v) /\ capacity' = 2 * capacity
          /\ head' = 0 /\ tail' = (capacity + 1) % (2 * capacity)
        BY <2>2 DEF Queue!Enqueue, Written
    <3>2. tail = head
        BY <1>1, <2>2 DEF Wrapped
    <3>3. Queue!Unrolled = Doubled(data, capacity, head, 0)
        BY <3>2 DEF Queue!Unrolled, Doubled
    <3>4. PICK k \in Nat : k = 2 * capacity
        BY <1>1
    <3>5. /\ IsRing(S, Queue!Unrolled, k, 0, capacity)
          /\ Ring(Queue!Unrolled, k, 0, capacity) = Ring(data, capacity, head, capacity)
        BY <1>1, <2>2, <3>3, <3>4, RingUnrolled
    <3>6. /\ capacity # k /\ capacity = Wrapped(k, 0 + capacity)
          /\ Wrapped(k, capacity + 1) = Wrapped(k, 0 + (capacity + 1))
        BY <1>1, <3>4 DEF Wrapped
    <3>7. /\ IsRing(S, Written(Queue!Unrolled, capacity, v), k, 0, capacity + 1)
          /\ Ring(Written(Queue!Unrolled, capacity, v), k, 0, capacity + 1)
                 = Append(Ring(Queue!Unrolled, k, 0, capacity), v)
        BY <1>1, <3>5, <3>6, RingAppend
    <3>8. (capacity + 1) % (2 * capacity) = Wrapped(2 * capacity, capacity + 1)
      <4>1. 2 * capacity \in Nat \ {0} /\ capacity + 1 \in 0..(2 * (2 * capacity) - 1)
          BY <1>1
      <4> QED BY <4>1, Wrap
    <3> QED BY <1>2, <2>2, <3>1, <3>4, <3>5, <3>6, <3>7, <3>8
  <2> QED BY <2>1, <2>2
<1>4. QueueInv'
    BY <1>2, <1>3 DEF QueueInv, S
<1>5. Queue!Contents' = Append(Queue!Contents, v)
  <2>1. (QueueInv => Queue!Contents = Ring(data, capacity, head, queueSize))'
      BY QueueContents, PTL
  <2> QED BY <1>3, <1>4, <2>1, QueueContents
<1> QED BY <1>2, <1>4, <1>5 DEF Queue!Fifo!Enqueue

\* dequeue returns the first entry, or undefined when there is none.
LEMMA QueueDequeue ==
    ASSUME QueueInv, Queue!Dequeue
    PROVE  QueueInv' /\ Queue!Fifo!Dequeue
<1> DEFINE S == Values \cup {0}
<1>1. /\ capacity \in Nat \ {0} /\ head \in 0..(capacity - 1) /\ queueSize \in 0..capacity
      /\ data \in [0..(capacity - 1) -> S]
      /\ tail = Wrapped(capacity, head + queueSize)
      /\ IsRing(S, data, capacity, head, queueSize)
    BY DEF QueueInv, IsRing
<1>2. UNCHANGED <<data, capacity, tail>>
    BY DEF Queue!Dequeue
<1>3. Queue!Contents = Ring(data, capacity, head, queueSize)
    BY QueueContents
<1>4. (QueueInv => Queue!Contents = Ring(data, capacity, head, queueSize))'
    BY QueueContents, PTL
<1>5. CASE queueSize = 0
  <2>1. queueResult' = NoValue /\ UNCHANGED <<head, queueSize>>
      BY <1>5 DEF Queue!Dequeue
  <2>2. QueueInv'
      BY <1>2, <2>1 DEF QueueInv
  <2>3. Queue!Contents' = Queue!Contents
      BY <1>2, <1>3, <1>4, <2>1, <2>2
  <2>4. Queue!Contents = <<>>
    <3>1. Ring(data, capacity, head, queueSize) \in Seq(S) /\ Len(Ring(data, capacity, head, queueSize)) = 0
        BY <1>1, <1>5, RingSeq
    <3> QED BY <1>3, <3>1
  <2> QED BY <2>1, <2>2, <2>3, <2>4 DEF Queue!Fifo!Dequeue
<1>6. CASE queueSize # 0
  <2>1. queueResult' = data[head] /\ head' = (head + 1) % capacity /\ queueSize' = queueSize - 1
      BY <1>6 DEF Queue!Dequeue
  <2>2. head' = Wrapped(capacity, head + 1)
    <3>1. head + 1 \in 0..(2 * capacity - 1)
        BY <1>1
    <3> QED BY <1>1, <2>1, <3>1, Wrap
  <2>3. PICK m : m = queueSize - 1
      OBVIOUS
  <2>4. PICK k \in 0..queueSize : k = 1
      BY <1>1, <1>6
  <2>5. /\ IsRing(S, data, capacity, head', m)
        /\ Ring(data, capacity, head', m) = SubSeq(Ring(data, capacity, head, queueSize), 2, queueSize)
        /\ Wrapped(capacity, head' + m) = Wrapped(capacity, head + queueSize)
    <3>1. /\ IsRing(S, data, capacity, head', queueSize - k)
          /\ Ring(data, capacity, head', queueSize - k)
                 = SubSeq(Ring(data, capacity, head, queueSize), k + 1, queueSize)
          /\ Wrapped(capacity, head' + (queueSize - k)) = Wrapped(capacity, head + queueSize)
      <4>1. head' = Wrapped(capacity, head + k)
          BY <2>2, <2>4
      <4>2. IsRing(S, data, capacity, head, queueSize)
          BY <1>1
      <4> HIDE DEF S
      <4> QED BY <4>1, <4>2, RingCut
    <3>2. queueSize - k = m /\ k + 1 = 2
        BY <1>1, <2>3, <2>4
    <3> QED BY <3>1, <3>2
  <2>6. /\ Ring(data, capacity, head, queueSize) # <<>>
        /\ Head(Ring(data, capacity, head, queueSize)) = data[head]
        /\ Tail(Ring(data, capacity, head, queueSize))
               = SubSeq(Ring(data, capacity, head, queueSize), 2, queueSize)
      BY <1>1, <1>6, RingHead
  <2>7. QueueInv'
    <3>1. data[head] \in S
        BY <1>1
    <3> QED BY <1>1, <1>2, <2>1, <2>3, <2>5, <3>1 DEF QueueInv
  <2>8. Queue!Contents' = Tail(Queue!Contents)
      BY <1>2, <1>3, <1>4, <2>1, <2>3, <2>5, <2>6, <2>7
  <2> QED BY <1>3, <2>1, <2>6, <2>7, <2>8 DEF Queue!Fifo!Dequeue
<1> QED BY <1>5, <1>6

\* clear empties the queue, whatever stays in the buffer.
LEMMA QueueClear ==
    ASSUME QueueInv, Queue!Clear
    PROVE  QueueInv' /\ Queue!Fifo!Clear
<1>1. /\ head' = 0 /\ tail' = 0 /\ queueSize' = 0 /\ queueResult' = NoValue
      /\ UNCHANGED <<data, capacity>>
    BY DEF Queue!Clear
<1>2. QueueInv'
    BY <1>1 DEF QueueInv, IsRing, Wrapped
<1>3. Queue!Contents' = <<>>
    BY <1>1 DEF Queue!Contents
<1> QED BY <1>1, <1>2, <1>3 DEF Queue!Fifo!Clear

\* Every call of a request queue is a call of the FIFO queue.
LEMMA QueueStep ==
    ASSUME QueueInv, Queue!Next
    PROVE  QueueInv' /\ Queue!Fifo!Next
BY QueueEnqueue, QueueDequeue, QueueClear DEF Queue!Next, Queue!Fifo!Next

-----------------------------------------------------------------------------
(***************************************************************************)
(* Binary search. The search is a recursive function: that it exists is    *)
(* shown by giving its values, that they are the only ones by the least    *)
(* number of entries on which they could differ.                           *)
(***************************************************************************)

\* Every set of natural numbers that is not empty has a least element.
LEMMA Least ==
    ASSUME NEW T \in SUBSET Nat, T # {}
    PROVE  \E m \in T : \A n \in T : m <= n
<1> DEFINE R == {ss \in Nat \X Nat : ss[1] < ss[2]}
<1>1. OpToRel(<, Nat) = {ss \in Nat \X Nat : ss[1] < ss[2]}
    BY DEF OpToRel
<1>2. IsWellFoundedOn(R, Nat)
    BY <1>1, NatLessThanWellFounded, Zenon
<1>3. PICK m \in T : \A n \in T : <<n, m>> \notin R
  <2> HIDE DEF R
  <2> QED BY <1>2, WFMin
<1>4. ASSUME NEW n \in T PROVE m <= n
  <2>1. <<n, m>> \in Nat \X Nat /\ <<n, m>>[1] = n /\ <<n, m>>[2] = m
      OBVIOUS
  <2>2. <<n, m>> \notin R
      BY <1>3
  <2>3. ~(n < m)
      BY <2>1, <2>2
  <2> QED BY <2>1, <2>3
<1> QED BY <1>4

\* One step of the search among n entries of which the first k are below the target.
Halved(n, k, f) ==
    [range \in (0..n) \X (0..n) |->
        LET left == range[1]
            right == range[2]
            mid == left + (right - left) \div 2
        IN  IF left >= right THEN left
            ELSE IF mid < k THEN f[<<mid + 1, right>>]
            ELSE f[<<left, mid>>]]

\* The middle of a range that is not empty.
LEMMA Middle ==
    ASSUME NEW left \in Nat, NEW right \in Nat, left < right
    PROVE  /\ left + (right - left) \div 2 \in Nat
           /\ left <= left + (right - left) \div 2
           /\ left + (right - left) \div 2 < right
OBVIOUS

\* The search has values: k, or the end of the range that is closest to it.
LEMMA SearchExists ==
    ASSUME NEW n \in Nat, NEW k \in 0..n
    PROVE  \E f : f = Halved(n, k, f)
<1> DEFINE Close(left, right) ==
               IF left >= right THEN left ELSE IF k < left THEN left ELSE IF k > right THEN right ELSE k
           g == [range \in (0..n) \X (0..n) |-> Close(range[1], range[2])]
<1>1. ASSUME NEW left \in 0..n, NEW right \in 0..n, NEW mid,
             mid = left + (right - left) \div 2
      PROVE  Close(left, right) =
                 IF left >= right THEN left
                 ELSE IF mid < k THEN g[<<mid + 1, right>>] ELSE g[<<left, mid>>]
  <2>1. CASE left >= right
      BY <2>1
  <2>2. CASE left < right
    <3>1. mid \in Nat /\ left <= mid /\ mid < right
        BY <1>1, <2>2, Middle
    <3>2. g[<<mid + 1, right>>] = Close(mid + 1, right) /\ g[<<left, mid>>] = Close(left, mid)
        BY <3>1
    <3> QED BY <2>2, <3>1, <3>2
  <2> QED BY <2>1, <2>2
<1>2. ASSUME NEW range \in (0..n) \X (0..n)
      PROVE  g[range] = Halved(n, k, g)[range]
  <2>1. range[1] \in 0..n /\ range[2] \in 0..n
      OBVIOUS
  <2> HIDE DEF g, Close
  <2>2. Halved(n, k, g)[range] =
            IF range[1] >= range[2] THEN range[1]
            ELSE IF range[1] + (range[2] - range[1]) \div 2 < k
                 THEN g[<<range[1] + (range[2] - range[1]) \div 2 + 1, range[2]>>]
            ELSE g[<<range[1], range[1] + (range[2] - range[1]) \div 2>>]
      BY DEF Halved
  <2>3. g[range] = Close(range[1], range[2])
      BY DEF g
  <2> QED BY <1>1, <2>1, <2>2, <2>3
<1>3. g = Halved(n, k, g)
    BY <1>2 DEF Halved
<1> QED BY <1>3

\* The search among all entries finds k and nothing else.
LEMMA SearchFinds ==
    ASSUME NEW n \in Nat, NEW k \in 0..n, NEW f, f = Halved(n, k, f)
    PROVE  f[<<0, n>>] = k
<1> DEFINE Wrong(left, right) == left <= k /\ k <= right /\ f[<<left, right>>] # k
           T == {d \in Nat : \E left, right \in 0..n : right - left = d /\ Wrong(left, right)}
<1>1. ASSUME NEW left \in 0..n, NEW right \in 0..n, NEW mid,
             mid = left + (right - left) \div 2
      PROVE  f[<<left, right>>] =
                 IF left >= right THEN left
                 ELSE IF mid < k THEN f[<<mid + 1, right>>] ELSE f[<<left, mid>>]
    BY <1>1 DEF Halved
<1>2. T = {}
  <2> SUFFICES ASSUME T # {} PROVE FALSE
      OBVIOUS
  <2>1. PICK d \in T : \A e \in T : d <= e
      BY Least
  <2>2. PICK left \in 0..n, right \in 0..n : right - left = d /\ Wrong(left, right)
      BY <2>1
  <2>3. PICK mid : mid = left + (right - left) \div 2
      OBVIOUS
  <2>4. f[<<left, right>>] =
            IF left >= right THEN left
            ELSE IF mid < k THEN f[<<mid + 1, right>>] ELSE f[<<left, mid>>]
      BY <1>1, <2>3
  <2>5. left < right => mid \in Nat /\ left <= mid /\ mid < right
      BY <2>3, Middle
  <2>6. ASSUME NEW i \in 0..n, NEW j \in 0..n, Wrong(i, j), j - i \in Nat PROVE d <= j - i
    <3>1. j - i \in T
        BY <2>6
    <3> QED BY <2>1, <3>1
  <2> HIDE DEF T
  <2>7. left <= k /\ k <= right /\ f[<<left, right>>] # k
      BY <2>2
  <2>8. left < right
      BY <2>4, <2>7
  <2>9. CASE mid < k
    <3>1. mid + 1 \in 0..n /\ mid + 1 <= k /\ right - (mid + 1) \in Nat /\ right - (mid + 1) < d
        BY <2>2, <2>5, <2>7, <2>8, <2>9
    <3>2. Wrong(mid + 1, right)
        BY <2>4, <2>7, <2>8, <2>9, <3>1
    <3>3. d <= right - (mid + 1)
        BY <2>6, <3>1, <3>2
    <3> QED BY <2>2, <3>1, <3>3
  <2>10. CASE ~(mid < k)
    <3>1. mid \in 0..n /\ k <= mid /\ mid - left \in Nat /\ mid - left < d
        BY <2>2, <2>5, <2>7, <2>8, <2>10
    <3>2. Wrong(left, mid)
        BY <2>4, <2>7, <2>8, <2>10, <3>1
    <3>3. d <= mid - left
        BY <2>6, <3>1, <3>2
    <3> QED BY <2>2, <3>1, <3>3
  <2> QED BY <2>9, <2>10
<1>3. n - 0 \in Nat /\ 0 \in 0..n /\ n \in 0..n
    OBVIOUS
<1>4. ~Wrong(0, n)
    BY <1>2, <1>3
<1> QED BY <1>3, <1>4

-----------------------------------------------------------------------------
(***************************************************************************)
(* Sorted sequences.                                                       *)
(***************************************************************************)

Sorted(l) == \A i, j \in 1..Len(l) : i <= j => l[i] <= l[j]

\* The entries of a sorted sequence that are below a target are its first ones.
LEMMA SortedBelow ==
    ASSUME NEW l \in Seq(Nat), Sorted(l), NEW t \in Nat
    PROVE  \E k \in 0..Len(l) : \A i \in 1..Len(l) : l[i] < t <=> i <= k
<1> DEFINE T == {j \in 1..(Len(l) + 1) : j = Len(l) + 1 \/ ~(l[j] < t)}
<1>1. Len(l) \in Nat /\ DOMAIN l = 1..Len(l) /\ \A i \in 1..Len(l) : l[i] \in Nat
    OBVIOUS
<1>2. T \in SUBSET Nat /\ Len(l) + 1 \in T
    BY <1>1
<1>3. PICK m \in T : \A j \in T : m <= j
    BY <1>2, Least
<1>4. PICK k \in 0..Len(l) : m = k + 1
    BY <1>1
<1>5. ASSUME NEW i \in 1..Len(l) PROVE l[i] < t <=> i <= k
  <2>1. CASE i <= k
    <3>1. i \notin T
        BY <1>1, <1>3, <1>4, <2>1
    <3> QED BY <1>1, <2>1, <3>1
  <2>2. CASE ~(i <= k)
    <3>1. m \in 1..Len(l) /\ m <= i /\ ~(l[m] < t)
        BY <1>1, <1>3, <1>4, <2>2
    <3>2. l[m] <= l[i]
        BY <3>1 DEF Sorted
    <3> QED BY <1>1, <2>2, <3>1, <3>2
  <2> QED BY <2>1, <2>2
<1> QED BY <1>5

\* A sorted sequence stays sorted when its latest entry is appended.
LEMMA SortedAppend ==
    ASSUME NEW l \in Seq(Nat), Sorted(l), NEW t \in Nat, \A i \in 1..Len(l) : l[i] <= t
    PROVE  Sorted(Append(l, t))
<1>1. Len(l) \in Nat /\ Len(Append(l, t)) = Len(l) + 1
    OBVIOUS
<1>2. Append(l, t)[Len(l) + 1] = t /\ \A i \in 1..Len(l) : Append(l, t)[i] = l[i]
    OBVIOUS
<1>3. ASSUME NEW i \in 1..(Len(l) + 1), NEW j \in 1..(Len(l) + 1), i <= j
      PROVE  Append(l, t)[i] <= Append(l, t)[j]
  <2>1. CASE j \in 1..Len(l)
    <3>1. i \in 1..Len(l)
        BY <1>1, <1>3, <2>1
    <3> QED BY <1>2, <1>3, <2>1, <3>1 DEF Sorted
  <2>2. CASE j = Len(l) + 1 /\ i \in 1..Len(l)
      BY <1>2, <2>2
  <2>3. CASE j = Len(l) + 1 /\ i = Len(l) + 1
      BY <1>2, <2>3
  <2> QED BY <1>1, <1>3, <2>1, <2>2, <2>3
<1> QED BY <1>1, <1>3 DEF Sorted

\* A sorted sequence stays sorted when its first entries are cut off.
LEMMA SortedCut ==
    ASSUME NEW l \in Seq(Nat), Sorted(l), NEW k \in 0..Len(l)
    PROVE  Sorted(SubSeq(l, k + 1, Len(l)))
<1>1. Len(l) \in Nat /\ k + 1 \in 1..(Len(l) + 1)
    OBVIOUS
<1>2. /\ Len(SubSeq(l, k + 1, Len(l))) = IF k + 1 <= Len(l) THEN Len(l) - (k + 1) + 1 ELSE 0
      /\ \A i \in 1..(Len(l) - (k + 1) + 1) : SubSeq(l, k + 1, Len(l))[i] = l[(k + 1) + i - 1]
    BY <1>1, SubSeqProperties
<1>3. ASSUME NEW i \in 1..Len(SubSeq(l, k + 1, Len(l))), NEW j \in 1..Len(SubSeq(l, k + 1, Len(l))), i <= j
      PROVE  SubSeq(l, k + 1, Len(l))[i] <= SubSeq(l, k + 1, Len(l))[j]
  <2>1. i \in 1..(Len(l) - (k + 1) + 1) /\ j \in 1..(Len(l) - (k + 1) + 1)
      BY <1>1, <1>2
  <2>2. (k + 1) + i - 1 \in 1..Len(l) /\ (k + 1) + j - 1 \in 1..Len(l) /\ (k + 1) + i - 1 <= (k + 1) + j - 1
      BY <1>1, <1>3, <2>1
  <2>3. l[(k + 1) + i - 1] <= l[(k + 1) + j - 1]
      BY <2>2 DEF Sorted
  <2> QED BY <1>2, <2>1, <2>3
<1> QED BY <1>3 DEF Sorted

-----------------------------------------------------------------------------
(***************************************************************************)
(* The grant log implements a bounded sorted sequence.                     *)
(***************************************************************************)

\* Head, tail and size of the grant log belong together; what it holds is sorted.
LogInv ==
    /\ IsRing(Times \cup {0}, values, Capacity, headIndex, logSize)
    /\ tailIndex = Wrapped(Capacity, headIndex + logSize)
    /\ Sorted(Ring(values, Capacity, headIndex, logSize))
    /\ \/ call \in {<<op>> : op \in {"new", "dequeue", "peek", "clear"}}
       \/ call \in {"enqueue", "removeBefore"} \X Times
    /\ logResult \in Times \cup {0, NoValue, QueueFull}

\* The contents of the grant log are those of its ring, read by logical index.
LEMMA LogContents ==
    LogInv => /\ Log!Contents = Ring(values, Capacity, headIndex, logSize)
              /\ Ring(values, Capacity, headIndex, logSize) \in Seq(Nat)
              /\ Len(Ring(values, Capacity, headIndex, logSize)) = logSize
              /\ \A i \in 0..(logSize - 1) :
                     Log!At(i) = Ring(values, Capacity, headIndex, logSize)[i + 1]
<1> DEFINE L == Ring(values, Capacity, headIndex, logSize)
<1> SUFFICES ASSUME LogInv
             PROVE  /\ Log!Contents = L /\ L \in Seq(Nat) /\ Len(L) = logSize
                    /\ \A i \in 0..(logSize - 1) : Log!At(i) = L[i + 1]
    OBVIOUS
<1>1. Capacity \in Nat \ {0} /\ headIndex \in 0..(Capacity - 1) /\ logSize \in 0..Capacity
    BY DEF LogInv, IsRing
<1>2. ASSUME NEW i \in 1..logSize
      PROVE  Log!At(i - 1) = L[i]
  <2>1. headIndex + (i - 1) \in 0..(2 * Capacity - 1)
      BY <1>1
  <2>2. (headIndex + (i - 1)) % Capacity = Wrapped(Capacity, headIndex + (i - 1))
      BY <1>1, <2>1, Wrap
  <2>3. headIndex + (i - 1) = headIndex + i - 1
      BY <1>1
  <2>4. L[i] = values[Wrapped(Capacity, headIndex + i - 1)]
      BY DEF Ring
  <2> QED BY <2>2, <2>3, <2>4 DEF Log!At
<1>3. Log!Contents = L
  <2>1. Log!Contents = [i \in 1..logSize |-> Log!At(i - 1)]
      BY DEF Log!Contents
  <2>2. L = [i \in 1..logSize |-> L[i]]
      BY DEF Ring
  <2> HIDE DEF L
  <2> QED BY <1>2, <2>1, <2>2
<1>4. L \in Seq(Times \cup {0}) /\ Len(L) = logSize
    BY RingSeq DEF LogInv
<1>5. L \in Seq(Nat)
  <2>1. Times \cup {0} \subseteq Nat
      BY ValuesAssumption
  <2> HIDE DEF L
  <2> QED BY <1>4, <2>1, SeqMonotonic
<1>6. ASSUME NEW i \in 0..(logSize - 1) PROVE Log!At(i) = L[i + 1]
  <2>1. i + 1 \in 1..logSize /\ (i + 1) - 1 = i
      BY <1>1
  <2>2. Log!At((i + 1) - 1) = L[i + 1]
      BY <1>2, <2>1
  <2> QED BY <2>1, <2>2
<1> QED BY <1>3, <1>4, <1>5, <1>6

\* The binary search returns the number of entries below the target.
LEMMA SearchCounts ==
    ASSUME LogInv, NEW t \in Times
    PROVE  /\ Log!BinarySearchLowerBound(t) \in 0..logSize
           /\ \A i \in DOMAIN Log!Contents : Log!Contents[i] < t <=> i <= Log!BinarySearchLowerBound(t)
<1> DEFINE L == Ring(values, Capacity, headIndex, logSize)
           Step(f) == [range \in (0..logSize) \X (0..logSize) |->
                         LET left == range[1]
                             right == range[2]
                             mid == left + (right - left) \div 2
                         IN  IF left >= right THEN left
                             ELSE IF Log!At(mid) < t THEN f[<<mid + 1, right>>]
                             ELSE f[<<left, mid>>]]
<1>1. /\ Log!Contents = L /\ L \in Seq(Nat) /\ Len(L) = logSize /\ logSize \in Nat
      /\ \A i \in 0..(logSize - 1) : Log!At(i) = L[i + 1]
    BY LogContents DEF LogInv, IsRing
<1>2. Sorted(L) /\ t \in Nat
    BY ValuesAssumption DEF LogInv
<1> HIDE DEF L
<1>3. PICK k \in 0..logSize : \A i \in 1..logSize : L[i] < t <=> i <= k
    BY <1>1, <1>2, SortedBelow
<1>4. ASSUME NEW i \in 0..(logSize - 1) PROVE Log!At(i) < t <=> i < k
  <2>1. i + 1 \in 1..logSize
      BY <1>1
  <2>2. L[i + 1] < t <=> i + 1 <= k
      BY <1>3, <2>1
  <2> QED BY <1>1, <2>2
<1>5. ASSUME NEW f PROVE Step(f) = Halved(logSize, k, f)
  <2>1. ASSUME NEW range \in (0..logSize) \X (0..logSize), NEW mid,
               mid = range[1] + (range[2] - range[1]) \div 2, ~(range[1] >= range[2])
        PROVE  Log!At(mid) < t <=> mid < k
    <3>1. mid \in Nat /\ mid < range[2] /\ range[2] \in 0..logSize
        BY <1>1, <2>1, Middle
    <3>2. mid \in 0..(logSize - 1)
        BY <1>1, <3>1
    <3> QED BY <1>4, <3>2
  <2> QED BY <2>1 DEF Halved
<1>6. Log!BinarySearchLowerBound(t) = (CHOOSE f : f = Step(f))[<<0, logSize>>]
    BY DEF Log!BinarySearchLowerBound
<1> HIDE DEF Step
<1>7. \E f : f = Step(f)
    BY <1>1, <1>5, SearchExists
<1>8. \A f : f = Step(f) => f[<<0, logSize>>] = k
    BY <1>1, <1>5, SearchFinds
<1>9. Log!BinarySearchLowerBound(t) = k
  <2>1. PICK f : f = (CHOOSE g : g = Step(g))
      OBVIOUS
  <2>2. f = Step(f)
      BY <1>7, <2>1
  <2> QED BY <1>6, <1>8, <2>1, <2>2
<1> QED BY <1>1, <1>3, <1>9

\* At the start the log is empty.
LEMMA LogInit ==
    ASSUME Log!Init
    PROVE  LogInv /\ Log!Abstract!Init
<1>1. IsRing(Times \cup {0}, values, Capacity, headIndex, logSize) /\ tailIndex = Wrapped(Capacity, headIndex + logSize)
    BY CapacityAssumption DEF Log!Init, Log!Slots, IsRing, Wrapped
<1>2. Ring(values, Capacity, headIndex, logSize) = <<>>
    BY DEF Log!Init, Ring
<1>3. Sorted(<<>>)
    BY DEF Sorted
<1>4. call = <<"new">> /\ logResult = NoValue
    BY DEF Log!Init
<1>5. LogInv
    BY <1>1, <1>2, <1>3, <1>4 DEF LogInv
<1> QED BY <1>2, <1>4, <1>5, LogContents DEF Log!Abstract!Init

\* What the contents are in the next state, and the range of a result.
LEMMA LogFacts ==
    ASSUME LogInv
    PROVE  /\ Capacity \in Nat \ {0} /\ headIndex \in 0..(Capacity - 1) /\ logSize \in 0..Capacity
           /\ values \in [0..(Capacity - 1) -> Times \cup {0}]
           /\ IsRing(Times \cup {0}, values, Capacity, headIndex, logSize)
           /\ Log!Abstract!Front(Log!Contents) = IF logSize = 0 THEN NoValue ELSE values[headIndex]
           /\ Log!Contents = <<>> <=> logSize = 0
           /\ Len(Log!Contents) = logSize
           /\ values[headIndex] \in Times \cup {0}
<1>1. /\ Capacity \in Nat \ {0} /\ headIndex \in 0..(Capacity - 1) /\ logSize \in 0..Capacity
      /\ values \in [0..(Capacity - 1) -> Times \cup {0}]
      /\ IsRing(Times \cup {0}, values, Capacity, headIndex, logSize)
    BY DEF LogInv, IsRing
<1>2. /\ Log!Contents = Ring(values, Capacity, headIndex, logSize)
      /\ Log!Contents \in Seq(Nat) /\ Len(Log!Contents) = logSize
    BY LogContents
<1>3. Log!Contents = <<>> <=> logSize = 0
    BY <1>2
<1>4. Log!Abstract!Front(Log!Contents) = IF logSize = 0 THEN NoValue ELSE values[headIndex]
  <2>1. logSize # 0 => Head(Log!Contents) = values[headIndex]
      BY <1>1, <1>2, RingHead
  <2> QED BY <1>3, <2>1 DEF Log!Abstract!Front
<1> QED BY <1>1, <1>2, <1>3, <1>4

\* enqueue appends its timestamp, or throws when the log is full.
LEMMA LogEnqueue ==
    ASSUME LogInv, NEW t \in Times, Log!Enqueue(t)
    PROVE  LogInv' /\ Log!Abstract!Enqueue(t)
<1> DEFINE S == Times \cup {0}
           L == Ring(values, Capacity, headIndex, logSize)
<1>1. /\ Capacity \in Nat \ {0} /\ headIndex \in 0..(Capacity - 1) /\ logSize \in 0..Capacity
      /\ IsRing(S, values, Capacity, headIndex, logSize)
      /\ tailIndex = Wrapped(Capacity, headIndex + logSize) /\ t \in S /\ t \in Nat
    BY LogFacts, ValuesAssumption DEF LogInv
<1>2. /\ Log!Contents = L /\ L \in Seq(Nat) /\ Len(L) = logSize /\ Sorted(L)
      /\ \A i \in 0..(logSize - 1) : Log!At(i) = L[i + 1]
    BY LogContents DEF LogInv
<1>3. (LogInv => Log!Contents = Ring(values, Capacity, headIndex, logSize))'
    BY LogContents, PTL
<1>4. \A i \in 1..logSize : L[i] <= t
  <2>1. \A i \in 0..(logSize - 1) : Log!At(i) <= t
      BY DEF Log!Enqueue, Log!IsLatest
  <2>2. ASSUME NEW i \in 1..logSize PROVE L[i] <= t
    <3>1. i - 1 \in 0..(logSize - 1) /\ (i - 1) + 1 = i
        BY <1>1
    <3>2. Log!At(i - 1) = L[(i - 1) + 1]
        BY <1>2, <3>1
    <3> HIDE DEF L
    <3> QED BY <2>1, <3>1, <3>2
  <2> QED BY <2>2
<1>5. call' = <<"enqueue", t>> /\ UNCHANGED headIndex
    BY DEF Log!Enqueue
<1>6. CASE logSize = Capacity
  <2>1. logResult' = QueueFull /\ UNCHANGED <<values, tailIndex, logSize>>
      BY <1>6 DEF Log!Enqueue
  <2>2. LogInv'
      BY <1>5, <2>1 DEF LogInv
  <2>3. Log!Contents' = Log!Contents
      BY <1>2, <1>3, <1>5, <2>1, <2>2
  <2> HIDE DEF L
  <2>4. \A i \in DOMAIN Log!Contents : Log!Contents[i] <= t
      BY <1>2, <1>4
  <2> QED BY <1>2, <1>5, <1>6, <2>1, <2>2, <2>3, <2>4 DEF Log!Abstract!Enqueue
<1>7. CASE logSize # Capacity
  <2>1. /\ values' = Written(values, tailIndex, t) /\ tailIndex' = (tailIndex + 1) % Capacity
        /\ logSize' = logSize + 1 /\ logResult' = NoValue
      BY <1>7 DEF Log!Enqueue, Written
  <2>2. /\ IsRing(S, Written(values, tailIndex, t), Capacity, headIndex, logSize + 1)
        /\ Ring(Written(values, tailIndex, t), Capacity, headIndex, logSize + 1) = Append(L, t)
        /\ tailIndex \in 0..(Capacity - 1)
        /\ Wrapped(Capacity, tailIndex + 1) = Wrapped(Capacity, headIndex + (logSize + 1))
    <3>1. IsRing(S, values, Capacity, headIndex, logSize)
        BY <1>1
    <3>2. t \in S /\ tailIndex = Wrapped(Capacity, headIndex + logSize)
        BY <1>1
    <3> HIDE DEF S
    <3> QED BY <3>1, <3>2, <1>7, RingAppend
  <2>3. (tailIndex + 1) % Capacity = Wrapped(Capacity, tailIndex + 1)
    <3>1. tailIndex + 1 \in 0..(2 * Capacity - 1)
        BY <1>1, <2>2
    <3> QED BY <1>1, <3>1, Wrap
  <2> HIDE DEF L
  <2>4. Sorted(Append(L, t))
      BY <1>1, <1>2, <1>4, SortedAppend
  <2>5. LogInv'
      BY <1>5, <2>1, <2>2, <2>3, <2>4 DEF LogInv
  <2>6. Log!Contents' = Append(Log!Contents, t)
      BY <1>2, <1>3, <1>5, <2>1, <2>2, <2>5
  <2>7. Len(Log!Contents) < Capacity /\ \A i \in DOMAIN Log!Contents : Log!Contents[i] <= t
      BY <1>1, <1>2, <1>4, <1>7
  <2> QED BY <1>5, <2>1, <2>5, <2>6, <2>7 DEF Log!Abstract!Enqueue
<1> QED BY <1>6, <1>7

\* Moving the head on by k cuts the contents, which stay sorted.
LEMMA LogCut ==
    ASSUME LogInv, NEW k \in 0..logSize, headIndex' = (headIndex + k) % Capacity,
           logSize' = logSize - k, UNCHANGED <<values, tailIndex>>,
           call' \in {"removeBefore"} \X Times \/ call' = <<"dequeue">>,
           logResult' \in Times \cup {0, NoValue, QueueFull}
    PROVE  LogInv' /\ Log!Contents' = SubSeq(Log!Contents, k + 1, logSize)
<1> DEFINE S == Times \cup {0}
           L == Ring(values, Capacity, headIndex, logSize)
<1>1. /\ Capacity \in Nat \ {0} /\ headIndex \in 0..(Capacity - 1) /\ logSize \in 0..Capacity
      /\ tailIndex = Wrapped(Capacity, headIndex + logSize)
    BY LogFacts DEF LogInv
<1>2. IsRing(S, values, Capacity, headIndex, logSize)
    BY DEF LogInv
<1>3. Log!Contents = L /\ L \in Seq(Nat) /\ Len(L) = logSize /\ Sorted(L)
    BY LogContents DEF LogInv
<1>4. (LogInv => Log!Contents = Ring(values, Capacity, headIndex, logSize))'
    BY LogContents, PTL
<1>5. headIndex' = Wrapped(Capacity, headIndex + k)
  <2>1. headIndex + k \in 0..(2 * Capacity - 1)
      BY <1>1
  <2> QED BY <1>1, <2>1, Wrap
<1>6. /\ IsRing(S, values, Capacity, headIndex', logSize - k)
      /\ Ring(values, Capacity, headIndex', logSize - k) = SubSeq(L, k + 1, logSize)
      /\ Wrapped(Capacity, headIndex' + (logSize - k)) = Wrapped(Capacity, headIndex + logSize)
  <2> HIDE DEF S
  <2> QED BY <1>2, <1>5, RingCut
<1> HIDE DEF L
<1>7. Sorted(SubSeq(L, k + 1, logSize))
    BY <1>3, SortedCut
<1>8. LogInv'
    BY <1>1, <1>6, <1>7 DEF LogInv
<1>9. Log!Contents' = SubSeq(Log!Contents, k + 1, logSize)
    BY <1>3, <1>4, <1>6, <1>8
<1> QED BY <1>8, <1>9

\* clear, and the cut of all entries, empty the log.
LEMMA LogReset ==
    ASSUME LogInv, Log!Reset,
           call' \in {"removeBefore"} \X Times \/ call' = <<"clear">>, logResult' = NoValue
    PROVE  LogInv' /\ Log!Contents' = <<>>
<1>1. headIndex' = 0 /\ tailIndex' = 0 /\ logSize' = 0 /\ UNCHANGED values
    BY DEF Log!Reset
<1>2. IsRing(Times \cup {0}, values', Capacity, 0, 0) /\ 0 = Wrapped(Capacity, 0 + 0)
    BY <1>1, LogFacts DEF IsRing, Wrapped
<1>3. Ring(values', Capacity, 0, 0) = <<>> /\ Sorted(<<>>)
    BY DEF Ring, Sorted
<1>4. LogInv'
    BY <1>1, <1>2, <1>3 DEF LogInv
<1>5. Log!Contents' = <<>>
    BY <1>1 DEF Log!Contents
<1> QED BY <1>4, <1>5

\* dequeue returns the first entry and removes it; peek only returns it.
LEMMA LogDequeue ==
    ASSUME LogInv, Log!Dequeue \/ Log!Peek
    PROVE  LogInv' /\ (Log!Abstract!Dequeue \/ Log!Abstract!Peek)
<1>1. /\ logSize \in Nat /\ Log!Abstract!Front(Log!Contents) = IF logSize = 0 THEN NoValue ELSE values[headIndex]
      /\ Log!Contents = <<>> <=> logSize = 0
      /\ values[headIndex] \in Times \cup {0}
      /\ Len(Log!Contents) = logSize /\ Log!Contents \in Seq(Nat)
    BY LogFacts, LogContents
<1>2. (LogInv => Log!Contents = Ring(values, Capacity, headIndex, logSize))' /\ Log!Contents = Ring(values, Capacity, headIndex, logSize)
    BY LogContents, PTL
<1>3. logResult' = Log!Abstract!Front(Log!Contents)
    BY <1>1 DEF Log!Dequeue, Log!Peek
<1>4. CASE Log!Peek \/ logSize = 0
  <2>1. /\ UNCHANGED <<values, headIndex, tailIndex, logSize>>
        /\ (call' = <<"peek">> /\ Log!Peek) \/ (call' = <<"dequeue">> /\ logSize = 0)
      BY <1>4 DEF Log!Dequeue, Log!Peek
  <2>2. LogInv'
      BY <1>1, <1>3, <2>1 DEF LogInv
  <2>3. Log!Contents' = Log!Contents
      BY <1>2, <2>1, <2>2
  <2> QED BY <1>1, <1>3, <2>1, <2>2, <2>3 DEF Log!Abstract!Dequeue, Log!Abstract!Peek
<1>5. CASE Log!Dequeue /\ logSize # 0
  <2>1. /\ call' = <<"dequeue">> /\ headIndex' = (headIndex + 1) % Capacity
        /\ logSize' = logSize - 1 /\ UNCHANGED <<values, tailIndex>>
      BY <1>5 DEF Log!Dequeue
  <2>2. 1 \in 0..logSize /\ logResult' \in Times \cup {0, NoValue, QueueFull}
      BY <1>1, <1>3, <1>5
  <2>3. LogInv' /\ Log!Contents' = SubSeq(Log!Contents, 1 + 1, logSize)
      BY <2>1, <2>2, LogCut
  <2>4. Tail(Log!Contents) = SubSeq(Log!Contents, 2, logSize)
      BY <1>1, <1>5, TailIsSubSeq
  <2> QED BY <1>1, <1>3, <1>5, <2>1, <2>3, <2>4 DEF Log!Abstract!Dequeue
<1> QED BY <1>4, <1>5

\* removeBefore cuts exactly the entries below its target.
LEMMA LogRemoveBefore ==
    ASSUME LogInv, NEW t \in Times, Log!RemoveBefore(t)
    PROVE  LogInv' /\ Log!Abstract!RemoveBefore(t)
<1>1. PICK k : k = Log!BinarySearchLowerBound(t)
    OBVIOUS
<1>2. k \in 0..logSize /\ \A i \in DOMAIN Log!Contents : Log!Contents[i] < t <=> i <= k
    BY <1>1, SearchCounts
<1>3. Log!Contents \in Seq(Nat) /\ Len(Log!Contents) = logSize /\ logSize \in Nat
    BY LogContents, LogFacts
<1>4. call' = <<"removeBefore", t>> /\ logResult' = NoValue
    BY DEF Log!RemoveBefore
<1>5. Log!Contents' = SubSeq(Log!Contents, k + 1, logSize) => Log!Abstract!RemoveBefore(t)
  <2>1. ASSUME NEW m, m = Log!Contents', m = SubSeq(Log!Contents, k + 1, Len(Log!Contents))
        PROVE  Log!Abstract!RemoveBefore(t)
      BY <1>2, <1>3, <1>4, <2>1 DEF Log!Abstract!RemoveBefore
  <2> QED BY <1>3, <2>1
<1>6. CASE k = 0
  <2>1. UNCHANGED <<values, headIndex, tailIndex, logSize>>
      BY <1>1, <1>6 DEF Log!RemoveBefore
  <2>2. LogInv'
      BY <1>4, <2>1 DEF LogInv
  <2>3. Log!Contents' = Log!Contents
    <3>1. (LogInv => Log!Contents = Ring(values, Capacity, headIndex, logSize))'
          /\ Log!Contents = Ring(values, Capacity, headIndex, logSize)
        BY LogContents, PTL
    <3> QED BY <2>1, <2>2, <3>1
  <2>4. SubSeq(Log!Contents, k + 1, logSize) = Log!Contents
      BY <1>3, <1>6, SubSeqFull
  <2> QED BY <1>5, <2>2, <2>3, <2>4
<1>7. CASE k # 0 /\ k = logSize
  <2>1. Log!Reset
      BY <1>1, <1>7 DEF Log!RemoveBefore
  <2>2. LogInv' /\ Log!Contents' = <<>>
      BY <1>4, <2>1, LogReset
  <2>3. SubSeq(Log!Contents, k + 1, logSize) = <<>>
      BY <1>3, <1>7, SubSeqEmpty
  <2> QED BY <1>5, <2>2, <2>3
<1>8. CASE k # 0 /\ k # logSize
  <2>1. headIndex' = (headIndex + k) % Capacity /\ logSize' = logSize - k /\ UNCHANGED <<values, tailIndex>>
      BY <1>1, <1>8 DEF Log!RemoveBefore
  <2>2. LogInv' /\ Log!Contents' = SubSeq(Log!Contents, k + 1, logSize)
      BY <1>2, <1>4, <2>1, LogCut
  <2> QED BY <1>5, <2>2
<1> QED BY <1>6, <1>7, <1>8

\* Every call of the grant log is a call of the sorted log.
LEMMA LogStep ==
    ASSUME LogInv, Log!Next
    PROVE  LogInv' /\ Log!Abstract!Next
<1>1. ASSUME Log!Clear PROVE LogInv' /\ Log!Abstract!Clear
    BY <1>1, LogReset DEF Log!Clear, Log!Abstract!Clear
<1> QED BY <1>1, LogEnqueue, LogDequeue, LogRemoveBefore DEF Log!Next, Log!Abstract!Next

-----------------------------------------------------------------------------
(***************************************************************************)
(* The theorems.                                                           *)
(***************************************************************************)

\* Both buffers keep head, tail, size and order together.
THEOREM Invariance == Spec => [](LogInv /\ QueueInv)
<1>1. Init => LogInv /\ QueueInv
    BY LogInit, QueueInit DEF Init
<1>2. LogInv /\ QueueInv /\ [Next]_vars => (LogInv /\ QueueInv)'
  <2> SUFFICES ASSUME LogInv, QueueInv, [Next]_vars PROVE LogInv' /\ QueueInv'
      OBVIOUS
  <2>1. UNCHANGED logVars => LogInv'
      BY DEF logVars, LogInv
  <2>2. UNCHANGED queueVars => QueueInv'
      BY DEF queueVars, QueueInv
  <2> QED BY <2>1, <2>2, LogStep, QueueStep DEF Next, vars
<1> QED BY <1>1, <1>2, PTL DEF Spec

\* Indices, sizes and contents stay in the buffers, for any capacity and any
\* values: Float64SortedQueue.js:20-47, Int32Queue.js:6-17.
THEOREM TypeCorrect == Spec => []TypeOK
<1>1. LogInv /\ QueueInv => TypeOK
  <2> SUFFICES ASSUME LogInv, QueueInv PROVE Log!TypeOK /\ Queue!TypeOK
      BY DEF TypeOK
  <2>1. Log!TypeOK
      BY LogFacts DEF LogInv, Log!TypeOK, Log!Slots, Wrapped
  <2>2. Queue!TypeOK
      BY DEF QueueInv, IsRing, Queue!TypeOK, Wrapped
  <2> QED BY <2>1, <2>2
<1> QED BY Invariance, <1>1, PTL

\* A request queue loses, repeats and reorders nothing, through any number of
\* wraps, clears and growths of its buffer: Int32Queue.js:43-54.
THEOREM QueueRefinesFifo == Spec => ImplementsFifo
<1>1. Init => Queue!Fifo!Init
    BY QueueInit DEF Init
<1>2. QueueInv /\ [Next]_vars => [Queue!Fifo!Next]_<<Queue!Contents, queueResult>>
  <2> SUFFICES ASSUME QueueInv, [Next]_vars PROVE [Queue!Fifo!Next]_<<Queue!Contents, queueResult>>
      OBVIOUS
  <2>1. UNCHANGED queueVars => UNCHANGED <<Queue!Contents, queueResult>>
      BY DEF queueVars, Queue!Contents
  <2> QED BY <2>1, QueueStep DEF Next, vars
<1> QED BY <1>1, <1>2, Invariance, PTL DEF Spec, ImplementsFifo, Queue!ImplementsFifo, Queue!Fifo!Spec

\* The grant log returns what a bounded sorted sequence returns and cuts exactly
\* the entries below the target, found by binary search through the wrap-around:
\* Float64SortedQueue.js.
THEOREM LogRefinesSortedLog == Spec => ImplementsSortedLog
<1>1. Init => Log!Abstract!Init
    BY LogInit DEF Init
<1>2. LogInv /\ [Next]_vars => [Log!Abstract!Next]_<<Log!Contents, call, logResult>>
  <2> SUFFICES ASSUME LogInv, [Next]_vars PROVE [Log!Abstract!Next]_<<Log!Contents, call, logResult>>
      OBVIOUS
  <2>1. UNCHANGED logVars => UNCHANGED <<Log!Contents, call, logResult>>
      BY DEF logVars, Log!Contents, Log!At
  <2> QED BY <2>1, LogStep DEF Next, vars
<1> QED BY <1>1, <1>2, Invariance, PTL
       DEF Spec, ImplementsSortedLog, Log!ImplementsSortedLog, Log!Abstract!Spec, Log!Abstract!logVars

=============================================================================
