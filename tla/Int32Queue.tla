------------------------------ MODULE Int32Queue ------------------------------
(***************************************************************************)
(* lib/Int32Queue.js: a circular queue that doubles its buffer when full.  *)
(* A limiter keeps two of them in step, one of request ids and one of      *)
(* cluster ids; the limiters' modules use one sequence of pairs instead.   *)
(***************************************************************************)
EXTENDS Integers, Sequences

CONSTANTS
    InitialCapacity,   \* 1024 in the code
    MaxCapacity,       \* bound: no growth beyond it
    Values,            \* the 32-bit integers this instance uses
    NoValue            \* undefined

VARIABLES data, capacity, head, tail, size, result

ringVars == <<data, capacity, head, tail, size, result>>

\* Indices and size stay within the buffer there is.
TypeOK ==
    /\ capacity \in Nat \ {0}
    /\ data \in [0..(capacity - 1) -> Values \cup {0}]
    /\ head \in 0..(capacity - 1)
    /\ tail \in 0..(capacity - 1)
    /\ size \in 0..capacity
    /\ result \in Values \cup {0, NoValue}

Init ==
    /\ capacity = InitialCapacity
    /\ data = [i \in 0..(InitialCapacity - 1) |-> 0]
    /\ head = 0
    /\ tail = 0
    /\ size = 0
    /\ result = NoValue

\* Mutant of Unrolled: the buffer is copied as it lies, without unrolling.
Unrolled_AsItLies ==
    [i \in 0..(2 * capacity - 1) |-> IF i < capacity THEN data[i] ELSE 0]

\* #grow: the buffer unrolled from head into one of twice the length.
Unrolled ==
    LET upper == capacity - head
    IN  [i \in 0..(2 * capacity - 1) |->
            IF i < upper THEN data[head + i]
            ELSE IF i < upper + tail THEN data[i - upper]
            ELSE 0]

\* enqueue, and #grow before it when the buffer is full.
Enqueue(v) ==
    /\ size' = size + 1
    /\ result' = NoValue
    /\ \/ /\ size # capacity
          /\ data' = [data EXCEPT ![tail] = v]
          /\ tail' = (tail + 1) % capacity
          /\ UNCHANGED <<capacity, head>>
       \/ /\ size = capacity
          /\ 2 * capacity <= MaxCapacity   \* bound
          /\ data' = [Unrolled EXCEPT ![capacity] = v]
          /\ capacity' = 2 * capacity
          /\ head' = 0
          /\ tail' = (capacity + 1) % (2 * capacity)

Dequeue ==
    /\ UNCHANGED <<data, capacity, tail>>
    /\ \/ /\ size = 0
          /\ result' = NoValue
          /\ UNCHANGED <<head, size>>
       \/ /\ size # 0
          /\ result' = data[head]
          /\ head' = (head + 1) % capacity
          /\ size' = size - 1

Clear ==
    /\ head' = 0
    /\ tail' = 0
    /\ size' = 0
    /\ result' = NoValue
    /\ UNCHANGED <<data, capacity>>

Next == Dequeue \/ Clear \/ \E v \in Values : Enqueue(v)

Spec == Init /\ [][Next]_ringVars

-----------------------------------------------------------------------------

\* The contents in order.
Contents == [i \in 1..size |-> data[(head + i - 1) % capacity]]

(***************************************************************************)
(* The queue implements an unbounded FIFO queue: growing while the ring is *)
(* wrapped around loses, repeats and reorders nothing, and recycled slots  *)
(* never show an old value.                                                *)
(***************************************************************************)
Fifo == INSTANCE FifoQueue WITH queue <- Contents

ImplementsFifo == Fifo!Spec

=============================================================================
