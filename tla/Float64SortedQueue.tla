-------------------------- MODULE Float64SortedQueue --------------------------
(***************************************************************************)
(* lib/Float64SortedQueue.js: a ring buffer of fixed capacity whose        *)
(* contents are sorted because its caller enqueues timestamps of a clock.  *)
(* removeBefore finds its cut by binary search over logical indices.       *)
(* "call" is the last call and its argument, "result" what it returned or  *)
(* threw.                                                                  *)
(***************************************************************************)
EXTENDS Integers, Sequences

CONSTANTS
    Capacity,   \* the constructor's capacity
    Times,      \* the timestamps and targets this instance uses
    NoValue,    \* undefined
    QueueFull   \* the QUEUE_FULL error

VARIABLES values, headIndex, tailIndex, size, call, result

ringVars == <<values, headIndex, tailIndex, size, call, result>>

Slots == 0..(Capacity - 1)

\* Indices and size stay within the buffer.
TypeOK ==
    /\ values \in [Slots -> Times \cup {0}]
    /\ headIndex \in Slots
    /\ tailIndex \in Slots
    /\ size \in 0..Capacity
    /\ \/ call \in {<<op>> : op \in {"new", "dequeue", "peek", "clear"}}
       \/ call \in {"enqueue", "removeBefore"} \X Times
    /\ result \in Times \cup {0, NoValue, QueueFull}

Init ==
    /\ values = [i \in Slots |-> 0]
    /\ headIndex = 0
    /\ tailIndex = 0
    /\ size = 0
    /\ call = <<"new">>
    /\ result = NoValue

\* The element at a logical index.
At(i) == values[(headIndex + i) % Capacity]

\* The caller's clock never goes back.
IsLatest(t) == \A i \in 0..(size - 1) : At(i) <= t

\* Mutant of Dequeue: the head does not wrap around.
Dequeue_NoWrap ==
    /\ call' = <<"dequeue">>
    /\ size # 0
    /\ result' = values[headIndex]
    /\ headIndex' = headIndex + 1
    /\ size' = size - 1
    /\ UNCHANGED <<values, tailIndex>>

-----------------------------------------------------------------------------

Enqueue(t) ==
    /\ call' = <<"enqueue", t>>
    /\ IsLatest(t)
    /\ UNCHANGED headIndex
    /\ \/ /\ size = Capacity
          /\ result' = QueueFull
          /\ UNCHANGED <<values, tailIndex, size>>
       \/ /\ size # Capacity
          /\ values' = [values EXCEPT ![tailIndex] = t]
          /\ tailIndex' = (tailIndex + 1) % Capacity
          /\ size' = size + 1
          /\ result' = NoValue

Dequeue ==
    /\ call' = <<"dequeue">>
    /\ UNCHANGED <<values, tailIndex>>
    /\ \/ /\ size = 0
          /\ result' = NoValue
          /\ UNCHANGED <<headIndex, size>>
       \/ /\ size # 0
          /\ result' = values[headIndex]
          /\ headIndex' = (headIndex + 1) % Capacity
          /\ size' = size - 1

Peek ==
    /\ call' = <<"peek">>
    /\ \/ size = 0 /\ result' = NoValue
       \/ size # 0 /\ result' = values[headIndex]
    /\ UNCHANGED <<values, headIndex, tailIndex, size>>

\* clear: the old values stay in memory.
Reset ==
    /\ headIndex' = 0
    /\ tailIndex' = 0
    /\ size' = 0
    /\ UNCHANGED values

Clear == call' = <<"clear">> /\ Reset /\ result' = NoValue

\* Mutant of BinarySearchLowerBound: the upper bound (<= for <).
BinarySearchLowerBound_Upper(target) ==
    LET search[range \in (0..size) \X (0..size)] ==
            LET left == range[1]
                right == range[2]
                mid == left + (right - left) \div 2
            IN  IF left >= right THEN left
                ELSE IF At(mid) <= target THEN search[<<mid + 1, right>>]
                ELSE search[<<left, mid>>]
    IN  search[<<0, size>>]

\* #binarySearchLowerBound
BinarySearchLowerBound(target) ==
    LET search[range \in (0..size) \X (0..size)] ==
            LET left == range[1]
                right == range[2]
                mid == left + (right - left) \div 2
            IN  IF left >= right THEN left
                ELSE IF At(mid) < target THEN search[<<mid + 1, right>>]
                ELSE search[<<left, mid>>]
    IN  search[<<0, size>>]

RemoveBefore(target) ==
    /\ call' = <<"removeBefore", target>>
    /\ result' = NoValue
    /\ LET count == BinarySearchLowerBound(target)
       IN  \/ /\ count = 0
              /\ UNCHANGED <<values, headIndex, tailIndex, size>>
           \/ /\ count # 0 /\ count = size
              /\ Reset
           \/ /\ count # 0 /\ count # size
              /\ headIndex' = (headIndex + count) % Capacity
              /\ size' = size - count
              /\ UNCHANGED <<values, tailIndex>>

Next ==
    \/ \E t \in Times : Enqueue(t) \/ RemoveBefore(t)
    \/ Dequeue \/ Peek \/ Clear

Spec == Init /\ [][Next]_ringVars

-----------------------------------------------------------------------------

\* The contents in logical order.
Contents == [i \in 1..size |-> At(i - 1)]

(***************************************************************************)
(* The ring implements the bounded sorted queue that the grant log needs:  *)
(* same results, same contents, through wrap-around and cuts by value.     *)
(***************************************************************************)
Abstract == INSTANCE SortedLog WITH log <- Contents

ImplementsSortedLog == Abstract!Spec

=============================================================================
