------------------------------ MODULE FifoQueue ------------------------------
(***************************************************************************)
(* What the limiters rely on lib/Int32Queue.js for: an unbounded queue.    *)
(* "result" is what the last call returned.                                *)
(***************************************************************************)
EXTENDS Sequences

CONSTANTS Values, NoValue

VARIABLES queue, result

Init == queue = <<>> /\ result = NoValue

Enqueue(v) == queue' = Append(queue, v) /\ result' = NoValue

Dequeue ==
    \/ queue # <<>> /\ result' = Head(queue) /\ queue' = Tail(queue)
    \/ queue = <<>> /\ result' = NoValue /\ UNCHANGED queue

Clear == queue' = <<>> /\ result' = NoValue

Next == Dequeue \/ Clear \/ \E v \in Values : Enqueue(v)

Spec == Init /\ [][Next]_<<queue, result>>

=============================================================================
