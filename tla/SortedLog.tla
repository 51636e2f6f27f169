------------------------------ MODULE SortedLog ------------------------------
(***************************************************************************)
(* What PrimaryDurationLimiter relies on lib/Float64SortedQueue.js for: a  *)
(* bounded queue of timestamps that never decrease, cut from the front by  *)
(* value.  "call" is the last call and its argument, "result" what it      *)
(* returned or threw.                                                      *)
(***************************************************************************)
EXTENDS Integers, Sequences

CONSTANTS Capacity, Times, NoValue, QueueFull

VARIABLES log, call, result

logVars == <<log, call, result>>

Front(l) == IF l = <<>> THEN NoValue ELSE Head(l)

Init == log = <<>> /\ call = <<"new">> /\ result = NoValue

Enqueue(t) ==
    /\ call' = <<"enqueue", t>>
    /\ \A i \in DOMAIN log : log[i] <= t
    /\ \/ /\ Len(log) < Capacity
          /\ log' = Append(log, t)
          /\ result' = NoValue
       \/ /\ Len(log) = Capacity
          /\ result' = QueueFull
          /\ UNCHANGED log

Dequeue ==
    /\ call' = <<"dequeue">>
    /\ result' = Front(log)
    /\ \/ log # <<>> /\ log' = Tail(log)
       \/ log = <<>> /\ UNCHANGED log

Peek == call' = <<"peek">> /\ result' = Front(log) /\ UNCHANGED log

\* Cuts off the first entries: all those below t and no other.
RemoveBefore(t) ==
    /\ call' = <<"removeBefore", t>>
    /\ \E k \in 0..Len(log) :
          /\ \A i \in DOMAIN log : log[i] < t <=> i <= k
          /\ log' = SubSeq(log, k + 1, Len(log))
    /\ result' = NoValue

Clear == call' = <<"clear">> /\ log' = <<>> /\ result' = NoValue

Next ==
    \/ \E t \in Times : Enqueue(t) \/ RemoveBefore(t)
    \/ Dequeue \/ Peek \/ Clear

Spec == Init /\ [][Next]_logVars

=============================================================================
