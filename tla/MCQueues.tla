------------------------------ MODULE MCQueues ------------------------------
(* The two ring buffers of src/lib side by side; a behaviour uses one of them. *)
EXTENDS Integers

CONSTANTS
    Capacity, Times, NoValue, QueueFull,      \* of the grant log
    InitialCapacity, MaxCapacity, Values      \* of a request queue

ASSUME CapacityAssumption == Capacity \in Nat \ {0} /\ InitialCapacity \in Nat \ {0} /\ MaxCapacity \in Nat
ASSUME ValuesAssumption == Times \subseteq Nat /\ Values \subseteq Int

VARIABLES
    used,     \* "log" or "queue"
    values, headIndex, tailIndex, logSize, call, logResult,
    data, capacity, head, tail, queueSize, queueResult

logVars == <<values, headIndex, tailIndex, logSize, call, logResult>>
queueVars == <<data, capacity, head, tail, queueSize, queueResult>>
vars == <<used, logVars, queueVars>>

Log == INSTANCE Float64SortedQueue WITH size <- logSize, result <- logResult
Queue == INSTANCE Int32Queue WITH size <- queueSize, result <- queueResult

Init == used \in {"log", "queue"} /\ Log!Init /\ Queue!Init

Next ==
    \/ used = "log" /\ Log!Next /\ UNCHANGED <<used, queueVars>>
    \/ used = "queue" /\ Queue!Next /\ UNCHANGED <<used, logVars>>

Spec == Init /\ [][Next]_vars

(* Indices, sizes and contents stay in the buffers. Code: the fields of
   Float64SortedQueue.js:20-47 and Int32Queue.js:6-17. *)
TypeOK == Log!TypeOK /\ Queue!TypeOK

(* The ring of the grant log behaves like a bounded sorted sequence: same
   results, same contents, through wrap-around and cuts. Code: Float64SortedQueue.js. *)
ImplementsSortedLog == Log!ImplementsSortedLog

(* A request queue behaves like an unbounded FIFO queue, also when it grows
   while it is wrapped around. Code: Int32Queue.js:43-54. *)
ImplementsFifo == Queue!ImplementsFifo
=============================================================================
