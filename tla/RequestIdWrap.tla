---------------------------- MODULE RequestIdWrap ----------------------------
(***************************************************************************)
(* One worker of a semaphore whose request ids come round: after MAX_SMI   *)
(* follows MIN_SMI, whatever call still runs under that id. No fault but   *)
(* the worker's exit; the rest of the semaphore is in SemaphoreSystem,     *)
(* where ids are fresh.                                                    *)
(***************************************************************************)
EXTENDS Naturals, Sequences, FiniteSets

CONSTANTS
    Ids,            \* how many ids there are: 2^31 in the code
    MaxConcurrent,
    MaxCalls        \* bound: run() calls

Id == 0..(Ids - 1)
Calls == 1..MaxCalls

VARIABLES
    calls,       \* calls made
    id, state,   \* the id and the progress of each call
    pending,     \* pendingRequests: the call that waits under an id, 0 for none
    queue, leased, remaining,   \* the primary's limiter
    worker,      \* "up", "exited" or "reaped", as in ClusterIpc
    toWorker, toPrimary

vars == <<calls, id, state, pending, queue, leased, remaining, worker, toWorker, toPrimary>>

Init ==
    /\ calls = 0
    /\ id = [c \in Calls |-> 0] /\ state = [c \in Calls |-> "none"]
    /\ pending = [i \in Id |-> 0]
    /\ queue = <<>> /\ leased = {} /\ remaining = MaxConcurrent
    /\ worker = "up"
    /\ toWorker = <<>> /\ toPrimary = <<>>

(* 2^31 ids come round more slowly than permits time out and messages travel:
   only a call that runs can still hold the next id. *)
OnlyHeldByACall(i) ==
    /\ pending[i] = 0
    /\ \A k \in DOMAIN queue : queue[k] # i
    /\ \A k \in DOMAIN toWorker : toWorker[k] # i
    /\ \A k \in DOMAIN toPrimary : toPrimary[k].id # i

(* The id comes round from MAX_SMI to MIN_SMI. *)
AcquirePermit ==
    /\ worker = "up" /\ calls < MaxCalls
    /\ OnlyHeldByACall(calls % Ids)
    /\ calls' = calls + 1
    /\ id' = [id EXCEPT ![calls'] = calls % Ids]
    /\ state' = [state EXCEPT ![calls'] = "waiting"]
    /\ pending' = [pending EXCEPT ![id'[calls']] = calls']
    /\ toPrimary' = Append(toPrimary, [op |-> "acquire", id |-> id'[calls']])
    /\ UNCHANGED <<queue, leased, remaining, worker, toWorker>>

(* The grant loop over the queue q with n tokens and the leases l: it stops
   after one grant at the latest, since an event frees or asks for one token.
   Requests of a dead worker are dropped. *)
GrantPendingRequests(q, l, n) ==
    IF worker = "reaped" THEN queue' = <<>> /\ leased' = l /\ remaining' = n /\ UNCHANGED toWorker
    ELSE IF q # <<>> /\ n > 0
    THEN /\ queue' = Tail(q)
         /\ leased' = l \cup {Head(q)}      \* Set.add, which an id already there does not change
         /\ remaining' = n - 1
         /\ toWorker' = IF worker = "up" THEN Append(toWorker, Head(q)) ELSE toWorker
    ELSE queue' = q /\ leased' = l /\ remaining' = n /\ UNCHANGED toWorker

HandleHotMessage ==
    /\ toPrimary # <<>>
    /\ LET m == Head(toPrimary)
       IN  IF m.op = "acquire" THEN GrantPendingRequests(Append(queue, m.id), leased, remaining)
           ELSE IF m.id \in leased THEN GrantPendingRequests(queue, leased \ {m.id}, remaining + 1)
           ELSE UNCHANGED <<queue, leased, remaining, toWorker>>
    /\ toPrimary' = Tail(toPrimary)
    /\ UNCHANGED <<calls, id, state, pending, worker>>

HandleGrant ==
    /\ worker = "up" /\ toWorker # <<>>
    /\ LET i == Head(toWorker)  c == pending[i]
       IN  IF c # 0
           THEN /\ state' = [state EXCEPT ![c] = "running"]
                /\ pending' = [pending EXCEPT ![i] = 0]
                /\ UNCHANGED toPrimary
           ELSE /\ toPrimary' = Append(toPrimary, [op |-> "release", id |-> i])
                /\ UNCHANGED <<state, pending>>
    /\ toWorker' = Tail(toWorker)
    /\ UNCHANGED <<calls, id, queue, leased, remaining, worker>>

CallSettles(c) ==
    /\ worker = "up" /\ state[c] = "running"
    /\ state' = [state EXCEPT ![c] = "over"]
    /\ toPrimary' = Append(toPrimary, [op |-> "release", id |-> id[c]])
    /\ UNCHANGED <<calls, id, pending, queue, leased, remaining, worker, toWorker>>

Exits ==
    /\ worker = "up"
    /\ worker' = "exited" /\ toWorker' = <<>>
    /\ UNCHANGED <<calls, id, state, pending, queue, leased, remaining, toPrimary>>

HandleWorkerExit ==
    /\ worker = "exited"
    /\ worker' = "reaped"
    /\ remaining' = remaining + Cardinality(leased)
    /\ leased' = {} /\ queue' = <<>>
    /\ UNCHANGED <<calls, id, state, pending, toWorker, toPrimary>>

Next ==
    \/ AcquirePermit \/ HandleHotMessage \/ HandleGrant
    \/ \E c \in Calls : CallSettles(c)
    \/ Exits \/ HandleWorkerExit

Spec == Init /\ [][Next]_vars

(* All the tokens are there once the only worker's exit was handled. Code:
   README.md:258, "Active capacity is instantly freed"; #handleWorkerExit. *)
ExitFreesCapacity == worker = "reaped" => remaining = MaxConcurrent
=============================================================================
