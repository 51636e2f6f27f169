---------------------------- MODULE DurationSystem ----------------------------
(***************************************************************************)
(* One duration limiter: the primary of PrimaryDurationLimiter, the worker *)
(* side of WorkerDurationLimiter (run() calls the caller function when the *)
(* GRANT arrives) and the clock.                                           *)
(***************************************************************************)
EXTENDS PrimaryDurationLimiter

CONSTANTS
    MaxTime,   \* bound: the clock stops here
    Prompt     \* whether event loops run what is due before time passes

ASSUME SystemAssumption ==
    MaxTime \in Nat /\ Prompt \in BOOLEAN

VARIABLE start   \* start[p]: when the caller function of p was called

vars == <<now, queue, log, loop, wakeAt, gone, stage, stamp, tries, due, start>>

Init == PrimaryInit /\ start = [p \in Requests |-> 0]

\* The ACQUIRE cannot be sent, and run() rejects; the primary never hears of it.
AcquireFails(p) ==
    /\ "acquireError" \in Faults
    /\ now <= AcquireBy /\ p[1] \notin gone
    /\ stage[p] = "none" /\ (p[2] > 1 => stage[<<p[1], p[2] - 1>>] # "none")
    /\ stage' = [stage EXCEPT ![p] = "rejected"]
    /\ UNCHANGED <<now, due, start>> /\ UNCHANGED primaryVars

\* WorkerDurationLimiter.run and #handleHotMessage(GRANT) in duration mode: the
\* call starts, or the GRANT is ignored because the permit timed out.
HandleGrant(p) ==
    /\ stage[p] = "sent"
    /\ \/ /\ stage' = [stage EXCEPT ![p] = "started"]
          /\ start' = [start EXCEPT ![p] = now]
       \/ /\ "timeout" \in Faults
          /\ stage' = [stage EXCEPT ![p] = "unused"]
          /\ UNCHANGED start
    /\ UNCHANGED <<now, due>> /\ UNCHANGED primaryVars

\* Something the primary's event loop can run now is due.
PrimaryBusy ==
    \/ loop = "dispatch"
    \/ loop = "sleep" /\ now >= wakeAt
    \/ /\ loop # "spin"
       /\ \E p \in Requests :
              \/ stage[p] = "failed"
              \/ stage[p] = "retrying" /\ now >= due[p]

\* Time passes; a GRANT does not travel longer than Latency, and a turning
\* loop turns on as soon as the clock lets it.
Tick ==
    /\ now < MaxTime   \* bound
    /\ \A p \in Requests : stage[p] = "sent" => now < due[p]
    /\ Prompt => ~PrimaryBusy
    /\ loop = "spin" => RemoveBefore(log, now - Window) = log
    /\ now' = now + 1
    /\ UNCHANGED <<stage, due, start>> /\ UNCHANGED primaryVars

Next ==
    \/ PrimaryNext /\ UNCHANGED start
    \/ \E p \in Requests : AcquireFails(p) \/ HandleGrant(p)
    \/ Tick

Spec == Init /\ [][Next]_vars

(***************************************************************************)
(* Fairness: the clock goes on and the event loops run what is due.        *)
(***************************************************************************)
FairSpec ==
    /\ Spec
    /\ WF_vars(Tick)
    /\ WF_vars((Wake \/ Spin \/ Dispatch) /\ UNCHANGED start)
    /\ \A p \in Requests :
           /\ WF_vars(SendFailed(p) /\ UNCHANGED start)
           /\ WF_vars(RetryGrant(p) /\ UNCHANGED start)
           /\ WF_vars(HandleGrant(p))

-----------------------------------------------------------------------------

\* Every variable of the limiter, the channel and the workers has its type.
TypeOK ==
    /\ now \in 0..MaxTime
    /\ queue \in Seq(Requests)
    /\ log \in Seq(0..MaxTime)
    /\ loop \in LoopState
    /\ wakeAt \in 0..(MaxTime + Window)
    /\ gone \subseteq Workers
    /\ stage \in [Requests -> Stage]
    /\ stamp \in [Requests -> 0..MaxTime]
    /\ tries \in [Requests -> 0..GrantRetryLimit]
    /\ due \in [Requests -> 0..(MaxTime + Latency + RetryDelay)]
    /\ start \in [Requests -> 0..MaxTime]

\* The requests whose slot was taken and not given back.
Granted == {p \in Requests : stage[p] \in
                {"sent", "failed", "retrying", "started", "unused", "lost"}}

(***************************************************************************)
(* PrimaryDurationLimiter.js:15: no more than MaxConcurrent slots are taken*)
(* and kept in any window, whichever entries #refundSlot has dropped.      *)
(***************************************************************************)
GrantWindow ==
    \A t \in 0..now :
        Cardinality({p \in Granted : stamp[p] \in t..(t + Window)}) <= MaxConcurrent

(***************************************************************************)
(* README.md:109, README.md:270: at most N calls started in any trailing   *)
(* window of the limiter's duration.                                       *)
(***************************************************************************)
StartWindow ==
    \A t \in 0..now :
        Cardinality({p \in Requests :
                        /\ stage[p] = "started"
                        /\ start[p] \in t..(t + Duration - 1)}) <= MaxConcurrent

(***************************************************************************)
(* What removeBefore and enqueue rely on: the log stays sorted, and the    *)
(* loop never enqueues into a full log (QUEUE_FULL).                       *)
(***************************************************************************)
LogUsable ==
    /\ \A i, j \in DOMAIN log : i < j => log[i] <= log[j]
    /\ Len(log) <= MaxConcurrent
    /\ loop = "dispatch" => Len(log) < MaxConcurrent /\ queue # <<>>

(***************************************************************************)
(* No lost wakeup: when the lock is free nobody queues.                    *)
(***************************************************************************)
NoForgottenRequest == loop = "idle" => queue = <<>>

(***************************************************************************)
(* PrimaryDurationLimiter.js:126: a refund gives its slot back instantly.  *)
(* The loop then does not sleep on while a slot is free.                   *)
(***************************************************************************)
NoSleepWithFreeSlot == loop = "sleep" => Len(log) >= MaxConcurrent

\* Every request that queues is settled for the primary: its call starts, or
\* its slot is refunded, or its worker is gone.  No sleep, spin, failed send
\* or exit stops the loop for good (README.md:269).
EveryRequestIsServed ==
    \A p \in Requests :
        stage[p] = "queued" ~> stage[p] \in {"started", "refunded", "lost", "dropped"}

=============================================================================
