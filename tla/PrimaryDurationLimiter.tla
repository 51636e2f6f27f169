------------------------ MODULE PrimaryDurationLimiter ------------------------
(***************************************************************************)
(* rateLimiter/primary/PrimaryDurationLimiter.js: the primary's arbiter of *)
(* a sliding-window limit.  The grant loop is asynchronous: it keeps its   *)
(* lock while it sleeps, and the primary's other callbacks run meanwhile.  *)
(*                                                                         *)
(* Time is an integer clock; one unit is the resolution of                 *)
(* performance.now(), and the durations of the code are constants in that  *)
(* unit.  A request is the pair of a worker's cluster id and a request id. *)
(***************************************************************************)
EXTENDS Integers, Sequences, FiniteSets

CONSTANTS
    Workers,           \* the cluster ids
    MaxCalls,          \* bound: run() calls one worker makes
    AcquireBy,         \* bound: no run() call after this time
    MaxConcurrent,     \* maxConcurrentRequests
    Duration,          \* durationInSeconds
    Jitter,            \* the "safety jitter buffer" added to it
    RetryDelay,        \* delay before a failed GRANT is sent again
    GrantRetryLimit,   \* retries of one GRANT (3 in the code)
    Latency,           \* longest time a GRANT that was sent travels
    Faults             \* the faults this instance may suffer

ASSUME DurationAssumption ==
    /\ MaxConcurrent \in Nat \ {0} /\ Duration \in Nat \ {0}
    /\ MaxCalls \in Nat /\ AcquireBy \in Nat /\ Jitter \in Nat /\ RetryDelay \in Nat
    /\ GrantRetryLimit \in Nat /\ Latency \in Nat
    /\ Faults \subseteq {"exit", "grantError", "grantThrow", "timeout", "acquireError"}

\* Mutant of Window: without the safety jitter buffer.
Window_NoJitter == Duration

\* rateLimitDurationInMilliSeconds
Window == Duration + Jitter

Requests == Workers \X (1..MaxCalls)

\* A cluster has finitely many workers.
ASSUME WorkersAssumption == IsFiniteSet(Workers)

VARIABLES
    now,      \* performance.now()
    queue,    \* the two parallel Int32Queues, as one queue of requests
    log,      \* grantTimestampSortedLog
    loop,     \* where the asynchronous grant loop is; the lock is loop # "idle"
    wakeAt,   \* when the loop's setTimeout fires
    gone,     \* the workers whose isDead() is true
    stage,    \* stage[p]: how far request p has come
    stamp,    \* stamp[p]: the timestamp its slot was taken with
    tries,    \* tries[p]: the attempts to send its GRANT that have failed
    due       \* due[p]: when its GRANT arrives at the latest, its timer fires

primaryVars == <<queue, log, loop, wakeAt, gone, stamp, tries>>

(***************************************************************************)
(* idle      the lock is free                                              *)
(* sleep     #pruneGrantLog waits for the oldest timestamp to expire       *)
(* spin      its while loop turns without waiting: the clock stands exactly*)
(*           at the expiry of the oldest timestamp; the thread is blocked  *)
(* dispatch  it has returned; the loop goes on in the next microtask       *)
(***************************************************************************)
LoopState == {"idle", "sleep", "spin", "dispatch"}

(***************************************************************************)
(* none, queued                                                            *)
(* rejected   its ACQUIRE could not be sent                                *)
(* sent       the GRANT was accepted by the channel                        *)
(* failed     worker.send's error callback is due                          *)
(* retrying   the timer of the next attempt is set                         *)
(* started    the worker has called the caller function                    *)
(* unused     the GRANT came after the permit timeout and was ignored      *)
(* lost       the worker's process ended with its GRANT in the channel     *)
(* refunded   the slot was given back                                      *)
(* dropped    the worker was dead when its turn came                       *)
(***************************************************************************)
Stage == {"none", "rejected", "queued", "sent", "failed", "retrying", "started",
          "unused", "lost", "refunded", "dropped"}

PrimaryInit ==
    /\ now = 0
    /\ queue = <<>>
    /\ log = <<>>
    /\ loop = "idle"
    /\ wakeAt = 0
    /\ gone = {}
    /\ stage = [p \in Requests |-> "none"]
    /\ stamp = [p \in Requests |-> 0]
    /\ tries = [p \in Requests |-> 0]
    /\ due = [p \in Requests |-> 0]

-----------------------------------------------------------------------------

\* Float64SortedQueue.removeBefore on a sorted log.
RemoveBefore(l, t) ==
    SubSeq(l, Cardinality({i \in DOMAIN l : l[i] < t}) + 1, Len(l))

\* Mutant of PruneGrantLog: one slot too many (> for >=).
PruneGrantLog_OneMore(l) ==
    LET kept == RemoveBefore(l, now - Window)
    IN  /\ log' = kept
        /\ \/ /\ Len(kept) <= MaxConcurrent
              /\ loop' = "dispatch"
              /\ UNCHANGED wakeAt
           \/ /\ Len(kept) > MaxConcurrent
              /\ loop' = "sleep"
              /\ wakeAt' = Head(kept) + Window

\* #pruneGrantLog up to the point where it waits, turns again or returns.
PruneGrantLog(l) ==
    LET kept == RemoveBefore(l, now - Window)
    IN  /\ log' = kept
        /\ \/ /\ Len(kept) < MaxConcurrent
              /\ loop' = "dispatch"
              /\ UNCHANGED wakeAt
           \/ /\ Len(kept) >= MaxConcurrent
              /\ Window - (now - Head(kept)) > 0
              /\ loop' = "sleep"
              /\ wakeAt' = Head(kept) + Window
           \/ /\ Len(kept) >= MaxConcurrent
              /\ Window - (now - Head(kept)) <= 0
              /\ loop' = "spin"
              /\ UNCHANGED wakeAt

\* The loop of #grantPendingRequests goes round or ends, the log being l.
LoopOn(l) ==
    \/ queue' # <<>> /\ PruneGrantLog(l)
    \/ queue' = <<>> /\ log' = l /\ loop' = "idle" /\ UNCHANGED wakeAt

\* #grantPendingRequests, called with the log l; locked, it returns at once.
GrantPendingRequests(l) ==
    \/ loop = "idle" /\ LoopOn(l)
    \/ loop # "idle" /\ log' = l /\ UNCHANGED <<loop, wakeAt>>

\* Mutant of Refund: a slot that has expired is refunded once more.
Refund_Double(l, t) == IF l # <<>> THEN Tail(l) ELSE l

\* The log after #refundSlot(t): the oldest entry goes, whichever it is,
\* unless t has expired.
Refund(l, t) == IF now - t < Window /\ l # <<>> THEN Tail(l) ELSE l

\* worker.send does not throw: the GRANT is on its way, or the error callback.
SendGrant(p) ==
    \/ /\ stage' = [stage EXCEPT ![p] = IF p[1] \in gone THEN "lost" ELSE "sent"]
       /\ due' = [due EXCEPT ![p] = now + Latency]
    \/ /\ "grantError" \in Faults \/ p[1] \in gone
       /\ stage' = [stage EXCEPT ![p] = "failed"]
       /\ UNCHANGED due

-----------------------------------------------------------------------------

\* #handleHotMessage(ACQUIRE)
Acquire(p) ==
    /\ now <= AcquireBy   \* bound
    /\ loop # "spin"
    /\ stage[p] = "none" /\ (p[2] > 1 => stage[<<p[1], p[2] - 1>>] # "none")
    /\ stage' = [stage EXCEPT ![p] = "queued"]
    /\ queue' = Append(queue, p)
    /\ GrantPendingRequests(log)
    /\ UNCHANGED <<now, gone, stamp, tries, due>>

\* The loop's timer fires; #pruneGrantLog looks at the log again.
Wake ==
    /\ loop = "sleep"
    /\ now >= wakeAt
    /\ PruneGrantLog(log)
    /\ UNCHANGED <<now, queue, gone, stage, stamp, tries, due>>

\* #pruneGrantLog turns again once the clock has moved.
Spin ==
    /\ loop = "spin"
    /\ RemoveBefore(log, now - Window) # log
    /\ PruneGrantLog(log)
    /\ UNCHANGED <<now, queue, gone, stage, stamp, tries, due>>

\* Mutant of Dispatch: the loop is left at a dead worker ("return" for
\* "continue").
Dispatch_Return ==
    /\ loop = "dispatch"
    /\ queue' = Tail(queue)
    /\ LET p == Head(queue)
       IN  \/ /\ p[1] \in gone
              /\ stage' = [stage EXCEPT ![p] = "dropped"]
              /\ loop' = "idle"
              /\ UNCHANGED <<log, wakeAt, stamp, due>>
           \/ /\ p[1] \notin gone
              /\ stamp' = [stamp EXCEPT ![p] = now]
              /\ SendGrant(p)
              /\ LoopOn(Append(log, now))
    /\ UNCHANGED <<now, gone, tries>>

\* The rest of an iteration of #grantPendingRequests, with #grantRequest.
Dispatch ==
    /\ loop = "dispatch"
    /\ queue' = Tail(queue)
    /\ LET p == Head(queue)
           taken == Append(log, now)
       IN  \/ /\ p[1] \in gone
              /\ stage' = [stage EXCEPT ![p] = "dropped"]
              /\ LoopOn(log)
              /\ UNCHANGED <<stamp, due>>
           \/ /\ p[1] \notin gone
              /\ stamp' = [stamp EXCEPT ![p] = now]
              /\ SendGrant(p)
              /\ LoopOn(taken)
           \/ /\ p[1] \notin gone
              /\ "grantThrow" \in Faults
              /\ stamp' = [stamp EXCEPT ![p] = now]
              /\ stage' = [stage EXCEPT ![p] = "refunded"]
              /\ LoopOn(Refund(taken, now))
              /\ UNCHANGED due
    /\ UNCHANGED <<now, gone, tries>>

\* #refundSlot of the request p.
RefundSlot(p) ==
    /\ stage' = [stage EXCEPT ![p] = "refunded"]
    /\ GrantPendingRequests(Refund(log, stamp[p]))

\* Mutant of SendFailed: one retry too many (<= for <).
SendFailed_OneMore(p) ==
    /\ loop # "spin"
    /\ stage[p] = "failed"
    /\ p[1] \notin gone
    /\ tries[p] <= GrantRetryLimit
    /\ stage' = [stage EXCEPT ![p] = "retrying"]
    /\ tries' = [tries EXCEPT ![p] = @ + 1]
    /\ due' = [due EXCEPT ![p] = now + RetryDelay]
    /\ UNCHANGED <<log, loop, wakeAt, queue, now, gone, stamp>>

\* The error callback of a failed attempt.
SendFailed(p) ==
    /\ loop # "spin"
    /\ stage[p] = "failed"
    /\ UNCHANGED queue
    /\ \/ /\ p[1] \notin gone
          /\ tries[p] < GrantRetryLimit
          /\ stage' = [stage EXCEPT ![p] = "retrying"]
          /\ tries' = [tries EXCEPT ![p] = @ + 1]
          /\ due' = [due EXCEPT ![p] = now + RetryDelay]
          /\ UNCHANGED <<log, loop, wakeAt>>
       \/ /\ p[1] \in gone \/ tries[p] >= GrantRetryLimit
          /\ RefundSlot(p)
          /\ UNCHANGED <<tries, due>>
    /\ UNCHANGED <<now, gone, stamp>>

\* The retry timer: the GRANT is sent again, under its first timestamp.
RetryGrant(p) ==
    /\ loop \in {"idle", "sleep"}
    /\ stage[p] = "retrying"
    /\ now >= due[p]
    /\ UNCHANGED queue
    /\ \/ /\ SendGrant(p)
          /\ UNCHANGED <<log, loop, wakeAt>>
       \/ /\ "grantThrow" \in Faults
          /\ RefundSlot(p)
          /\ UNCHANGED due
    /\ UNCHANGED <<now, gone, stamp, tries>>

\* A worker's exit event: handleExit is #grantPendingRequests.  What was on
\* its way to the worker is lost.
WorkerExits(w) ==
    /\ "exit" \in Faults
    /\ loop \in {"idle", "sleep"}
    /\ w \notin gone
    /\ gone' = gone \cup {w}
    /\ stage' = [p \in Requests |->
                    IF p[1] = w /\ stage[p] = "sent" THEN "lost" ELSE stage[p]]
    /\ UNCHANGED queue
    /\ GrantPendingRequests(log)
    /\ UNCHANGED <<now, stamp, tries, due>>

PrimaryNext ==
    \/ Wake \/ Spin \/ Dispatch
    \/ \E p \in Requests : Acquire(p) \/ SendFailed(p) \/ RetryGrant(p)
    \/ \E w \in Workers : WorkerExits(w)

=============================================================================
