----------------------- MODULE WorkerSemaphoreLimiter -----------------------
(***************************************************************************)
(* rateLimiter/worker/WorkerSemaphoreLimiter.js and the hot path of        *)
(* BaseWorkerLimiter.js in semaphore mode: run(), the permit it acquires   *)
(* and the release it owes.  The handshake is over; request ids do not     *)
(* wrap.  Every worker process runs these actions on its own thread.       *)
(***************************************************************************)
EXTENDS ClusterIpc

CONSTANT ReleaseRetryLimit   \* an attempt above it is the last (3 in the code)

ASSUME ReleaseRetryLimitAssumption == ReleaseRetryLimit \in Nat

VARIABLES
    lastId,          \* lastId[w]: requestId, the id given out last
    call,            \* call[<<w, r>>]: how far that run() call has come
    releaseTimers,   \* <<w, r, n>>: a 50 ms timer that starts attempt n
    reported         \* requests whose release was given up and reported

workerVars == <<lastId, call, releaseTimers, reported>>

(***************************************************************************)
(* waiting   the call is in pendingRequests                                *)
(* running   the permit is held, the caller function is in flight          *)
(* settled   the caller function has settled, the permit is released       *)
(* rejected  run() has rejected: no permit in time, or no message sent     *)
(* returned  rejected, and the permit that came too late was handed back   *)
(***************************************************************************)
CallState == {"none", "waiting", "running", "settled", "rejected", "returned"}

ReleaseAttempts == Workers \X RequestIds \X (0..(ReleaseRetryLimit + 1))

WorkerTypeOK ==
    /\ lastId \in [Workers -> 0..MaxCalls]
    /\ call \in [Requests -> CallState]
    /\ releaseTimers \subseteq ReleaseAttempts
    /\ reported \subseteq Requests

WorkerInit ==
    /\ lastId = [w \in Workers |-> 0]
    /\ call = [p \in Requests |-> "none"]
    /\ releaseTimers = {}
    /\ reported = {}

-----------------------------------------------------------------------------

SetCall(w, r, state) == call' = [call EXCEPT ![<<w, r>>] = state]

\* sendPermitTermination(n), others being the release timers that stay.  An
\* asynchronous error is retried, a throw or a closed channel is not.
SendPermitTermination(w, r, n, others) ==
    \/ /\ WorkerSent(w, ReleaseMsg(r))
       /\ releaseTimers' = others
       /\ UNCHANGED reported
    \/ /\ WorkerSendCanFail(w)
       /\ n <= ReleaseRetryLimit
       /\ releaseTimers' = others \cup {<<w, r, n + 1>>}
       /\ UNCHANGED <<toPrimary, reported>>
    \/ /\ WorkerCannotSend(w) \/ (WorkerSendCanFail(w) /\ n > ReleaseRetryLimit)
       /\ reported' = reported \cup {<<w, r>>}
       /\ releaseTimers' = others
       /\ UNCHANGED toPrimary

\* [_kReleasePermit]
ReleasePermit(w, r) == SendPermitTermination(w, r, 0, releaseTimers)

\* [_kAcquirePermit]: the next id is taken and ACQUIRE is sent, or the call
\* rejects because it could not be sent.
AcquirePermit(w) ==
    /\ Running(w)
    /\ lastId[w] < MaxCalls   \* bound
    /\ LET r == lastId[w] + 1
       IN  /\ lastId' = [lastId EXCEPT ![w] = r]
           /\ \/ /\ WorkerSent(w, AcquireMsg(r))
                 /\ SetCall(w, r, "waiting")
              \/ /\ WorkerSendCanFail(w) \/ WorkerCannotSend(w)
                 /\ SetCall(w, r, "rejected")
                 /\ UNCHANGED toPrimary
    /\ UNCHANGED <<proc, toWorker, releaseTimers, reported>>

\* The permit timer fires before the GRANT has come.
PermitTimeout(w, r) ==
    /\ Running(w)
    /\ call[<<w, r>>] = "waiting"
    /\ SetCall(w, r, "rejected")
    /\ UNCHANGED <<ipcVars, lastId, releaseTimers, reported>>

\* Mutant of HandleGrant: a GRANT nobody waits for is ignored.
HandleGrant_LateIgnored(w) ==
    /\ Running(w)
    /\ toWorker[w] # <<>>
    /\ toWorker' = [toWorker EXCEPT ![w] = Tail(@)]
    /\ LET r == Head(toWorker[w])
       IN  SetCall(w, r, IF call[<<w, r>>] = "waiting" THEN "running" ELSE "returned")
    /\ UNCHANGED <<proc, lastId, toPrimary, releaseTimers, reported>>

\* #handleHotMessage: a GRANT nobody waits for any more is handed back.
HandleGrant(w) ==
    /\ Running(w)
    /\ toWorker[w] # <<>>
    /\ toWorker' = [toWorker EXCEPT ![w] = Tail(@)]
    /\ LET r == Head(toWorker[w])
       IN  \/ /\ call[<<w, r>>] = "waiting"
              /\ SetCall(w, r, "running")
              /\ UNCHANGED <<toPrimary, releaseTimers, reported>>
           \/ /\ call[<<w, r>>] # "waiting"
              /\ SetCall(w, r, "returned")
              /\ ReleasePermit(w, r)
    /\ UNCHANGED <<proc, lastId>>

\* The caller function settles; run()'s finally releases the permit.
CallSettles(w, r) ==
    /\ Running(w)
    /\ call[<<w, r>>] = "running"
    /\ SetCall(w, r, "settled")
    /\ ReleasePermit(w, r)
    /\ UNCHANGED <<proc, toWorker, lastId>>

\* A release retry timer fires.
RetryRelease(w, r, n) ==
    /\ Running(w)
    /\ <<w, r, n>> \in releaseTimers
    /\ SendPermitTermination(w, r, n, releaseTimers \ {<<w, r, n>>})
    /\ UNCHANGED <<proc, toWorker, lastId, call>>

\* The process ends, and its timers with it.
WorkerDies(w) ==
    /\ ProcessExits(w)
    /\ releaseTimers' = {t \in releaseTimers : t[1] # w}
    /\ UNCHANGED <<lastId, call, reported>>

WorkerDisconnects(w) == ChannelCloses(w) /\ UNCHANGED workerVars

WorkerNext ==
    \/ \E w \in Workers :
           \/ AcquirePermit(w) \/ HandleGrant(w)
           \/ WorkerDies(w) \/ WorkerDisconnects(w)
    \/ \E p \in Requests : PermitTimeout(p[1], p[2]) \/ CallSettles(p[1], p[2])
    \/ \E t \in ReleaseAttempts : RetryRelease(t[1], t[2], t[3])

=============================================================================
