----------------------- MODULE PrimarySemaphoreLimiter -----------------------
(***************************************************************************)
(* rateLimiter/primary/PrimarySemaphoreLimiter.js: the primary's arbiter   *)
(* of a concurrency limit.                                                 *)
(*                                                                         *)
(* The primary is one JavaScript thread.  Every handler below is one of    *)
(* its callbacks, except that the loop of #grantPendingRequests is spread  *)
(* over GrantStep, one step per iteration, because the workers are other   *)
(* processes and run while it runs.  No other callback of the primary      *)
(* starts until the loop is left, which is the guard ~granting.  A handler *)
(* that calls #grantPendingRequests enters the loop when its condition     *)
(* holds; the lock makes nested calls return at once.                      *)
(***************************************************************************)
EXTENDS ClusterIpc, FiniteSets

CONSTANTS
    MaxConcurrent,    \* maxConcurrentRequests
    GrantRetryLimit   \* retries of one GRANT (3 in the code)

ASSUME MaxConcurrentAssumption == MaxConcurrent \in Nat \ {0}
ASSUME GrantRetryLimitAssumption == GrantRetryLimit \in Nat

VARIABLES
    queue,         \* the two parallel Int32Queues, as one queue of requests
    leased,        \* clusterPendingRequests, as the set of its entries
    remaining,     \* remainingTokens
    granting,      \* isGrantingPermitsForPendingRequests
    failedSends,   \* <<w, r, n>>: attempt n's error callback is due
    retryTimers    \* <<w, r, n>>: a 50 ms timer that starts attempt n

primaryVars == <<queue, leased, remaining, granting, failedSends, retryTimers>>

Attempts == Workers \X RequestIds \X (0..GrantRetryLimit)

PrimaryTypeOK ==
    /\ queue \in Seq(Requests)
    /\ leased \subseteq Requests
    /\ remaining \in 0..MaxConcurrent
    /\ granting \in BOOLEAN
    /\ failedSends \subseteq Attempts
    /\ retryTimers \subseteq Attempts

PrimaryInit ==
    /\ queue = <<>>
    /\ leased = {}
    /\ remaining = MaxConcurrent
    /\ granting = FALSE
    /\ failedSends = {}
    /\ retryTimers = {}

-----------------------------------------------------------------------------

\* The condition on which the loop of #grantPendingRequests goes round.
CanGrant(q, free) == q # <<>> /\ free > 0

\* A call of #grantPendingRequests, or the end of one of its iterations.
GrantPendingRequests == granting' = CanGrant(queue', remaining')

\* #incrementWorkerUsage
IncrementWorkerUsage(w, r) ==
    /\ leased' = leased \cup {<<w, r>>}
    /\ remaining' = remaining - 1

\* Mutant of DecrementWorkerUsage: what Set.delete returns is not looked at.
DecrementWorkerUsage_Unchecked(w, r) ==
    /\ leased' = leased \ {<<w, r>>}
    /\ remaining' = remaining + 1
    /\ GrantPendingRequests

\* Mutant of DecrementWorkerUsage: the queue is not looked at afterwards.
DecrementWorkerUsage_NoWakeup(w, r) ==
    /\ UNCHANGED granting
    /\ \/ /\ <<w, r>> \in leased
          /\ leased' = leased \ {<<w, r>>}
          /\ remaining' = remaining + 1
       \/ /\ <<w, r>> \notin leased
          /\ UNCHANGED <<leased, remaining>>

\* #decrementWorkerUsage: an unknown or repeated release changes nothing.
DecrementWorkerUsage(w, r) ==
    \/ /\ <<w, r>> \in leased
       /\ leased' = leased \ {<<w, r>>}
       /\ remaining' = remaining + 1
       /\ GrantPendingRequests
    \/ /\ <<w, r>> \notin leased
       /\ UNCHANGED <<leased, remaining, granting>>

\* Mutant of LeasedBy: the map is cleared, not the worker's entry.
LeasedBy_Everyone(w) == leased

LeasedBy(w) == {p \in leased : p[1] = w}

\* Mutant of HandleWorkerExit: the worker's entry stays in the map.
HandleWorkerExit_NotDeleted(w) ==
    /\ remaining' = remaining + Cardinality(LeasedBy(w))
    /\ UNCHANGED leased
    /\ GrantPendingRequests

\* Mutant of HandleWorkerExit: the queue is not looked at afterwards.
HandleWorkerExit_NoWakeup(w) ==
    /\ leased' = leased \ LeasedBy(w)
    /\ remaining' = remaining + Cardinality(LeasedBy(w))
    /\ UNCHANGED granting

\* #handleWorkerExit, with #reclaimDeadWorkerTokens
HandleWorkerExit(w) ==
    /\ leased' = leased \ LeasedBy(w)
    /\ remaining' = remaining + Cardinality(LeasedBy(w))
    /\ GrantPendingRequests

\* #grantRequest, attempt n, when worker.send does not throw.
SendGrant(w, r, n) ==
    \/ GrantSent(w, r) /\ UNCHANGED failedSends
    \/ /\ GrantCanFail(w)
       /\ failedSends' = failedSends \cup {<<w, r, n>>}
       /\ UNCHANGED toWorker

-----------------------------------------------------------------------------

\* Mutant of GrantStep: the loop does not ask whether the worker is dead.
GrantStep_DeadToo ==
    /\ granting
    /\ queue' = Tail(queue)
    /\ LET w == Head(queue)[1]
           r == Head(queue)[2]
       IN  IncrementWorkerUsage(w, r) /\ SendGrant(w, r, 0)
    /\ GrantPendingRequests
    /\ UNCHANGED <<proc, toPrimary, retryTimers>>

\* One iteration of the loop.  When worker.send throws, the token just taken
\* is given back and the nested #grantPendingRequests finds the lock held.
GrantStep ==
    /\ granting
    /\ queue' = Tail(queue)
    /\ LET w == Head(queue)[1]
           r == Head(queue)[2]
       IN  \/ /\ IsDead(w)
              /\ UNCHANGED <<leased, remaining, failedSends, toWorker>>
           \/ /\ ~IsDead(w)
              /\ IncrementWorkerUsage(w, r)
              /\ SendGrant(w, r, 0)
           \/ /\ ~IsDead(w)
              /\ "grantThrow" \in Faults
              /\ UNCHANGED <<leased, remaining, failedSends, toWorker>>
    /\ GrantPendingRequests
    /\ UNCHANGED <<proc, toPrimary, retryTimers>>

\* #handleHotMessage, as the router of the registry calls it: the messages of
\* a worker are read in order, even after that worker has been reaped.
HandleHotMessage(w) ==
    /\ ~granting
    /\ toPrimary[w] # <<>>
    /\ toPrimary' = [toPrimary EXCEPT ![w] = Tail(@)]
    /\ LET m == Head(toPrimary[w])
       IN  \/ /\ m.op = "acquire"
              /\ queue' = Append(queue, <<w, m.req>>)
              /\ UNCHANGED <<leased, remaining>>
              /\ GrantPendingRequests
           \/ /\ m.op = "release"
              /\ UNCHANGED queue
              /\ DecrementWorkerUsage(w, m.req)
    /\ UNCHANGED <<proc, toWorker, failedSends, retryTimers>>

\* Mutant of SendFailed: the token is given back before the retry as well.
SendFailed_EarlyRefund(w, r, n) ==
    /\ ~granting
    /\ <<w, r, n>> \in failedSends
    /\ failedSends' = failedSends \ {<<w, r, n>>}
    /\ UNCHANGED <<queue, proc, toWorker, toPrimary>>
    /\ DecrementWorkerUsage(w, r)
    /\ \/ /\ ~IsDead(w) /\ n < GrantRetryLimit
          /\ retryTimers' = retryTimers \cup {<<w, r, n + 1>>}
       \/ /\ IsDead(w) \/ n >= GrantRetryLimit
          /\ UNCHANGED retryTimers

\* Mutant of SendFailed: after the last attempt the failure is only reported.
SendFailed_OnlyReported(w, r, n) ==
    /\ ~granting
    /\ <<w, r, n>> \in failedSends
    /\ failedSends' = failedSends \ {<<w, r, n>>}
    /\ UNCHANGED <<queue, proc, toWorker, toPrimary, leased, remaining, granting>>
    /\ retryTimers' = IF n < GrantRetryLimit
                      THEN retryTimers \cup {<<w, r, n + 1>>}
                      ELSE retryTimers

\* The error callback of attempt n.
SendFailed(w, r, n) ==
    /\ ~granting
    /\ <<w, r, n>> \in failedSends
    /\ failedSends' = failedSends \ {<<w, r, n>>}
    /\ UNCHANGED <<queue, proc, toWorker, toPrimary>>
    /\ \/ /\ IsDead(w)
          /\ HandleWorkerExit(w)
          /\ UNCHANGED retryTimers
       \/ /\ ~IsDead(w)
          /\ n < GrantRetryLimit
          /\ retryTimers' = retryTimers \cup {<<w, r, n + 1>>}
          /\ UNCHANGED <<leased, remaining, granting>>
       \/ /\ ~IsDead(w)
          /\ n >= GrantRetryLimit
          /\ DecrementWorkerUsage(w, r)
          /\ UNCHANGED retryTimers

\* The retry timer of attempt n fires; unlike the loop it sends without
\* asking whether the worker is dead.
RetryGrant(w, r, n) ==
    /\ ~granting
    /\ <<w, r, n>> \in retryTimers
    /\ retryTimers' = retryTimers \ {<<w, r, n>>}
    /\ UNCHANGED queue
    /\ \/ /\ SendGrant(w, r, n)
          /\ UNCHANGED <<leased, remaining, granting>>
       \/ /\ "grantThrow" \in Faults
          /\ \/ IsDead(w) /\ HandleWorkerExit(w)
             \/ ~IsDead(w) /\ DecrementWorkerUsage(w, r)
          /\ UNCHANGED <<failedSends, toWorker>>
    /\ UNCHANGED <<proc, toPrimary>>

\* The "exit" event of a worker, fanned out to handleExit.
WorkerExits(w) ==
    /\ ~granting
    /\ ExitEvent(w)
    /\ UNCHANGED <<queue, failedSends, retryTimers>>
    /\ HandleWorkerExit(w)

PrimaryNext ==
    \/ GrantStep
    \/ \E w \in Workers : HandleHotMessage(w) \/ WorkerExits(w)
    \/ \E a \in Attempts :
           SendFailed(a[1], a[2], a[3]) \/ RetryGrant(a[1], a[2], a[3])

=============================================================================
