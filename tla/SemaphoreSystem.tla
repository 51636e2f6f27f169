--------------------------- MODULE SemaphoreSystem ---------------------------
(***************************************************************************)
(* One semaphore limiter: its primary side, its worker sides and the       *)
(* cluster's channels between them, after the handshake.                   *)
(***************************************************************************)
EXTENDS PrimarySemaphoreLimiter, WorkerSemaphoreLimiter, SequenceElements

vars == <<ipcVars, primaryVars, workerVars>>

Init == IpcInit /\ PrimaryInit /\ WorkerInit

Next ==
    \/ PrimaryNext /\ UNCHANGED workerVars
    \/ WorkerNext /\ UNCHANGED primaryVars

Spec == Init /\ [][Next]_vars

(***************************************************************************)
(* Fairness.  The primary's event loop runs every callback that is due and *)
(* leaves the grant loop; a live worker's event loop delivers what has     *)
(* arrived and fires its timers; a caller function settles.  Nothing makes *)
(* a worker call run() or exit.                                            *)
(***************************************************************************)
PrimaryFairness ==
    /\ WF_vars(GrantStep /\ UNCHANGED workerVars)
    /\ \A w \in Workers :
           /\ WF_vars(HandleHotMessage(w) /\ UNCHANGED workerVars)
           /\ WF_vars(WorkerExits(w) /\ UNCHANGED workerVars)
    /\ \A a \in Attempts :
           /\ WF_vars(SendFailed(a[1], a[2], a[3]) /\ UNCHANGED workerVars)
           /\ WF_vars(RetryGrant(a[1], a[2], a[3]) /\ UNCHANGED workerVars)

WorkerFairness ==
    /\ \A w \in Workers : WF_vars(HandleGrant(w) /\ UNCHANGED primaryVars)
    /\ \A p \in Requests :
           WF_vars(CallSettles(p[1], p[2]) /\ UNCHANGED primaryVars)
    /\ \A t \in ReleaseAttempts :
           WF_vars(RetryRelease(t[1], t[2], t[3]) /\ UNCHANGED primaryVars)

FairSpec == Spec /\ PrimaryFairness /\ WorkerFairness

-----------------------------------------------------------------------------

\* The type invariant of the composition: every variable of the three modules.
TypeOK == IpcTypeOK /\ PrimaryTypeOK /\ WorkerTypeOK

\* The calls whose caller function has been called.
Started == {p \in Requests : call[p] \in {"running", "settled"}}

\* The calls whose caller function is in flight in some process.
InFlight == {p \in Requests : call[p] = "running" /\ Running(p[1])}

(***************************************************************************)
(* README.md:109: at most N calls in flight at once, through late grants,  *)
(* failed and repeated sends, exits, and releases in any order.            *)
(***************************************************************************)
AtMostMaxInFlight == Cardinality(InFlight) <= MaxConcurrent

(***************************************************************************)
(* Every token is either free or leased to one request: no path of         *)
(* #grantRequest, release, failed send or exit loses one or makes one.     *)
(***************************************************************************)
TokenConservation == remaining + Cardinality(leased) = MaxConcurrent

(***************************************************************************)
(* No lost wakeup: whenever the primary is back in its event loop, either  *)
(* nobody queues or every token is out (#grantPendingRequests is called    *)
(* wherever a request or a token appears).                                 *)
(***************************************************************************)
NoIdleCapacity == granting \/ queue = <<>> \/ remaining = 0

\* README.md:258: a worker whose exit was handled holds no token, even when
\* its messages and send errors are processed after its exit event.
ReapedHoldsNothing == \A p \in leased : ~IsDead(p[1])

(***************************************************************************)
(* A token a connected worker was sent and does not use is on its way      *)
(* back, unless its loss was reported to releasePermitFailure or a send    *)
(* error is pending: it is never lost in silence.                          *)
(***************************************************************************)
OnItsWay(w, r) ==
    \/ r \in Elements(toWorker[w])
    \/ ReleaseMsg(r) \in Elements(toPrimary[w])
    \/ \E n \in 0..GrantRetryLimit : <<w, r, n>> \in failedSends \cup retryTimers
    \/ \E n \in 0..(ReleaseRetryLimit + 1) : <<w, r, n>> \in releaseTimers

NoSilentLeak ==
    \A p \in leased :
        Connected(p[1]) =>
            call[p] = "running" \/ p \in reported \/ OnItsWay(p[1], p[2])

(***************************************************************************)
(* A token is taken back from a request only once its call has settled,    *)
(* was rejected, or its process is gone: never under a call in flight.     *)
(***************************************************************************)
NeverRevoked ==
    [][\A p \in leased \ leased' : p \notin InFlight]_vars

(***************************************************************************)
(* The limiter implements the pool of permits of PermitPool: leases are    *)
(* the entries of clusterPendingRequests, active calls the caller          *)
(* functions in flight in processes that live.                             *)
(***************************************************************************)
Pool == INSTANCE PermitPool WITH
    Size <- MaxConcurrent,
    leases <- leased,
    active <- InFlight,
    started <- Started

ImplementsPermitPool == Pool!Spec

\* All the tokens come back in the end, whatever exits, when the workers
\* themselves can send.
AllTokensReturn == <>[](remaining = MaxConcurrent)

\* A request that queues at the primary leaves the queue: whoever holds the
\* tokens exits, settles, times out or was sent a GRANT that fails.
EveryRequestIsDispatched ==
    \A p \in Requests : p \in Elements(queue) ~> p \notin Elements(queue)

=============================================================================
