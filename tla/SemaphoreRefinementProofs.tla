---------------------- MODULE SemaphoreRefinementProofs ----------------------
(***************************************************************************)
(* SemaphoreSystem implements PermitPool: every step is a step of the pool *)
(* or leaves the pool as it is.                                            *)
(***************************************************************************)
EXTENDS SemaphoreSystemProofs

\* What a step of the primary does to the pool: the calls stay as they are.
LEMMA PrimaryKeepsCalls ==
    ASSUME IInv, PrimaryNext, UNCHANGED workerVars
    PROVE  InFlight' = InFlight /\ Started' = Started
<1>1. call' = call /\ proc \in [Workers -> ProcState]
    BY DEF workerVars, IInv, TypeOK, IpcTypeOK
<1>2. \A w \in Workers : Running(w)' <=> Running(w)
  <2>1. CASE UNCHANGED proc
      BY <2>1, ProcUnchanged
  <2>2. CASE \E w \in Workers : WorkerExits(w)
      BY <1>1, <2>2 DEF WorkerExits, ExitEvent, Running
  <2> QED BY <2>1, <2>2
          DEF PrimaryNext, GrantStep, HandleHotMessage, SendFailed, RetryGrant
<1> QED BY <1>1, <1>2 DEF InFlight, Started, Requests

\* Leases taken back from requests without a call in flight are a Return.
LEMMA ReturnStep ==
    ASSUME NEW S, leased' = leased \ S, leased \cap S \cap InFlight = {},
           InFlight' = InFlight, Started' = Started
    PROVE  [Pool!Next]_(Pool!poolVars)
<1>1. CASE leased \cap S = {}
    BY <1>1 DEF Pool!poolVars
<1>2. CASE leased \cap S # {}
  <2>1. leased \cap S \in SUBSET leased /\ leased' = leased \ (leased \cap S)
      OBVIOUS
  <2>2. Pool!Return(leased \cap S)
      BY <1>2, <2>1 DEF Pool!Return
  <2> QED BY <2>1, <2>2 DEF Pool!Next
<1> QED BY <1>1, <1>2

\* A step of the primary leases one permit, returns permits or does neither.
LEMMA PrimaryNextPool ==
    ASSUME IInv, PrimaryNext, UNCHANGED workerVars
    PROVE  [Pool!Next]_(Pool!poolVars)
<1> USE MaxConcurrentAssumption
<1>1. InFlight' = InFlight /\ Started' = Started
    BY PrimaryKeepsCalls
<1>2. CASE leased' = leased
    BY <1>1, <1>2 DEF Pool!poolVars
<1>3. ASSUME NEW w \in Workers, NEW r \in RequestIds,
             leased' = leased \ {<<w, r>>}, call[<<w, r>>] # "running"
      PROVE  [Pool!Next]_(Pool!poolVars)
  <2>1. leased \cap {<<w, r>>} \cap InFlight = {}
      BY <1>3 DEF InFlight
  <2> QED BY <1>1, <1>3, <2>1, ReturnStep
<1>4. ASSUME NEW w \in Workers, ~Running(w), HandleWorkerExit(w)
      PROVE  [Pool!Next]_(Pool!poolVars)
  <2>1. leased \cap LeasedBy(w) \cap InFlight = {}
      BY <1>4 DEF InFlight, LeasedBy
  <2>2. leased' = leased \ LeasedBy(w)
      BY <1>4 DEF HandleWorkerExit
  <2> QED BY <1>1, <2>1, <2>2, ReturnStep
<1>5. CASE GrantStep
  <2>1. CASE UNCHANGED leased
      BY <1>2, <2>1
  <2>2. CASE IncrementWorkerUsage(Head(queue)[1], Head(queue)[2])
    <3>1. /\ queue \in Seq(Requests) /\ queue # <<>>
          /\ remaining > 0 /\ remaining \in Nat
          /\ remaining + Cardinality(leased) = MaxConcurrent
          /\ IsFiniteSet(leased)
        BY <1>5 DEF GrantStep, IInv, TypeOK, PrimaryTypeOK, Accounts, CanGrant,
                    TokenConservation
    <3>2. PICK w \in Workers, r \in RequestIds : Head(queue) = <<w, r>>
        BY <3>1 DEF Requests
    <3>3. Queued(w, r)
      <4>1. Elements(queue) = Elements(Tail(queue)) \cup {Head(queue)}
          BY <3>1, ElementsTail
      <4> QED BY <3>2, <4>1 DEF Queued
    <3>4. <<w, r>> \notin leased /\ Unused(w, r) /\ <<w, r>> \in Requests
      <4>1. <<w, r>> \in Requests
          BY DEF Requests
      <4>2. <<w, r>> \notin leased /\ Unused(w, r)
          BY <3>3 DEF IInv, Stages, Stage
      <4> QED BY <4>1, <4>2
    <3>5. Cardinality(leased) < MaxConcurrent
        BY <3>1, FS_CardinalityType
    <3>6. leased' = leased \cup {<<w, r>>}
        BY <2>2, <3>2 DEF IncrementWorkerUsage
    <3>7. <<w, r>> \notin Started
        BY <3>4 DEF Started, Unused
    <3>8. Pool!Cardinality(leased) = Cardinality(leased)
        BY DEF Pool!Cardinality, Cardinality, Pool!IsFiniteSet, IsFiniteSet
    <3>9. Pool!Lease(<<w, r>>)
        BY <1>1, <3>4, <3>5, <3>6, <3>7, <3>8 DEF Pool!Lease
    <3> QED BY <3>4, <3>9 DEF Pool!Next
  <2> QED BY <1>5, <2>1, <2>2 DEF GrantStep
<1>6. ASSUME NEW w \in Workers, HandleHotMessage(w)
      PROVE  [Pool!Next]_(Pool!poolVars)
  <2>1. CASE leased' = leased
      BY <1>2, <2>1
  <2>2. CASE leased' # leased
    <3>1. /\ toPrimary[w] # <<>>
          /\ toPrimary' = [toPrimary EXCEPT ![w] = Tail(@)]
          /\ Head(toPrimary[w]).op = "release"
          /\ leased' = leased \ {<<w, Head(toPrimary[w]).req>>}
        BY <1>6, <2>2 DEF HandleHotMessage, DecrementWorkerUsage
    <3>2. Head(toPrimary[w]) \in Message /\ Head(toPrimary[w]) \in Elements(toPrimary[w])
        BY <3>1, PrimaryReadsEffect DEF IInv, TypeOK
    <3>3. PICK r \in RequestIds :
              r = Head(toPrimary[w]).req /\ Head(toPrimary[w]) = ReleaseMsg(r)
        BY <3>1, <3>2, MessageForms
    <3>4. call[<<w, r>>] \in {"settled", "returned"}
        BY <3>2, <3>3 DEF IInv, Stages, Stage, Releasing
    <3> QED BY <1>3, <3>1, <3>3, <3>4
  <2> QED BY <2>1, <2>2
<1>7. ASSUME NEW w \in Workers, WorkerExits(w)
      PROVE  [Pool!Next]_(Pool!poolVars)
    BY <1>4, <1>7 DEF WorkerExits, ExitEvent, Running
<1>8. ASSUME NEW w \in Workers, NEW r \in RequestIds, NEW n \in 0..GrantRetryLimit,
             SendFailed(w, r, n) \/ RetryGrant(w, r, n)
      PROVE  [Pool!Next]_(Pool!poolVars)
  <2>1. Retrying(w, r, n)
      BY <1>8 DEF SendFailed, RetryGrant, Retrying
  <2>2. call[<<w, r>>] # "running"
      BY <2>1 DEF IInv, Stages, Stage, Unused
  <2>3. CASE leased' = leased
      BY <1>2, <2>3
  <2>4. CASE IsDead(w) /\ HandleWorkerExit(w)
      BY <1>4, <2>4 DEF IsDead, Running
  <2>5. CASE leased' = leased \ {<<w, r>>}
      BY <1>3, <2>2, <2>5
  <2> QED BY <1>8, <2>3, <2>4, <2>5 DEF SendFailed, RetryGrant, DecrementWorkerUsage
<1> QED BY <1>5, <1>6, <1>7, <1>8 DEF PrimaryNext, Attempts

\* A step of a worker starts one call, stops calls or does neither.
LEMMA WorkerNextPool ==
    ASSUME IInv, WorkerNext, UNCHANGED primaryVars
    PROVE  [Pool!Next]_(Pool!poolVars)
<1>1. /\ leased' = leased
      /\ proc \in [Workers -> ProcState] /\ call \in [Requests -> CallState]
    BY DEF primaryVars, IInv, TypeOK, IpcTypeOK, WorkerTypeOK
<1>2. ASSUME NEW p \in Requests, NEW c \in {"waiting", "rejected", "returned"},
             call[p] \notin {"running", "settled"},
             call' = [call EXCEPT ![p] = c], UNCHANGED proc
      PROVE  [Pool!Next]_(Pool!poolVars)
  <2>1. InFlight' = InFlight /\ Started' = Started
      BY <1>1, <1>2 DEF InFlight, Started, Running
  <2> QED BY <1>1, <2>1 DEF Pool!poolVars
<1>3. ASSUME NEW w \in Workers, AcquirePermit(w)
      PROVE  [Pool!Next]_(Pool!poolVars)
  <2>1. lastId[w] + 1 \in RequestIds /\ lastId[w] + 1 > lastId[w]
      BY <1>3, MaxCallsAssumption
         DEF AcquirePermit, RequestIds, IInv, TypeOK, WorkerTypeOK
  <2>2. call[<<w, lastId[w] + 1>>] = "none" /\ <<w, lastId[w] + 1>> \in Requests
      BY <2>1 DEF IInv, FreshIds, Requests
  <2> QED BY <1>2, <1>3, <2>2 DEF AcquirePermit, SetCall
<1>4. ASSUME NEW w \in Workers, HandleGrant(w)
      PROVE  [Pool!Next]_(Pool!poolVars)
  <2>1. /\ toWorker \in [Workers -> Seq(RequestIds)] /\ toWorker[w] # <<>>
        /\ UNCHANGED proc /\ Running(w)
      BY <1>4 DEF HandleGrant, IInv, TypeOK, IpcTypeOK
  <2>2. PICK r \in RequestIds : r = Head(toWorker[w]) /\ <<w, r>> \in Requests
      BY <2>1 DEF Requests
  <2>3. GrantTravels(w, r)
      BY <2>1, <2>2, ElementsTail DEF GrantTravels
  <2>4. Unused(w, r) /\ <<w, r>> \in leased
      BY <2>3 DEF IInv, Stages, Stage
  <2>5. CASE call[<<w, r>>] = "waiting" /\ SetCall(w, r, "running")
    <3>1. InFlight' = InFlight \cup {<<w, r>>}
        BY <1>1, <2>1, <2>2, <2>5 DEF InFlight, SetCall, Running
    <3>2. Started' = Started \cup {<<w, r>>} /\ <<w, r>> \notin Started
        BY <1>1, <2>1, <2>2, <2>5 DEF Started, SetCall
    <3>3. Pool!Start(<<w, r>>)
        BY <1>1, <2>4, <3>1, <3>2 DEF Pool!Start
    <3> QED BY <2>2, <3>3 DEF Pool!Next
  <2>6. CASE SetCall(w, r, "returned")
      BY <1>2, <2>1, <2>2, <2>4, <2>6 DEF Unused, SetCall
  <2> QED BY <1>4, <2>2, <2>5, <2>6 DEF HandleGrant
<1>5. ASSUME NEW w \in Workers, NEW r \in RequestIds, PermitTimeout(w, r)
      PROVE  [Pool!Next]_(Pool!poolVars)
    BY <1>2, <1>5 DEF PermitTimeout, SetCall, ipcVars, Requests
<1>6. ASSUME NEW w \in Workers, NEW r \in RequestIds, CallSettles(w, r)
      PROVE  [Pool!Next]_(Pool!poolVars)
  <2>1. /\ <<w, r>> \in Requests /\ call[<<w, r>>] = "running" /\ Running(w)
        /\ call' = [call EXCEPT ![<<w, r>>] = "settled"] /\ UNCHANGED proc
      BY <1>6 DEF CallSettles, SetCall, Requests
  <2>2. InFlight' = InFlight \ {<<w, r>>} /\ <<w, r>> \in InFlight
      BY <1>1, <2>1 DEF InFlight, Running
  <2>3. Started' = Started
      BY <1>1, <2>1 DEF Started
  <2>4. Pool!Stop({<<w, r>>}) /\ {<<w, r>>} \in SUBSET InFlight
      BY <1>1, <2>2, <2>3 DEF Pool!Stop
  <2> QED BY <2>4 DEF Pool!Next
<1>7. ASSUME NEW w \in Workers, WorkerDies(w) \/ WorkerDisconnects(w)
      PROVE  [Pool!Next]_(Pool!poolVars)
  <2>1. PICK state \in {"exited", "disconnected"} :
            proc' = [proc EXCEPT ![w] = state] /\ UNCHANGED call /\ Running(w)
      BY <1>7 DEF WorkerDies, WorkerDisconnects, ProcessExits, ChannelCloses,
                  workerVars, Running
  <2>2. Started' = Started
      BY <2>1 DEF Started
  <2>3. PICK S \in SUBSET InFlight : InFlight' = InFlight \ S
    <3>1. InFlight' \subseteq InFlight
        BY <1>1, <2>1 DEF InFlight, Running, Requests
    <3>2. InFlight' = InFlight \ (InFlight \ InFlight')
        BY <3>1
    <3> QED BY <3>2
  <2>4. CASE S = {}
      BY <1>1, <2>2, <2>3, <2>4 DEF Pool!poolVars
  <2>5. CASE S # {}
      BY <1>1, <2>2, <2>3, <2>5 DEF Pool!Stop, Pool!Next
  <2> QED BY <2>4, <2>5
<1>8. ASSUME NEW w \in Workers, NEW r \in RequestIds,
             NEW n \in 0..(ReleaseRetryLimit + 1), RetryRelease(w, r, n)
      PROVE  [Pool!Next]_(Pool!poolVars)
  <2>1. InFlight' = InFlight /\ Started' = Started
      BY <1>8 DEF RetryRelease, InFlight, Started, Running
  <2> QED BY <1>1, <2>1 DEF Pool!poolVars
<1> QED BY <1>3, <1>4, <1>5, <1>6, <1>7, <1>8 DEF WorkerNext, Requests, ReleaseAttempts

\* Every step of the system is a step of the pool or leaves it as it is.
LEMMA NextPool ==
    ASSUME IInv, [Next]_vars
    PROVE  [Pool!Next]_(Pool!poolVars)
<1>1. CASE UNCHANGED vars
    BY <1>1 DEF vars, ipcVars, primaryVars, workerVars, Pool!poolVars,
                InFlight, Started, Running
<1> QED BY <1>1, PrimaryNextPool, WorkerNextPool DEF Next

\* The limiter is a pool of MaxConcurrent permits: a permit is leased while
\* one is free, used by one call of the request it was leased to, and taken
\* back only when that call is not in flight.
THEOREM Refinement == Spec => ImplementsPermitPool
<1>1. Init => Pool!Init
    BY DEF Init, PrimaryInit, WorkerInit, Pool!Init, InFlight, Started
<1> QED BY <1>1, NextPool, Invariance, PTL DEF Spec, ImplementsPermitPool, Pool!Spec

\* No step takes a token back under a call in flight.
THEOREM NoRevocation == Spec => NeverRevoked
<1>1. ASSUME IInv, [Next]_vars
      PROVE  [\A p \in leased \ leased' : p \notin InFlight]_vars
  <2>1. [Pool!Next]_(Pool!poolVars)
      BY <1>1, NextPool
  <2>2. \A p \in leased \ leased' : p \notin InFlight
      BY <2>1 DEF Pool!Next, Pool!Lease, Pool!Start, Pool!Stop, Pool!Return, Pool!poolVars
  <2> QED BY <2>2
<1> QED BY <1>1, Invariance, PTL DEF Spec, NeverRevoked

=============================================================================
