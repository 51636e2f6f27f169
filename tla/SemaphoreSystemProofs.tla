------------------------ MODULE SemaphoreSystemProofs ------------------------
(***************************************************************************)
(* Theorems about SemaphoreSystem, for all its constants.                  *)
(***************************************************************************)
EXTENDS SemaphoreSystemInv, FiniteSetTheorems, TLAPS

-----------------------------------------------------------------------------
(***************************************************************************)
(* What the operators of the components do to channels, timers and books.  *)
(***************************************************************************)

\* Different messages are different records.
LEMMA MessagesDiffer ==
    /\ \A r, s \in RequestIds : AcquireMsg(r) # ReleaseMsg(s)
    /\ \A r, s \in RequestIds : AcquireMsg(r) = AcquireMsg(s) => r = s
    /\ \A r, s \in RequestIds : ReleaseMsg(r) = ReleaseMsg(s) => r = s
    /\ \A r \in RequestIds : AcquireMsg(r) \in Message /\ ReleaseMsg(r) \in Message
<1>1. \A r, s \in RequestIds : AcquireMsg(r).op # ReleaseMsg(s).op
    BY DEF AcquireMsg, ReleaseMsg
<1>2. \A r \in RequestIds : AcquireMsg(r).req = r /\ ReleaseMsg(r).req = r
    BY DEF AcquireMsg, ReleaseMsg
<1>3. \A r \in RequestIds : AcquireMsg(r) \in Message /\ ReleaseMsg(r) \in Message
    BY DEF AcquireMsg, ReleaseMsg, Message
<1> QED BY <1>1, <1>2, <1>3

\* A message is an ACQUIRE or a RELEASE of its own id.
LEMMA MessageForms ==
    ASSUME NEW m \in Message
    PROVE  /\ m.req \in RequestIds
           /\ m.op = "acquire" => m = AcquireMsg(m.req)
           /\ m.op = "release" => m = ReleaseMsg(m.req)
BY DEF Message, AcquireMsg, ReleaseMsg

\* A message sent by a worker is the one thing its channel gains.
LEMMA WorkerSentEffect ==
    ASSUME IpcTypeOK, NEW w \in Workers, NEW m \in Message, WorkerSent(w, m)
    PROVE  /\ toPrimary' \in [Workers -> Seq(Message)]
           /\ \A v \in Workers : \A x :
                  x \in Elements(toPrimary'[v])
                      <=> x \in Elements(toPrimary[v]) \/ (v = w /\ x = m)
           /\ \A v \in Workers : \A e :
                  OnceIn(e, toPrimary[v]) /\ (e # m \/ e \notin Elements(toPrimary[v]))
                      => OnceIn(e, toPrimary'[v])
<1>1. /\ toPrimary \in [Workers -> Seq(Message)]
      /\ toPrimary' = [toPrimary EXCEPT ![w] = Append(toPrimary[w], m)]
    BY DEF IpcTypeOK, WorkerSent
<1>2. Append(toPrimary[w], m) \in Seq(Message)
    BY <1>1
<1>3. Elements(Append(toPrimary[w], m)) = Elements(toPrimary[w]) \cup {m}
    BY <1>1, ElementsAppend
<1>4. \A e : OnceIn(e, toPrimary[w]) /\ (e # m \/ e \notin Elements(toPrimary[w]))
                 => OnceIn(e, Append(toPrimary[w], m))
    BY <1>1, OnceAppend
<1> QED BY <1>1, <1>2, <1>3, <1>4

\* A message read from a worker's channel is the one thing it loses.
LEMMA PrimaryReadsEffect ==
    ASSUME IpcTypeOK, NEW w \in Workers, toPrimary[w] # <<>>,
           toPrimary' = [toPrimary EXCEPT ![w] = Tail(@)]
    PROVE  /\ Head(toPrimary[w]) \in Message
           /\ Head(toPrimary[w]) \in Elements(toPrimary[w])
           /\ toPrimary' \in [Workers -> Seq(Message)]
           /\ \A v \in Workers : \A x :
                  x \in Elements(toPrimary'[v]) => x \in Elements(toPrimary[v])
           /\ \A v \in Workers : \A x :
                  x \in Elements(toPrimary[v])
                      => x \in Elements(toPrimary'[v])
                         \/ (v = w /\ x = Head(toPrimary[w]))
           /\ \A v \in Workers : \A e :
                  OnceIn(e, toPrimary[v]) => OnceIn(e, toPrimary'[v])
           /\ \A e : OnceIn(e, toPrimary[w]) /\ e = Head(toPrimary[w])
                         => e \notin Elements(toPrimary'[w])
<1>1. /\ toPrimary \in [Workers -> Seq(Message)]
      /\ toPrimary' = [toPrimary EXCEPT ![w] = Tail(toPrimary[w])]
    BY DEF IpcTypeOK
<1>2. Tail(toPrimary[w]) \in Seq(Message) /\ Head(toPrimary[w]) \in Message
    BY <1>1
<1>3. Elements(toPrimary[w])
          = Elements(Tail(toPrimary[w])) \cup {Head(toPrimary[w])}
    BY <1>1, ElementsTail
<1>4. \A e : OnceIn(e, toPrimary[w])
                 => /\ OnceIn(e, Tail(toPrimary[w]))
                    /\ e = Head(toPrimary[w])
                           => e \notin Elements(Tail(toPrimary[w]))
    BY <1>1, OnceTail
<1> QED BY <1>1, <1>2, <1>3, <1>4

\* A GRANT sent is the one thing a worker's channel gains, if it listens.
LEMMA GrantSentEffect ==
    ASSUME IpcTypeOK, NEW w \in Workers, NEW r \in RequestIds, GrantSent(w, r)
    PROVE  /\ toWorker' \in [Workers -> Seq(RequestIds)]
           /\ \A v \in Workers : \A x :
                  x \in Elements(toWorker'[v])
                      <=> x \in Elements(toWorker[v])
                          \/ (v = w /\ x = r /\ Connected(w))
           /\ \A v \in Workers : \A e :
                  OnceIn(e, toWorker[v]) /\ (e # r \/ v # w \/ e \notin Elements(toWorker[v]))
                      => OnceIn(e, toWorker'[v])
<1>1. toWorker \in [Workers -> Seq(RequestIds)]
    BY DEF IpcTypeOK
<1>2. Append(toWorker[w], r) \in Seq(RequestIds)
    BY <1>1
<1>3. Elements(Append(toWorker[w], r)) = Elements(toWorker[w]) \cup {r}
    BY <1>1, ElementsAppend
<1>4. \A e : OnceIn(e, toWorker[w]) /\ (e # r \/ e \notin Elements(toWorker[w]))
                 => OnceIn(e, Append(toWorker[w], r))
    BY <1>1, OnceAppend
<1>5. CASE Connected(w)
  <2>1. toWorker' = [toWorker EXCEPT ![w] = Append(toWorker[w], r)]
      BY <1>5 DEF GrantSent
  <2> QED BY <2>1, <1>1, <1>2, <1>3, <1>4, <1>5
<1>6. CASE ~Connected(w)
  <2>1. toWorker' = toWorker
      BY <1>1, <1>6 DEF GrantSent
  <2> QED BY <2>1, <1>1, <1>6
<1> QED BY <1>5, <1>6

\* One attempt to release: the ACQUIREs stay as they are, and nothing but the
\* request at hand becomes one that is being released.
LEMMA SendPermitTerminationEffect ==
    ASSUME TypeOK, NEW w \in Workers, NEW r \in RequestIds,
           NEW n \in 0..(ReleaseRetryLimit + 1),
           NEW others \in SUBSET releaseTimers,
           SendPermitTermination(w, r, n, others)
    PROVE  /\ toPrimary' \in [Workers -> Seq(Message)]
           /\ releaseTimers' \subseteq ReleaseAttempts
           /\ reported' \subseteq Requests
           /\ \A v \in Workers, s \in RequestIds : Acquiring(v, s)' <=> Acquiring(v, s)
           /\ \A v \in Workers, s \in RequestIds :
                  Releasing(v, s)' => Releasing(v, s) \/ (v = w /\ s = r)
           /\ \A v \in Workers, s \in RequestIds :
                  OnceIn(AcquireMsg(s), toPrimary[v])
                      => OnceIn(AcquireMsg(s), toPrimary'[v])
<1> USE ReleaseRetryLimitAssumption
<1>1. /\ toPrimary \in [Workers -> Seq(Message)]
      /\ releaseTimers \subseteq ReleaseAttempts /\ reported \subseteq Requests
      /\ IpcTypeOK /\ others \subseteq releaseTimers
    BY DEF TypeOK, IpcTypeOK, WorkerTypeOK
<1>2. CASE WorkerSent(w, ReleaseMsg(r)) /\ releaseTimers' = others /\ UNCHANGED reported
  <2>1. /\ toPrimary' \in [Workers -> Seq(Message)]
        /\ \A v \in Workers : \A x :
               x \in Elements(toPrimary'[v])
                   <=> x \in Elements(toPrimary[v]) \/ (v = w /\ x = ReleaseMsg(r))
        /\ \A v \in Workers : \A e :
               OnceIn(e, toPrimary[v])
                 /\ (e # ReleaseMsg(r) \/ e \notin Elements(toPrimary[v]))
                   => OnceIn(e, toPrimary'[v])
      BY <1>1, <1>2, WorkerSentEffect, MessagesDiffer
  <2>2. \A v \in Workers, s \in RequestIds : Acquiring(v, s)' <=> Acquiring(v, s)
      BY <2>1, MessagesDiffer DEF Acquiring
  <2>3. \A v \in Workers, s \in RequestIds :
            Releasing(v, s)' => Releasing(v, s) \/ (v = w /\ s = r)
      BY <1>1, <1>2, <2>1, MessagesDiffer DEF Releasing
  <2> QED BY <1>1, <1>2, <2>1, <2>2, <2>3, MessagesDiffer
<1>3. CASE /\ releaseTimers' \subseteq releaseTimers \cup {<<w, r, n + 1>>}
           /\ n <= ReleaseRetryLimit \/ releaseTimers' \subseteq releaseTimers
           /\ reported' \subseteq reported \cup {<<w, r>>}
           /\ UNCHANGED toPrimary
  <2>1. \A v \in Workers, s \in RequestIds :
            Releasing(v, s)' => Releasing(v, s) \/ (v = w /\ s = r)
      BY <1>3 DEF Releasing
  <2>2. \A v \in Workers, s \in RequestIds : Acquiring(v, s)' <=> Acquiring(v, s)
      BY <1>3 DEF Acquiring
  <2>3. releaseTimers' \subseteq ReleaseAttempts /\ reported' \subseteq Requests
      BY <1>1, <1>3 DEF ReleaseAttempts, Requests
  <2> QED BY <1>1, <1>3, <2>1, <2>2, <2>3
<1> QED BY <1>1, <1>2, <1>3 DEF SendPermitTermination

\* The books after #decrementWorkerUsage outside the loop.
LEMMA DecrementEffect ==
    ASSUME Accounts, PrimaryTypeOK, ~granting, queue' \in Seq(Requests),
           NEW w \in Workers, NEW r \in RequestIds, DecrementWorkerUsage(w, r)
    PROVE  /\ leased' = leased \ {<<w, r>>}
           /\ remaining' \in 0..MaxConcurrent
           /\ granting' \in BOOLEAN
           /\ Accounts'
<1> USE MaxConcurrentAssumption
<1>1. /\ IsFiniteSet(leased) /\ Cardinality(leased) \in Nat
      /\ remaining \in 0..MaxConcurrent
      /\ remaining + Cardinality(leased) = MaxConcurrent
    BY FS_CardinalityType DEF Accounts, TokenConservation, PrimaryTypeOK
<1>2. CASE <<w, r>> \in leased
  <2>1. leased' = leased \ {<<w, r>>} /\ remaining' = remaining + 1
      BY <1>2 DEF DecrementWorkerUsage
  <2>2. granting' = CanGrant(queue', remaining')
      BY <1>2 DEF DecrementWorkerUsage, GrantPendingRequests
  <2>3. IsFiniteSet(leased') /\ Cardinality(leased') = Cardinality(leased) - 1
      BY <1>1, <1>2, <2>1, FS_RemoveElement
  <2>4. Cardinality(leased') \in Nat
      BY <2>3, FS_CardinalityType
  <2>5. remaining' + Cardinality(leased') = MaxConcurrent /\ remaining' \in 0..MaxConcurrent
      BY <1>1, <2>1, <2>3, <2>4
  <2>6. granting' \in BOOLEAN
      BY <2>2 DEF CanGrant
  <2> QED BY <2>1, <2>2, <2>3, <2>5, <2>6 DEF Accounts, TokenConservation
<1>3. CASE <<w, r>> \notin leased
  <2>1. UNCHANGED <<leased, remaining, granting>>
      BY <1>3 DEF DecrementWorkerUsage
  <2>2. ~granting' /\ granting' \in BOOLEAN
      BY <2>1, Zenon DEF PrimaryTypeOK
  <2> QED BY <1>1, <1>3, <2>1, <2>2 DEF Accounts, TokenConservation
<1> QED BY <1>2, <1>3

\* The books after #handleWorkerExit.
LEMMA HandleWorkerExitEffect ==
    ASSUME Accounts, PrimaryTypeOK, NEW w \in Workers, HandleWorkerExit(w)
    PROVE  /\ leased' = {p \in leased : p[1] # w}
           /\ remaining' \in 0..MaxConcurrent
           /\ granting' \in BOOLEAN
           /\ Accounts'
<1> USE MaxConcurrentAssumption
<1>1. /\ IsFiniteSet(leased) /\ Cardinality(leased) \in Nat
      /\ remaining \in 0..MaxConcurrent
      /\ remaining + Cardinality(leased) = MaxConcurrent
    BY FS_CardinalityType DEF Accounts, TokenConservation, PrimaryTypeOK
<1>2. /\ leased' = leased \ LeasedBy(w)
      /\ remaining' = remaining + Cardinality(LeasedBy(w))
      /\ granting' = CanGrant(queue', remaining')
    BY DEF HandleWorkerExit, GrantPendingRequests
<1>3. leased' = {p \in leased : p[1] # w}
    BY <1>2 DEF LeasedBy
<1>4. LeasedBy(w) \in SUBSET leased /\ leased \cap LeasedBy(w) = LeasedBy(w)
    BY DEF LeasedBy
<1>5. IsFiniteSet(LeasedBy(w)) /\ Cardinality(LeasedBy(w)) \in Nat
    BY <1>1, <1>4, FS_Subset, FS_CardinalityType
<1>6. /\ IsFiniteSet(leased')
      /\ Cardinality(leased') = Cardinality(leased) - Cardinality(LeasedBy(w))
    BY <1>1, <1>2, <1>4, <1>5, FS_Difference
<1>7. Cardinality(leased') \in Nat
    BY <1>6, FS_CardinalityType
<1>8. remaining' + Cardinality(leased') = MaxConcurrent /\ remaining' \in 0..MaxConcurrent
    BY <1>1, <1>2, <1>5, <1>6, <1>7
<1>9. granting' \in BOOLEAN
    BY <1>2 DEF CanGrant
<1> QED BY <1>2, <1>3, <1>6, <1>8, <1>9 DEF Accounts, TokenConservation

\* Entering the loop, or not, leaves the books as they are.
LEMMA GrantPendingEffect ==
    ASSUME Accounts, UNCHANGED <<leased, remaining>>, GrantPendingRequests
    PROVE  granting' \in BOOLEAN /\ Accounts'
BY DEF Accounts, TokenConservation, GrantPendingRequests, CanGrant

-----------------------------------------------------------------------------
(***************************************************************************)
(* The steps of a worker preserve the invariant.                           *)
(***************************************************************************)

\* What the primary's variables being unchanged leaves as it is.
LEMMA PrimaryUnchanged ==
    ASSUME TypeOK, Accounts, UNCHANGED primaryVars
    PROVE  PrimaryTypeOK' /\ Accounts'
BY DEF TypeOK, PrimaryTypeOK, Accounts, TokenConservation, CanGrant, primaryVars

\* A new call takes a fresh id: no stage of that request exists yet.
LEMMA AcquirePermitStep ==
    ASSUME IInv, NEW w \in Workers, AcquirePermit(w), UNCHANGED primaryVars
    PROVE  IInv'
<1> DEFINE r == lastId[w] + 1
<1> USE MaxCallsAssumption
<1>1. /\ IpcTypeOK /\ WorkerTypeOK /\ TypeOK /\ Accounts
      /\ UNCHANGED <<proc, toWorker, releaseTimers, reported>>
      /\ lastId' = [lastId EXCEPT ![w] = r]
    BY DEF IInv, TypeOK, AcquirePermit
<1>2. lastId[w] \in Nat /\ r \in RequestIds /\ <<w, r>> \in Requests
    BY <1>1 DEF WorkerTypeOK, AcquirePermit, RequestIds, Requests
<1>3. PICK c \in {"waiting", "rejected"} : call' = [call EXCEPT ![<<w, r>>] = c]
    BY DEF AcquirePermit, SetCall
<1>4. call[<<w, r>>] = "none"
    BY <1>2 DEF IInv, FreshIds
<1>5. /\ toPrimary' \in [Workers -> Seq(Message)]
      /\ \A v \in Workers, s \in RequestIds :
             Acquiring(v, s)' => Acquiring(v, s) \/ (v = w /\ s = r)
      /\ \A v \in Workers, s \in RequestIds : Releasing(v, s)' => Releasing(v, s)
      /\ \A v \in Workers, s \in RequestIds :
             OnceIn(AcquireMsg(s), toPrimary'[v])
  <2>1. ~Acquiring(w, r)
      BY <1>2, <1>4 DEF IInv, Stages, Stage, Unused
  <2>2. \A v \in Workers, s \in RequestIds : OnceIn(AcquireMsg(s), toPrimary[v])
      BY DEF IInv, AtMostOnce, Once
  <2>3. CASE WorkerSent(w, AcquireMsg(r))
    <3>1. /\ toPrimary' \in [Workers -> Seq(Message)]
          /\ \A v \in Workers : \A x :
                 x \in Elements(toPrimary'[v])
                     <=> x \in Elements(toPrimary[v]) \/ (v = w /\ x = AcquireMsg(r))
          /\ \A v \in Workers : \A e :
                 OnceIn(e, toPrimary[v])
                   /\ (e # AcquireMsg(r) \/ e \notin Elements(toPrimary[v]))
                     => OnceIn(e, toPrimary'[v])
        BY <1>1, <1>2, <2>3, WorkerSentEffect, MessagesDiffer
    <3>2. \A v \in Workers, s \in RequestIds :
              Acquiring(v, s)' => Acquiring(v, s) \/ (v = w /\ s = r)
        BY <1>2, <3>1, MessagesDiffer DEF Acquiring
    <3>3. \A v \in Workers, s \in RequestIds : Releasing(v, s)' => Releasing(v, s)
        BY <1>1, <1>2, <3>1, MessagesDiffer DEF Releasing
    <3>4. \A v \in Workers, s \in RequestIds : OnceIn(AcquireMsg(s), toPrimary'[v])
      <4> SUFFICES ASSUME NEW v \in Workers, NEW s \in RequestIds
                   PROVE  OnceIn(AcquireMsg(s), toPrimary'[v])
          OBVIOUS
      <4>1. CASE v = w
          BY <4>1, <2>1, <2>2, <3>1, <1>2, MessagesDiffer DEF Acquiring
      <4>2. CASE v # w
        <5>1. toPrimary'[v] = toPrimary[v]
            BY <4>2, <2>3, <1>1 DEF WorkerSent, IpcTypeOK
        <5> QED BY <5>1, <2>2
      <4> QED BY <4>1, <4>2
    <3> QED BY <3>1, <3>2, <3>3, <3>4
  <2>4. CASE UNCHANGED toPrimary
    <3>1. toPrimary' \in [Workers -> Seq(Message)]
        BY <1>1, <2>4 DEF IpcTypeOK
    <3>2. \A v \in Workers, s \in RequestIds : Acquiring(v, s)' <=> Acquiring(v, s)
        BY <2>4 DEF Acquiring
    <3>3. \A v \in Workers, s \in RequestIds : Releasing(v, s)' <=> Releasing(v, s)
        BY <1>1, <2>4 DEF Releasing
    <3> QED BY <2>2, <2>4, <3>1, <3>2, <3>3
  <2> QED BY <2>3, <2>4 DEF AcquirePermit
<1>6. IpcTypeOK' /\ WorkerTypeOK'
  <2>1. call' \in [Requests -> CallState]
      BY <1>1, <1>2, <1>3 DEF WorkerTypeOK, CallState
  <2>2. lastId' \in [Workers -> 0..MaxCalls]
      BY <1>1, <1>2 DEF WorkerTypeOK, RequestIds
  <2> QED BY <1>1, <1>5, <2>1, <2>2 DEF IpcTypeOK, WorkerTypeOK
<1>7. \A v \in Workers, s \in RequestIds :
          call'[<<v, s>>] = IF v = w /\ s = r THEN c ELSE call[<<v, s>>]
    BY <1>1, <1>2, <1>3 DEF WorkerTypeOK, Requests
<1>8. FreshIds'
  <2>1. \A v \in Workers, s \in RequestIds :
            s > lastId'[v] => s > lastId[v] /\ ~(v = w /\ s = r)
      BY <1>1, <1>2 DEF WorkerTypeOK, RequestIds
  <2> QED BY <2>1, <1>7 DEF IInv, FreshIds
<1>9. AtMostOnce'
  <2> SUFFICES ASSUME NEW v \in Workers, NEW s \in RequestIds PROVE Once(v, s)'
      BY DEF AtMostOnce
  <2> QED BY <1>1, <1>5 DEF IInv, AtMostOnce, Once, Retrying, primaryVars
<1>10. Stages'
  <2> SUFFICES ASSUME NEW v \in Workers, NEW s \in RequestIds PROVE Stage(v, s)'
      BY DEF Stages
  <2>1. Stage(v, s)
      BY DEF IInv, Stages
  <2>2. /\ Acquiring(v, s)' => Acquiring(v, s) \/ (v = w /\ s = r)
        /\ Queued(v, s)' <=> Queued(v, s)
        /\ GrantTravels(v, s)' <=> GrantTravels(v, s)
        /\ \A n \in 0..GrantRetryLimit : Retrying(v, s, n)' <=> Retrying(v, s, n)
        /\ Releasing(v, s)' => Releasing(v, s)
      BY <1>1, <1>5 DEF Queued, GrantTravels, Retrying, primaryVars
  <2>3. /\ leased' = leased
        /\ Connected(v)' <=> Connected(v)
        /\ Running(v)' <=> Running(v)
        /\ IsDead(v)' <=> IsDead(v)
      BY <1>1 DEF Connected, Running, IsDead, primaryVars
  <2>4. CASE v = w /\ s = r
    <3>1. call[<<v, s>>] = "none" /\ call'[<<v, s>>] = c
        BY <1>4, <1>7, <2>4
    <3> QED BY <2>1, <2>2, <2>3, <3>1 DEF Stage, Unused
  <2>5. CASE ~(v = w /\ s = r)
    <3>1. call'[<<v, s>>] = call[<<v, s>>]
        BY <1>7, <2>5
    <3> QED BY <2>1, <2>2, <2>3, <2>5, <3>1 DEF Stage, Unused
  <2> QED BY <2>4, <2>5
<1> QED BY <1>6, <1>8, <1>9, <1>10, <1>1, PrimaryUnchanged DEF IInv, TypeOK

\* What the processes and channels being unchanged leaves as it is.
LEMMA ProcUnchanged ==
    ASSUME UNCHANGED proc, NEW w \in Workers
    PROVE  /\ Connected(w)' <=> Connected(w)
           /\ Running(w)' <=> Running(w)
           /\ IsDead(w)' <=> IsDead(w)
BY DEF Connected, Running, IsDead

\* A call that times out keeps its place: a GRANT may still come for it.
LEMMA PermitTimeoutStep ==
    ASSUME IInv, NEW w \in Workers, NEW r \in RequestIds, PermitTimeout(w, r),
           UNCHANGED primaryVars
    PROVE  IInv'
<1>1. /\ IpcTypeOK /\ WorkerTypeOK /\ TypeOK /\ Accounts
      /\ UNCHANGED <<proc, toWorker, toPrimary, lastId, releaseTimers, reported>>
      /\ call' = [call EXCEPT ![<<w, r>>] = "rejected"]
      /\ call[<<w, r>>] = "waiting"
      /\ <<w, r>> \in Requests
    BY DEF IInv, TypeOK, PermitTimeout, SetCall, ipcVars, Requests
<1>2. \A v \in Workers, s \in RequestIds :
          call'[<<v, s>>] = IF v = w /\ s = r THEN "rejected" ELSE call[<<v, s>>]
    BY <1>1 DEF WorkerTypeOK, Requests
<1>3. IpcTypeOK' /\ WorkerTypeOK'
    BY <1>1 DEF IpcTypeOK, WorkerTypeOK, CallState
<1>4. FreshIds'
    BY <1>1, <1>2 DEF IInv, FreshIds
<1>5. AtMostOnce'
  <2> SUFFICES ASSUME NEW v \in Workers, NEW s \in RequestIds PROVE Once(v, s)'
      BY DEF AtMostOnce
  <2> QED BY <1>1 DEF IInv, AtMostOnce, Once, Retrying, primaryVars
<1>6. Stages'
  <2> SUFFICES ASSUME NEW v \in Workers, NEW s \in RequestIds PROVE Stage(v, s)'
      BY DEF Stages
  <2>1. Stage(v, s)
      BY DEF IInv, Stages
  <2>2. /\ Acquiring(v, s)' <=> Acquiring(v, s)
        /\ Queued(v, s)' <=> Queued(v, s)
        /\ GrantTravels(v, s)' <=> GrantTravels(v, s)
        /\ \A n \in 0..GrantRetryLimit : Retrying(v, s, n)' <=> Retrying(v, s, n)
        /\ Releasing(v, s)' <=> Releasing(v, s)
        /\ leased' = leased
      BY <1>1 DEF Acquiring, Queued, GrantTravels, Retrying, Releasing, primaryVars
  <2> QED BY <1>1, <1>2, <2>1, <2>2, ProcUnchanged DEF Stage, Unused
<1> QED BY <1>1, <1>3, <1>4, <1>5, <1>6, PrimaryUnchanged DEF IInv, TypeOK

\* A release attempt for a request whose call is over, with nothing else
\* changed but that call having become over.
LEMMA ReleaseStep ==
    ASSUME IInv, NEW w \in Workers, NEW r \in RequestIds,
           NEW n \in 0..(ReleaseRetryLimit + 1),
           NEW others \in SUBSET releaseTimers,
           SendPermitTermination(w, r, n, others),
           NEW c \in {"settled", "returned"},
           call' = [call EXCEPT ![<<w, r>>] = c],
           call[<<w, r>>] \notin {"none", "waiting"},
           IpcTypeOK => toWorker' \in [Workers -> Seq(RequestIds)],
           \A v \in Workers, s \in RequestIds :
               /\ GrantTravels(v, s)' => GrantTravels(v, s)
               /\ OnceIn(s, toWorker[v]) => OnceIn(s, toWorker'[v]),
           ~GrantTravels(w, r)', ~Acquiring(w, r), ~Queued(w, r),
           \A m \in 0..GrantRetryLimit : ~Retrying(w, r, m),
           UNCHANGED <<proc, lastId>>, UNCHANGED primaryVars
    PROVE  IInv'
<1>1. /\ IpcTypeOK /\ WorkerTypeOK /\ TypeOK /\ Accounts
      /\ <<w, r>> \in Requests
    BY DEF IInv, TypeOK, Requests
<1>2. \A v \in Workers, s \in RequestIds :
          call'[<<v, s>>] = IF v = w /\ s = r THEN c ELSE call[<<v, s>>]
    BY <1>1 DEF WorkerTypeOK, Requests
<1>3. /\ toPrimary' \in [Workers -> Seq(Message)]
      /\ releaseTimers' \subseteq ReleaseAttempts
      /\ reported' \subseteq Requests
      /\ \A v \in Workers, s \in RequestIds : Acquiring(v, s)' <=> Acquiring(v, s)
      /\ \A v \in Workers, s \in RequestIds :
             Releasing(v, s)' => Releasing(v, s) \/ (v = w /\ s = r)
      /\ \A v \in Workers, s \in RequestIds :
             OnceIn(AcquireMsg(s), toPrimary[v]) => OnceIn(AcquireMsg(s), toPrimary'[v])
    BY <1>1, SendPermitTerminationEffect
<1>4. IpcTypeOK' /\ WorkerTypeOK'
    BY <1>1, <1>3 DEF IpcTypeOK, WorkerTypeOK, CallState
<1>5. FreshIds'
    BY <1>1, <1>2 DEF IInv, FreshIds
<1>6. AtMostOnce'
  <2> SUFFICES ASSUME NEW v \in Workers, NEW s \in RequestIds PROVE Once(v, s)'
      BY DEF AtMostOnce
  <2> QED BY <1>3 DEF IInv, AtMostOnce, Once, Retrying, primaryVars
<1>7. Stages'
  <2> SUFFICES ASSUME NEW v \in Workers, NEW s \in RequestIds PROVE Stage(v, s)'
      BY DEF Stages
  <2>1. Stage(v, s)
      BY DEF IInv, Stages
  <2>2. /\ Queued(v, s)' <=> Queued(v, s)
        /\ \A m \in 0..GrantRetryLimit : Retrying(v, s, m)' <=> Retrying(v, s, m)
        /\ leased' = leased
      BY DEF Queued, Retrying, primaryVars
  <2>3. CASE v = w /\ s = r
    <3>1. call'[<<v, s>>] = c
        BY <1>2, <2>3
    <3> QED BY <1>3, <2>1, <2>2, <2>3, <3>1, ProcUnchanged DEF Stage, Unused
  <2>4. CASE ~(v = w /\ s = r)
    <3>1. call'[<<v, s>>] = call[<<v, s>>]
        BY <1>2, <2>4
    <3> QED BY <1>3, <2>1, <2>2, <2>4, <3>1, ProcUnchanged DEF Stage, Unused
  <2> QED BY <2>3, <2>4
<1> QED BY <1>1, <1>4, <1>5, <1>6, <1>7, PrimaryUnchanged DEF IInv, TypeOK

\* A GRANT is used by the call that waits for it, or handed back.
LEMMA HandleGrantStep ==
    ASSUME IInv, NEW w \in Workers, HandleGrant(w), UNCHANGED primaryVars
    PROVE  IInv'
<1>1. /\ IpcTypeOK /\ WorkerTypeOK /\ TypeOK /\ Accounts
      /\ toWorker \in [Workers -> Seq(RequestIds)] /\ toWorker[w] # <<>>
      /\ toWorker' = [toWorker EXCEPT ![w] = Tail(toWorker[w])]
      /\ UNCHANGED <<proc, lastId>>
    BY DEF IInv, TypeOK, HandleGrant, IpcTypeOK
<1>2. PICK r \in RequestIds : r = Head(toWorker[w]) /\ <<w, r>> \in Requests
    BY <1>1 DEF Requests
<1>3. Elements(toWorker[w]) = Elements(Tail(toWorker[w])) \cup {r}
    BY <1>1, <1>2, ElementsTail
<1>4. \A s \in RequestIds :
          OnceIn(s, toWorker[w])
              => /\ OnceIn(s, Tail(toWorker[w]))
                 /\ s = r => s \notin Elements(Tail(toWorker[w]))
    BY <1>1, <1>2, OnceTail
<1>5. /\ toWorker' \in [Workers -> Seq(RequestIds)]
      /\ \A v \in Workers, s \in RequestIds :
             /\ GrantTravels(v, s)' => GrantTravels(v, s)
             /\ OnceIn(s, toWorker[v]) => OnceIn(s, toWorker'[v])
    BY <1>1, <1>3, <1>4 DEF GrantTravels
<1>6. GrantTravels(w, r) /\ ~GrantTravels(w, r)'
    BY <1>1, <1>2, <1>3, <1>4 DEF GrantTravels, IInv, AtMostOnce, Once
<1>7. Stage(w, r)
    BY <1>2 DEF IInv, Stages
<1>8. CASE /\ call[<<w, r>>] = "waiting" /\ SetCall(w, r, "running")
           /\ UNCHANGED <<toPrimary, releaseTimers, reported>>
  <2>1. \A v \in Workers, s \in RequestIds :
            call'[<<v, s>>] = IF v = w /\ s = r THEN "running" ELSE call[<<v, s>>]
      BY <1>1, <1>2, <1>8 DEF WorkerTypeOK, Requests, SetCall
  <2>2. IpcTypeOK' /\ WorkerTypeOK'
      BY <1>1, <1>2, <1>5, <1>8 DEF IpcTypeOK, WorkerTypeOK, CallState, SetCall
  <2>3. FreshIds'
      BY <1>1, <1>8, <2>1 DEF IInv, FreshIds
  <2>4. AtMostOnce'
    <3> SUFFICES ASSUME NEW v \in Workers, NEW s \in RequestIds PROVE Once(v, s)'
        BY DEF AtMostOnce
    <3> QED BY <1>5, <1>8 DEF IInv, AtMostOnce, Once, Retrying, primaryVars
  <2>5. Stages'
    <3> SUFFICES ASSUME NEW v \in Workers, NEW s \in RequestIds PROVE Stage(v, s)'
        BY DEF Stages
    <3>1. Stage(v, s)
        BY DEF IInv, Stages
    <3>2. /\ Acquiring(v, s)' <=> Acquiring(v, s)
          /\ Queued(v, s)' <=> Queued(v, s)
          /\ \A n \in 0..GrantRetryLimit : Retrying(v, s, n)' <=> Retrying(v, s, n)
          /\ Releasing(v, s)' <=> Releasing(v, s)
          /\ leased' = leased
        BY <1>8 DEF Acquiring, Queued, Retrying, Releasing, primaryVars
    <3>3. CASE v = w /\ s = r
        BY <1>1, <1>6, <1>8, <2>1, <3>1, <3>2, <3>3, ProcUnchanged DEF Stage, Unused
    <3>4. CASE ~(v = w /\ s = r)
      <4>1. call'[<<v, s>>] = call[<<v, s>>]
          BY <2>1, <3>4
      <4> QED BY <1>1, <1>5, <3>1, <3>2, <4>1, ProcUnchanged DEF Stage, Unused
    <3> QED BY <3>3, <3>4
  <2> QED BY <1>1, <2>2, <2>3, <2>4, <2>5, PrimaryUnchanged DEF IInv, TypeOK
<1>9. CASE call[<<w, r>>] # "waiting" /\ SetCall(w, r, "returned") /\ ReleasePermit(w, r)
  <2>1. /\ call[<<w, r>>] = "rejected"
        /\ ~Acquiring(w, r) /\ ~Queued(w, r)
        /\ \A m \in 0..GrantRetryLimit : ~Retrying(w, r, m)
      BY <1>6, <1>7, <1>9 DEF Stage, Unused
  <2>2. /\ SendPermitTermination(w, r, 0, releaseTimers)
        /\ call' = [call EXCEPT ![<<w, r>>] = "returned"]
        /\ 0 \in 0..(ReleaseRetryLimit + 1)
      BY <1>9, ReleaseRetryLimitAssumption DEF ReleasePermit, SetCall
  <2> QED BY <1>1, <1>2, <1>5, <1>6, <2>1, <2>2, ReleaseStep
<1> QED BY <1>2, <1>8, <1>9 DEF HandleGrant

\* A call that settles had the permit, and gives it back.
LEMMA CallSettlesStep ==
    ASSUME IInv, NEW w \in Workers, NEW r \in RequestIds, CallSettles(w, r),
           UNCHANGED primaryVars
    PROVE  IInv'
<1>1. /\ call[<<w, r>>] = "running" /\ Running(w)
      /\ call' = [call EXCEPT ![<<w, r>>] = "settled"]
      /\ SendPermitTermination(w, r, 0, releaseTimers)
      /\ 0 \in 0..(ReleaseRetryLimit + 1)
      /\ UNCHANGED <<proc, lastId>> /\ toWorker' = toWorker
    BY ReleaseRetryLimitAssumption DEF CallSettles, SetCall, ReleasePermit
<1>2. \A v \in Workers, s \in RequestIds :
          /\ GrantTravels(v, s)' => GrantTravels(v, s)
          /\ OnceIn(s, toWorker[v]) => OnceIn(s, toWorker'[v])
    BY <1>1 DEF GrantTravels
<1>3. /\ ~GrantTravels(w, r)' /\ ~Acquiring(w, r) /\ ~Queued(w, r)
      /\ \A m \in 0..GrantRetryLimit : ~Retrying(w, r, m)
    BY <1>1, <1>2 DEF IInv, Stages, Stage, Unused
<1>4. IpcTypeOK => toWorker' \in [Workers -> Seq(RequestIds)]
    BY <1>1 DEF IpcTypeOK
<1> QED BY <1>1, <1>2, <1>3, <1>4, ReleaseStep

\* A release is tried again.
LEMMA RetryReleaseStep ==
    ASSUME IInv, NEW w \in Workers, NEW r \in RequestIds,
           NEW n \in 0..(ReleaseRetryLimit + 1), RetryRelease(w, r, n),
           UNCHANGED primaryVars
    PROVE  IInv'
<1>1. /\ <<w, r, n>> \in releaseTimers
      /\ SendPermitTermination(w, r, n, releaseTimers \ {<<w, r, n>>})
      /\ UNCHANGED <<proc, lastId>> /\ toWorker' = toWorker /\ call' = call
    BY DEF RetryRelease
<1>2. call[<<w, r>>] \in {"settled", "returned"}
    BY <1>1 DEF IInv, Stages, Stage, Releasing
<1>3. call' = [call EXCEPT ![<<w, r>>] = call[<<w, r>>]]
    BY <1>1 DEF IInv, TypeOK, WorkerTypeOK, Requests
<1>4. \A v \in Workers, s \in RequestIds :
          /\ GrantTravels(v, s)' => GrantTravels(v, s)
          /\ OnceIn(s, toWorker[v]) => OnceIn(s, toWorker'[v])
    BY <1>1 DEF GrantTravels
<1>5. /\ ~GrantTravels(w, r)' /\ ~Acquiring(w, r) /\ ~Queued(w, r)
      /\ \A m \in 0..GrantRetryLimit : ~Retrying(w, r, m)
    BY <1>2, <1>4 DEF IInv, Stages, Stage, Unused
<1>6. IpcTypeOK => toWorker' \in [Workers -> Seq(RequestIds)]
    BY <1>1 DEF IpcTypeOK
<1>7. releaseTimers \ {<<w, r, n>>} \in SUBSET releaseTimers
    OBVIOUS
<1> QED BY <1>1, <1>2, <1>3, <1>4, <1>5, <1>6, <1>7, ReleaseStep

\* A worker that exits or loses its channel leaves its tokens leased, and
\* nothing on its way to it.
LEMMA ChannelLostStep ==
    ASSUME IInv, NEW w \in Workers, NEW state \in {"disconnected", "exited"},
           Running(w), proc' = [proc EXCEPT ![w] = state],
           toWorker' = [toWorker EXCEPT ![w] = <<>>],
           releaseTimers' \in SUBSET releaseTimers,
           UNCHANGED <<toPrimary, lastId, call, reported>>, UNCHANGED primaryVars
    PROVE  IInv'
<1>1. /\ IpcTypeOK /\ WorkerTypeOK /\ TypeOK /\ Accounts
      /\ toWorker \in [Workers -> Seq(RequestIds)] /\ proc \in [Workers -> ProcState]
    BY DEF IInv, TypeOK, IpcTypeOK
<1>2. IpcTypeOK' /\ WorkerTypeOK'
    BY <1>1 DEF IpcTypeOK, WorkerTypeOK, ProcState
<1>3. FreshIds'
    BY DEF IInv, FreshIds
<1>4. \A v \in Workers, s \in RequestIds :
          /\ GrantTravels(v, s)' => GrantTravels(v, s) /\ v # w
          /\ OnceIn(s, toWorker[v]) => OnceIn(s, toWorker'[v])
    BY <1>1, ElementsEmpty, OnceEmpty DEF GrantTravels
<1>5. AtMostOnce'
  <2> SUFFICES ASSUME NEW v \in Workers, NEW s \in RequestIds PROVE Once(v, s)'
      BY DEF AtMostOnce
  <2> QED BY <1>4 DEF IInv, AtMostOnce, Once, Retrying, primaryVars
<1>6. \A v \in Workers :
          /\ IsDead(v)' <=> IsDead(v)
          /\ Running(v)' => Running(v)
          /\ v # w => (Connected(v)' <=> Connected(v))
    BY <1>1 DEF IsDead, Running, Connected
<1>7. Stages'
  <2> SUFFICES ASSUME NEW v \in Workers, NEW s \in RequestIds PROVE Stage(v, s)'
      BY DEF Stages
  <2>1. Stage(v, s)
      BY DEF IInv, Stages
  <2>2. /\ Acquiring(v, s)' <=> Acquiring(v, s)
        /\ Queued(v, s)' <=> Queued(v, s)
        /\ \A n \in 0..GrantRetryLimit : Retrying(v, s, n)' <=> Retrying(v, s, n)
        /\ Releasing(v, s)' => Releasing(v, s)
        /\ leased' = leased /\ call' = call
      BY DEF Acquiring, Queued, Retrying, Releasing, primaryVars
  <2> QED BY <1>4, <1>6, <2>1, <2>2 DEF Stage, Unused
<1> QED BY <1>1, <1>2, <1>3, <1>5, <1>7, PrimaryUnchanged DEF IInv, TypeOK

\* The end of a worker process is such a loss.
LEMMA WorkerDiesStep ==
    ASSUME IInv, NEW w \in Workers, WorkerDies(w), UNCHANGED primaryVars
    PROVE  IInv'
BY ChannelLostStep DEF WorkerDies, ProcessExits

\* The close of the channel of a worker that lives on is such a loss.
LEMMA WorkerDisconnectsStep ==
    ASSUME IInv, NEW w \in Workers, WorkerDisconnects(w), UNCHANGED primaryVars
    PROVE  IInv'
BY ChannelLostStep DEF WorkerDisconnects, ChannelCloses, Running, workerVars

-----------------------------------------------------------------------------
(***************************************************************************)
(* The steps of the primary preserve the invariant.                        *)
(***************************************************************************)

\* What the workers' variables being unchanged leaves as it is.
LEMMA WorkerUnchanged ==
    ASSUME IInv, UNCHANGED workerVars
    PROVE  WorkerTypeOK' /\ FreshIds' /\ call' = call /\ releaseTimers' = releaseTimers
BY DEF IInv, TypeOK, WorkerTypeOK, FreshIds, workerVars

\* Sending a GRANT puts it in the channel or leaves a failed attempt behind.
LEMMA SendGrantEffect ==
    ASSUME TypeOK, NEW w \in Workers, NEW r \in RequestIds,
           NEW n \in 0..GrantRetryLimit, SendGrant(w, r, n)
    PROVE  /\ toWorker' \in [Workers -> Seq(RequestIds)]
           /\ failedSends' \subseteq Attempts
           /\ \A v \in Workers, s \in RequestIds :
                  GrantTravels(v, s)'
                      => GrantTravels(v, s) \/ (v = w /\ s = r /\ Connected(w))
           /\ \A v \in Workers, s \in RequestIds :
                  OnceIn(s, toWorker[v]) /\ ~(v = w /\ s = r /\ GrantTravels(w, r))
                      => OnceIn(s, toWorker'[v])
           /\ failedSends' = failedSends
              \/ (toWorker' = toWorker /\ failedSends' = failedSends \cup {<<w, r, n>>})
<1>1. /\ IpcTypeOK /\ failedSends \subseteq Attempts
      /\ toWorker \in [Workers -> Seq(RequestIds)]
    BY DEF TypeOK, IpcTypeOK, PrimaryTypeOK
<1>2. CASE GrantSent(w, r) /\ UNCHANGED failedSends
  <2>1. /\ toWorker' \in [Workers -> Seq(RequestIds)]
        /\ \A v \in Workers : \A x :
               x \in Elements(toWorker'[v])
                   <=> x \in Elements(toWorker[v]) \/ (v = w /\ x = r /\ Connected(w))
        /\ \A v \in Workers : \A e :
               OnceIn(e, toWorker[v])
                 /\ (e # r \/ v # w \/ e \notin Elements(toWorker[v]))
                   => OnceIn(e, toWorker'[v])
      BY <1>1, <1>2, GrantSentEffect
  <2> QED BY <1>1, <1>2, <2>1 DEF GrantTravels
<1>3. CASE failedSends' = failedSends \cup {<<w, r, n>>} /\ UNCHANGED toWorker
    BY <1>1, <1>3 DEF GrantTravels, Attempts
<1> QED BY <1>2, <1>3 DEF SendGrant

\* One iteration of the loop moves the request at the head of the queue from
\* queued to leased, or drops it.
LEMMA GrantStepStep ==
    ASSUME IInv, GrantStep, UNCHANGED workerVars
    PROVE  IInv'
<1> USE MaxConcurrentAssumption, GrantRetryLimitAssumption
<1>1. /\ IpcTypeOK /\ PrimaryTypeOK /\ TypeOK /\ Accounts
      /\ granting = TRUE /\ queue \in Seq(Requests)
      /\ queue' = Tail(queue)
      /\ UNCHANGED <<proc, toPrimary, retryTimers>>
      /\ GrantPendingRequests
    BY DEF IInv, TypeOK, PrimaryTypeOK, GrantStep
<1>2. queue # <<>> /\ remaining > 0 /\ remaining \in 0..MaxConcurrent
    BY <1>1 DEF Accounts, CanGrant, PrimaryTypeOK
<1>3. Head(queue) \in Requests /\ queue' \in Seq(Requests)
    BY <1>1, <1>2
<1>4. PICK w \in Workers, r \in RequestIds : Head(queue) = <<w, r>>
    BY <1>3 DEF Requests
<1>5. Elements(queue) = Elements(Tail(queue)) \cup {<<w, r>>}
    BY <1>1, <1>2, <1>4, ElementsTail
<1>6. \A v \in Workers, s \in RequestIds :
          /\ OnceIn(<<v, s>>, queue')
          /\ <<v, s>> = <<w, r>> => <<v, s>> \notin Elements(Tail(queue))
    BY <1>1, <1>2, <1>4, OnceTail DEF IInv, AtMostOnce, Once
<1>7. /\ \A v \in Workers, s \in RequestIds : Queued(v, s)' => Queued(v, s)
      /\ Queued(w, r) /\ ~Queued(w, r)'
    BY <1>1, <1>5, <1>6 DEF Queued
<1>8. Stage(w, r)
    BY DEF IInv, Stages
<1>9. /\ WorkerTypeOK' /\ FreshIds'
      /\ \A v \in Workers, s \in RequestIds :
             /\ Acquiring(v, s)' <=> Acquiring(v, s)
             /\ Releasing(v, s)' <=> Releasing(v, s)
             /\ Unused(v, s)' <=> Unused(v, s)
      /\ call' = call
    BY <1>1, WorkerUnchanged DEF Acquiring, Releasing, Unused
<1>10. granting' \in BOOLEAN /\ (granting' => CanGrant(queue', remaining'))
    BY <1>1 DEF GrantPendingRequests, CanGrant
<1>11. CASE UNCHANGED <<leased, remaining, failedSends, toWorker>>
  <2>1. Accounts'
      BY <1>1, <1>10, <1>11 DEF Accounts, TokenConservation
  <2>2. IpcTypeOK' /\ PrimaryTypeOK'
      BY <1>1, <1>3, <1>10, <1>11 DEF IpcTypeOK, PrimaryTypeOK
  <2>3. AtMostOnce'
    <3> SUFFICES ASSUME NEW v \in Workers, NEW s \in RequestIds PROVE Once(v, s)'
        BY DEF AtMostOnce
    <3> QED BY <1>1, <1>6, <1>11 DEF IInv, AtMostOnce, Once, Retrying
  <2>4. Stages'
    <3> SUFFICES ASSUME NEW v \in Workers, NEW s \in RequestIds PROVE Stage(v, s)'
        BY DEF Stages
    <3>1. Stage(v, s)
        BY DEF IInv, Stages
    <3>2. /\ GrantTravels(v, s)' <=> GrantTravels(v, s)
          /\ \A n \in 0..GrantRetryLimit : Retrying(v, s, n)' <=> Retrying(v, s, n)
        BY <1>1, <1>11 DEF GrantTravels, Retrying
    <3> QED BY <1>1, <1>7, <1>9, <1>11, <3>1, <3>2, ProcUnchanged DEF Stage
  <2> QED BY <1>9, <2>1, <2>2, <2>3, <2>4 DEF IInv, TypeOK
<1>12. CASE ~IsDead(w) /\ IncrementWorkerUsage(w, r) /\ SendGrant(w, r, 0)
  <2>1. /\ leased' = leased \cup {<<w, r>>}
        /\ remaining' = remaining - 1
      BY <1>12 DEF IncrementWorkerUsage
  <2>2. /\ <<w, r>> \notin leased /\ Unused(w, r)
        /\ ~Acquiring(w, r) /\ ~GrantTravels(w, r) /\ ~Releasing(w, r)
        /\ \A n \in 0..GrantRetryLimit : ~Retrying(w, r, n)
      BY <1>7, <1>8, <1>12 DEF Stage, Unused
  <2>3. Accounts'
    <3>1. IsFiniteSet(leased') /\ Cardinality(leased') = Cardinality(leased) + 1
        BY <1>1, <2>1, <2>2, FS_AddElement DEF Accounts
    <3>2. Cardinality(leased) \in Nat
        BY <1>1, FS_CardinalityType DEF Accounts
    <3> QED BY <1>1, <1>2, <1>10, <2>1, <3>1, <3>2 DEF Accounts, TokenConservation
  <2>4. 0 \in 0..GrantRetryLimit
      OBVIOUS
  <2>5. /\ toWorker' \in [Workers -> Seq(RequestIds)]
        /\ failedSends' \subseteq Attempts
        /\ \A v \in Workers, s \in RequestIds :
               GrantTravels(v, s)'
                   => GrantTravels(v, s) \/ (v = w /\ s = r /\ Connected(w))
        /\ \A v \in Workers, s \in RequestIds :
               OnceIn(s, toWorker[v]) /\ ~(v = w /\ s = r /\ GrantTravels(w, r))
                   => OnceIn(s, toWorker'[v])
        /\ failedSends' = failedSends
           \/ (toWorker' = toWorker /\ failedSends' = failedSends \cup {<<w, r, 0>>})
      BY <1>1, <1>12, <2>4, SendGrantEffect
  <2>6. IpcTypeOK' /\ PrimaryTypeOK'
    <3>1. remaining' \in 0..MaxConcurrent
        BY <1>2, <2>1
    <3>2. leased' \subseteq Requests /\ retryTimers' \subseteq Attempts
        BY <1>1, <2>1 DEF PrimaryTypeOK, Requests
    <3>3. IpcTypeOK'
        BY <1>1, <2>5 DEF IpcTypeOK
    <3> QED BY <1>3, <1>10, <2>5, <3>1, <3>2, <3>3 DEF PrimaryTypeOK
  <2>7. \A v \in Workers, s \in RequestIds : \A n \in 0..GrantRetryLimit :
            Retrying(v, s, n)'
                => Retrying(v, s, n) \/ (v = w /\ s = r /\ n = 0 /\ toWorker' = toWorker)
      BY <1>1, <2>5 DEF Retrying
  <2>8. AtMostOnce'
    <3> SUFFICES ASSUME NEW v \in Workers, NEW s \in RequestIds PROVE Once(v, s)'
        BY DEF AtMostOnce
    <3>1. Once(v, s)
        BY DEF IInv, AtMostOnce
    <3>2. OnceIn(s, toWorker'[v]) /\ OnceIn(AcquireMsg(s), toPrimary'[v])
        BY <1>1, <2>2, <2>5, <3>1 DEF Once
    <3>3. \A m, n \in 0..GrantRetryLimit :
              Retrying(v, s, m)' /\ Retrying(v, s, n)' => m = n
        BY <2>2, <2>7, <3>1 DEF Once
    <3>4. \A n \in 0..GrantRetryLimit :
              <<v, s, n>> \in failedSends' => <<v, s, n>> \notin retryTimers'
        BY <1>1, <2>2, <2>5, <3>1 DEF Once, Retrying
    <3> QED BY <1>6, <3>2, <3>3, <3>4 DEF Once
  <2>9. Stages'
    <3> SUFFICES ASSUME NEW v \in Workers, NEW s \in RequestIds PROVE Stage(v, s)'
        BY DEF Stages
    <3>1. Stage(v, s)
        BY DEF IInv, Stages
    <3>2. /\ IsDead(v)' <=> IsDead(v)
          /\ Connected(v)' <=> Connected(v)
          /\ Running(v)' <=> Running(v)
        BY <1>1, ProcUnchanged
    <3>3. CASE v = w /\ s = r
      <4>1. GrantTravels(v, s)' => \A n \in 0..GrantRetryLimit : ~Retrying(v, s, n)'
        <5>1. CASE toWorker' = toWorker
            BY <2>2, <3>3, <5>1 DEF GrantTravels
        <5>2. CASE toWorker' # toWorker
            BY <2>2, <2>7, <3>3, <5>2
        <5> QED BY <5>1, <5>2
      <4> QED BY <1>7, <1>9, <1>12, <2>1, <2>2, <2>5, <3>2, <3>3, <4>1 DEF Stage, Unused
    <3>4. CASE ~(v = w /\ s = r)
      <4>1. /\ <<v, s>> \in leased' <=> <<v, s>> \in leased
            /\ GrantTravels(v, s)' => GrantTravels(v, s)
            /\ \A n \in 0..GrantRetryLimit : Retrying(v, s, n)' => Retrying(v, s, n)
          BY <2>1, <2>5, <2>7, <3>4
      <4> QED BY <1>7, <1>9, <3>1, <3>2, <4>1 DEF Stage
    <3> QED BY <3>3, <3>4
  <2> QED BY <1>9, <2>3, <2>6, <2>8, <2>9 DEF IInv, TypeOK
<1> QED BY <1>4, <1>11, <1>12 DEF GrantStep

\* A message is read: an ACQUIRE joins the queue, a RELEASE gives back the
\* token of a call that is over.
LEMMA HandleHotMessageStep ==
    ASSUME IInv, NEW w \in Workers, HandleHotMessage(w), UNCHANGED workerVars
    PROVE  IInv'
<1> USE MaxConcurrentAssumption, GrantRetryLimitAssumption
<1>1. /\ IpcTypeOK /\ PrimaryTypeOK /\ TypeOK /\ Accounts /\ ~granting
      /\ toPrimary[w] # <<>>
      /\ toPrimary' = [toPrimary EXCEPT ![w] = Tail(toPrimary[w])]
      /\ UNCHANGED <<proc, toWorker, failedSends, retryTimers>>
    BY DEF IInv, TypeOK, HandleHotMessage
<1>2. PICK m \in Message : m = Head(toPrimary[w])
    BY <1>1, PrimaryReadsEffect
<1>3. PICK r \in RequestIds :
          /\ r = m.req
          /\ m.op = "acquire" => m = AcquireMsg(r)
          /\ m.op = "release" => m = ReleaseMsg(r)
    BY MessageForms
<1>4. /\ m \in Elements(toPrimary[w])
      /\ toPrimary' \in [Workers -> Seq(Message)]
      /\ \A v \in Workers : \A x :
             x \in Elements(toPrimary'[v]) => x \in Elements(toPrimary[v])
      /\ \A v \in Workers : \A e : OnceIn(e, toPrimary[v]) => OnceIn(e, toPrimary'[v])
      /\ \A e : OnceIn(e, toPrimary[w]) /\ e = m => e \notin Elements(toPrimary'[w])
    BY <1>1, <1>2, PrimaryReadsEffect
<1>5. /\ WorkerTypeOK' /\ FreshIds' /\ call' = call
      /\ \A v \in Workers, s \in RequestIds :
             /\ Acquiring(v, s)' => Acquiring(v, s)
             /\ Releasing(v, s)' => Releasing(v, s)
             /\ Unused(v, s)' <=> Unused(v, s)
             /\ GrantTravels(v, s)' <=> GrantTravels(v, s)
             /\ \A n \in 0..GrantRetryLimit : Retrying(v, s, n)' <=> Retrying(v, s, n)
    BY <1>1, <1>4, WorkerUnchanged
       DEF Acquiring, Releasing, Unused, GrantTravels, Retrying
<1>6. \A v \in Workers, s \in RequestIds :
          OnceIn(AcquireMsg(s), toPrimary'[v]) /\ OnceIn(s, toWorker'[v])
    BY <1>1, <1>4 DEF IInv, AtMostOnce, Once
<1>7. Stage(w, r)
    BY DEF IInv, Stages
<1>8. <<w, r>> \in Requests
    BY DEF Requests
<1>9. CASE /\ m.op = "acquire" /\ queue' = Append(queue, <<w, r>>)
           /\ UNCHANGED <<leased, remaining>> /\ GrantPendingRequests
  <2>1. queue \in Seq(Requests) /\ queue' \in Seq(Requests)
      BY <1>1, <1>8, <1>9 DEF PrimaryTypeOK
  <2>2. Elements(queue') = Elements(queue) \cup {<<w, r>>}
      BY <1>8, <1>9, <2>1, ElementsAppend
  <2>3. Acquiring(w, r) /\ ~Acquiring(w, r)'
      BY <1>3, <1>4, <1>9 DEF Acquiring, IInv, AtMostOnce, Once
  <2>4. Unused(w, r) /\ ~Queued(w, r) /\ <<w, r>> \notin leased
      BY <1>7, <2>3 DEF Stage
  <2>5. \A v \in Workers, s \in RequestIds : OnceIn(<<v, s>>, queue')
    <3> SUFFICES ASSUME NEW v \in Workers, NEW s \in RequestIds
                 PROVE  OnceIn(<<v, s>>, Append(queue, <<w, r>>))
        BY <1>9
    <3>1. OnceIn(<<v, s>>, queue)
        BY DEF IInv, AtMostOnce, Once
    <3>2. <<v, s>> # <<w, r>> \/ <<v, s>> \notin Elements(queue)
        BY <2>4 DEF Queued
    <3> QED BY <1>8, <2>1, <3>1, <3>2, OnceAppend
  <2>6. granting' \in BOOLEAN /\ Accounts'
      BY <1>1, <1>9, GrantPendingEffect
  <2>7. IpcTypeOK' /\ PrimaryTypeOK'
      BY <1>1, <1>4, <1>9, <2>1, <2>6 DEF IpcTypeOK, PrimaryTypeOK
  <2>8. AtMostOnce'
    <3> SUFFICES ASSUME NEW v \in Workers, NEW s \in RequestIds PROVE Once(v, s)'
        BY DEF AtMostOnce
    <3> QED BY <1>1, <1>5, <1>6, <2>5 DEF IInv, AtMostOnce, Once
  <2>9. Stages'
    <3> SUFFICES ASSUME NEW v \in Workers, NEW s \in RequestIds PROVE Stage(v, s)'
        BY DEF Stages
    <3>1. Stage(v, s)
        BY DEF IInv, Stages
    <3>2. Queued(v, s)' => Queued(v, s) \/ (v = w /\ s = r)
        BY <2>2 DEF Queued
    <3> QED BY <1>1, <1>5, <1>9, <2>3, <2>4, <3>1, <3>2, ProcUnchanged DEF Stage
  <2> QED BY <1>5, <2>6, <2>7, <2>8, <2>9 DEF IInv, TypeOK
<1>10. CASE m.op = "release" /\ UNCHANGED queue /\ DecrementWorkerUsage(w, r)
  <2>1. queue' \in Seq(Requests)
      BY <1>1, <1>10 DEF PrimaryTypeOK
  <2>2. /\ leased' = leased \ {<<w, r>>}
        /\ remaining' \in 0..MaxConcurrent
        /\ granting' \in BOOLEAN
        /\ Accounts'
      BY <1>1, <1>10, <2>1, DecrementEffect
  <2>3. Releasing(w, r)
      BY <1>3, <1>4, <1>10 DEF Releasing
  <2>4. call[<<w, r>>] \in {"settled", "returned"}
      BY <1>7, <2>3 DEF Stage
  <2>5. leased' \subseteq Requests
      BY <1>1, <2>2 DEF PrimaryTypeOK
  <2>6. IpcTypeOK' /\ PrimaryTypeOK'
      BY <1>1, <1>4, <2>1, <2>2, <2>5 DEF IpcTypeOK, PrimaryTypeOK
  <2>7. AtMostOnce'
    <3> SUFFICES ASSUME NEW v \in Workers, NEW s \in RequestIds PROVE Once(v, s)'
        BY DEF AtMostOnce
    <3> QED BY <1>1, <1>5, <1>6, <1>10 DEF IInv, AtMostOnce, Once
  <2>8. Stages'
    <3> SUFFICES ASSUME NEW v \in Workers, NEW s \in RequestIds PROVE Stage(v, s)'
        BY DEF Stages
    <3>1. Stage(v, s)
        BY DEF IInv, Stages
    <3>2. Queued(v, s)' <=> Queued(v, s)
        BY <1>10 DEF Queued
    <3>3. <<v, s>> \in leased' <=> <<v, s>> \in leased /\ ~(v = w /\ s = r)
        BY <2>2
    <3> QED BY <1>1, <1>5, <2>4, <3>1, <3>2, <3>3, ProcUnchanged DEF Stage, Unused
  <2> QED BY <1>5, <2>2, <2>6, <2>7, <2>8 DEF IInv, TypeOK
<1> QED BY <1>2, <1>3, <1>9, <1>10 DEF HandleHotMessage

\* #handleWorkerExit takes back the tokens of a worker that has exited or
\* been reaped already, in which case it finds none.
LEMMA WorkerGoneStep ==
    ASSUME IInv, NEW w \in Workers, HandleWorkerExit(w),
           proc' \in [Workers -> ProcState], IsDead(w)',
           proc[w] \in {"exited", "reaped"},
           \A v \in Workers : v # w => proc'[v] = proc[v],
           UNCHANGED <<toWorker, toPrimary, queue>>,
           failedSends' \subseteq failedSends, retryTimers' \subseteq retryTimers,
           UNCHANGED workerVars
    PROVE  IInv'
<1>1. /\ IpcTypeOK /\ PrimaryTypeOK /\ TypeOK /\ Accounts
    BY DEF IInv, TypeOK
<1>2. /\ leased' = {p \in leased : p[1] # w}
      /\ remaining' \in 0..MaxConcurrent
      /\ granting' \in BOOLEAN
      /\ Accounts'
    BY <1>1, HandleWorkerExitEffect
<1>3. IpcTypeOK' /\ PrimaryTypeOK'
    BY <1>1, <1>2 DEF IpcTypeOK, PrimaryTypeOK
<1>4. /\ WorkerTypeOK' /\ FreshIds' /\ call' = call
      /\ \A v \in Workers, s \in RequestIds :
             /\ Acquiring(v, s)' <=> Acquiring(v, s)
             /\ Queued(v, s)' <=> Queued(v, s)
             /\ Releasing(v, s)' <=> Releasing(v, s)
             /\ Unused(v, s)' <=> Unused(v, s)
             /\ GrantTravels(v, s)' <=> GrantTravels(v, s)
             /\ \A n \in 0..GrantRetryLimit : Retrying(v, s, n)' => Retrying(v, s, n)
    BY WorkerUnchanged DEF Acquiring, Queued, Releasing, Unused, GrantTravels, Retrying
<1>5. AtMostOnce'
  <2> SUFFICES ASSUME NEW v \in Workers, NEW s \in RequestIds PROVE Once(v, s)'
      BY DEF AtMostOnce
  <2> QED BY <1>4 DEF IInv, AtMostOnce, Once
<1>6. Stages'
  <2> SUFFICES ASSUME NEW v \in Workers, NEW s \in RequestIds PROVE Stage(v, s)'
      BY DEF Stages
  <2>1. Stage(v, s)
      BY DEF IInv, Stages
  <2>2. CASE v = w
    <3>1. ~Running(v)' /\ IsDead(v)' /\ ~Connected(v) /\ <<v, s>> \notin leased'
        BY <1>2, <2>2 DEF Running, IsDead, Connected
    <3> QED BY <1>4, <2>1, <3>1 DEF Stage
  <2>3. CASE v # w
    <3>1. /\ Connected(v)' <=> Connected(v)
          /\ Running(v)' <=> Running(v)
          /\ IsDead(v)' <=> IsDead(v)
          /\ <<v, s>> \in leased' <=> <<v, s>> \in leased
        BY <1>2, <2>3 DEF Running, IsDead, Connected
    <3> QED BY <1>4, <2>1, <3>1 DEF Stage
  <2> QED BY <2>2, <2>3
<1> QED BY <1>2, <1>3, <1>4, <1>5, <1>6 DEF IInv, TypeOK

\* A GRANT that is given up gives its token back.
LEMMA GrantGivenUpStep ==
    ASSUME IInv, ~granting, NEW w \in Workers, NEW r \in RequestIds,
           NEW n \in 0..GrantRetryLimit, Retrying(w, r, n), ~Retrying(w, r, n)',
           DecrementWorkerUsage(w, r),
           UNCHANGED <<proc, toWorker, toPrimary, queue>>,
           failedSends' \subseteq failedSends, retryTimers' \subseteq retryTimers,
           UNCHANGED workerVars
    PROVE  IInv'
<1>1. IpcTypeOK /\ PrimaryTypeOK /\ TypeOK /\ Accounts
    BY DEF IInv, TypeOK
<1>2. queue' \in Seq(Requests)
    BY <1>1 DEF PrimaryTypeOK
<1>3. /\ leased' = leased \ {<<w, r>>}
      /\ remaining' \in 0..MaxConcurrent
      /\ granting' \in BOOLEAN
      /\ Accounts'
    BY <1>1, <1>2, DecrementEffect
<1>4. IpcTypeOK' /\ PrimaryTypeOK'
    BY <1>1, <1>2, <1>3 DEF IpcTypeOK, PrimaryTypeOK
<1>5. /\ WorkerTypeOK' /\ FreshIds' /\ call' = call
      /\ \A v \in Workers, s \in RequestIds :
             /\ Acquiring(v, s)' <=> Acquiring(v, s)
             /\ Queued(v, s)' <=> Queued(v, s)
             /\ Releasing(v, s)' <=> Releasing(v, s)
             /\ Unused(v, s)' <=> Unused(v, s)
             /\ GrantTravels(v, s)' <=> GrantTravels(v, s)
             /\ \A m \in 0..GrantRetryLimit : Retrying(v, s, m)' => Retrying(v, s, m)
    BY WorkerUnchanged DEF Acquiring, Queued, Releasing, Unused, GrantTravels, Retrying
<1>6. AtMostOnce'
  <2> SUFFICES ASSUME NEW v \in Workers, NEW s \in RequestIds PROVE Once(v, s)'
      BY DEF AtMostOnce
  <2> QED BY <1>5 DEF IInv, AtMostOnce, Once
<1>7. /\ \A m \in 0..GrantRetryLimit : ~Retrying(w, r, m)'
      /\ Unused(w, r) /\ ~GrantTravels(w, r)
    BY <1>5 DEF IInv, AtMostOnce, Once, Stages, Stage
<1>8. Stages'
  <2> SUFFICES ASSUME NEW v \in Workers, NEW s \in RequestIds PROVE Stage(v, s)'
      BY DEF Stages
  <2>1. Stage(v, s)
      BY DEF IInv, Stages
  <2>2. <<v, s>> \in leased' <=> <<v, s>> \in leased /\ ~(v = w /\ s = r)
      BY <1>3
  <2> QED BY <1>5, <1>7, <2>1, <2>2, ProcUnchanged DEF Stage, Unused
<1> QED BY <1>3, <1>4, <1>5, <1>6, <1>8 DEF IInv, TypeOK

\* The error callback of a failed attempt starts a timer or gives up.
LEMMA SendFailedStep ==
    ASSUME IInv, NEW w \in Workers, NEW r \in RequestIds,
           NEW n \in 0..GrantRetryLimit, SendFailed(w, r, n), UNCHANGED workerVars
    PROVE  IInv'
<1> USE GrantRetryLimitAssumption
<1>1. /\ ~granting /\ <<w, r, n>> \in failedSends
      /\ failedSends' = failedSends \ {<<w, r, n>>}
      /\ UNCHANGED <<queue, proc, toWorker, toPrimary>>
      /\ IpcTypeOK /\ PrimaryTypeOK /\ TypeOK /\ Accounts
    BY DEF IInv, TypeOK, SendFailed
<1>2. CASE IsDead(w) /\ HandleWorkerExit(w) /\ UNCHANGED retryTimers
  <2>1. proc' \in [Workers -> ProcState] /\ proc[w] \in {"exited", "reaped"} /\ IsDead(w)'
      BY <1>1, <1>2 DEF IpcTypeOK, IsDead
  <2> QED BY <1>1, <1>2, <2>1, WorkerGoneStep
<1>3. CASE /\ n < GrantRetryLimit
           /\ retryTimers' = retryTimers \cup {<<w, r, n + 1>>}
           /\ UNCHANGED <<leased, remaining, granting>>
  <2>1. IpcTypeOK' /\ PrimaryTypeOK' /\ Accounts'
    <3>1. IpcTypeOK'
        BY <1>1 DEF IpcTypeOK
    <3>2. failedSends' \subseteq Attempts /\ retryTimers' \subseteq Attempts
        BY <1>1, <1>3 DEF PrimaryTypeOK, Attempts
    <3>3. PrimaryTypeOK'
        BY <1>1, <1>3, <3>2 DEF PrimaryTypeOK
    <3> QED BY <1>1, <1>3, <3>1, <3>3 DEF Accounts, TokenConservation, CanGrant
  <2>2. /\ WorkerTypeOK' /\ FreshIds' /\ call' = call
        /\ \A v \in Workers, s \in RequestIds :
               /\ Acquiring(v, s)' <=> Acquiring(v, s)
               /\ Queued(v, s)' <=> Queued(v, s)
               /\ Releasing(v, s)' <=> Releasing(v, s)
               /\ Unused(v, s)' <=> Unused(v, s)
               /\ GrantTravels(v, s)' <=> GrantTravels(v, s)
      BY <1>1, WorkerUnchanged DEF Acquiring, Queued, Releasing, Unused, GrantTravels
  <2>3. \A m \in 0..GrantRetryLimit : Retrying(w, r, m) <=> m = n
      BY <1>1 DEF IInv, AtMostOnce, Once, Retrying
  <2>4. \A m \in 0..GrantRetryLimit : Retrying(w, r, m)' <=> m = n + 1
    <3> SUFFICES ASSUME NEW m \in 0..GrantRetryLimit
                 PROVE  Retrying(w, r, m)' <=> m = n + 1
        OBVIOUS
    <3>1. <<w, r, m>> \in failedSends <=> m = n
        BY <1>1, <2>3 DEF IInv, AtMostOnce, Once, Retrying
    <3>2. <<w, r, m>> \notin retryTimers
        BY <1>1, <2>3 DEF IInv, AtMostOnce, Once, Retrying
    <3>3. <<w, r, m>> \notin failedSends'
        BY <1>1, <3>1
    <3>4. <<w, r, m>> \in retryTimers' <=> m = n + 1
        BY <1>3, <3>2
    <3> QED BY <3>3, <3>4 DEF Retrying
  <2>5. \A v \in Workers, s \in RequestIds : ~(v = w /\ s = r) =>
            \A m \in 0..GrantRetryLimit : Retrying(v, s, m)' <=> Retrying(v, s, m)
      BY <1>1, <1>3 DEF Retrying
  <2>6. AtMostOnce'
    <3> SUFFICES ASSUME NEW v \in Workers, NEW s \in RequestIds PROVE Once(v, s)'
        BY DEF AtMostOnce
    <3>1. Once(v, s)
        BY DEF IInv, AtMostOnce
    <3>2. \A k, m \in 0..GrantRetryLimit :
              Retrying(v, s, k)' /\ Retrying(v, s, m)' => k = m
        BY <2>4, <2>5, <3>1 DEF Once
    <3>3. \A m \in 0..GrantRetryLimit :
              <<v, s, m>> \in failedSends' => <<v, s, m>> \notin retryTimers'
      <4>1. <<w, r, n + 1>> \notin failedSends
          BY <1>3, <2>3 DEF Retrying
      <4> QED BY <1>1, <1>3, <3>1, <4>1 DEF Once
    <3> QED BY <1>1, <3>1, <3>2, <3>3 DEF Once
  <2>7. Stages'
    <3> SUFFICES ASSUME NEW v \in Workers, NEW s \in RequestIds PROVE Stage(v, s)'
        BY DEF Stages
    <3>1. Stage(v, s)
        BY DEF IInv, Stages
    <3>2. CASE v = w /\ s = r
      <4>1. Unused(w, r) /\ (<<w, r>> \in leased \/ IsDead(w)) /\ ~GrantTravels(w, r)
          BY <2>3, <3>1, <3>2 DEF Stage
      <4> QED BY <1>1, <1>3, <2>2, <3>1, <3>2, <4>1, ProcUnchanged DEF Stage
    <3>3. CASE ~(v = w /\ s = r)
        BY <1>1, <1>3, <2>2, <2>5, <3>1, <3>3, ProcUnchanged DEF Stage
    <3> QED BY <3>2, <3>3
  <2> QED BY <2>1, <2>2, <2>6, <2>7 DEF IInv, TypeOK
<1>4. CASE DecrementWorkerUsage(w, r) /\ UNCHANGED retryTimers
  <2>1. Retrying(w, r, n) /\ ~Retrying(w, r, n)'
      BY <1>1, <1>4 DEF IInv, AtMostOnce, Once, Retrying
  <2> QED BY <1>1, <1>4, <2>1, GrantGivenUpStep
<1> QED BY <1>2, <1>3, <1>4 DEF SendFailed

\* The retry timer sends the GRANT again, or gives up when that throws.
LEMMA RetryGrantStep ==
    ASSUME IInv, NEW w \in Workers, NEW r \in RequestIds,
           NEW n \in 0..GrantRetryLimit, RetryGrant(w, r, n), UNCHANGED workerVars
    PROVE  IInv'
<1>1. /\ ~granting /\ <<w, r, n>> \in retryTimers
      /\ retryTimers' = retryTimers \ {<<w, r, n>>}
      /\ UNCHANGED <<queue, proc, toPrimary>>
      /\ IpcTypeOK /\ PrimaryTypeOK /\ TypeOK /\ Accounts
    BY DEF IInv, TypeOK, RetryGrant
<1>2. \A m \in 0..GrantRetryLimit : Retrying(w, r, m) <=> m = n
    BY <1>1 DEF IInv, AtMostOnce, Once, Retrying
<1>3. <<w, r, n>> \notin failedSends
    BY <1>1 DEF IInv, AtMostOnce, Once
<1>4. Unused(w, r) /\ (<<w, r>> \in leased \/ IsDead(w)) /\ ~GrantTravels(w, r)
    BY <1>2 DEF IInv, Stages, Stage
<1>5. CASE SendGrant(w, r, n) /\ UNCHANGED <<leased, remaining, granting>>
  <2>1. /\ toWorker' \in [Workers -> Seq(RequestIds)]
        /\ failedSends' \subseteq Attempts
        /\ \A v \in Workers, s \in RequestIds :
               GrantTravels(v, s)'
                   => GrantTravels(v, s) \/ (v = w /\ s = r /\ Connected(w))
        /\ \A v \in Workers, s \in RequestIds :
               OnceIn(s, toWorker[v]) /\ ~(v = w /\ s = r /\ GrantTravels(w, r))
                   => OnceIn(s, toWorker'[v])
        /\ failedSends' = failedSends
           \/ (toWorker' = toWorker /\ failedSends' = failedSends \cup {<<w, r, n>>})
      BY <1>1, <1>5, SendGrantEffect
  <2>2. IpcTypeOK' /\ PrimaryTypeOK' /\ Accounts'
    <3>1. IpcTypeOK'
        BY <1>1, <2>1 DEF IpcTypeOK
    <3>2. PrimaryTypeOK'
        BY <1>1, <1>5, <2>1 DEF PrimaryTypeOK
    <3> QED BY <1>1, <1>5, <3>1, <3>2 DEF Accounts, TokenConservation, CanGrant
  <2>3. /\ WorkerTypeOK' /\ FreshIds' /\ call' = call
        /\ \A v \in Workers, s \in RequestIds :
               /\ Acquiring(v, s)' <=> Acquiring(v, s)
               /\ Queued(v, s)' <=> Queued(v, s)
               /\ Releasing(v, s)' <=> Releasing(v, s)
               /\ Unused(v, s)' <=> Unused(v, s)
      BY <1>1, WorkerUnchanged DEF Acquiring, Queued, Releasing, Unused
  <2>4. \A m \in 0..GrantRetryLimit :
            Retrying(w, r, m)' => m = n /\ toWorker' = toWorker
    <3> SUFFICES ASSUME NEW m \in 0..GrantRetryLimit, Retrying(w, r, m)'
                 PROVE  m = n /\ toWorker' = toWorker
        OBVIOUS
    <3>1. <<w, r, m>> \notin retryTimers'
        BY <1>1, <1>2 DEF Retrying
    <3>2. <<w, r, m>> \in failedSends'
        BY <3>1 DEF Retrying
    <3>3. <<w, r, m>> \notin failedSends
        BY <1>2, <1>3 DEF Retrying
    <3> QED BY <2>1, <3>2, <3>3
  <2>5. \A v \in Workers, s \in RequestIds : ~(v = w /\ s = r) =>
            \A m \in 0..GrantRetryLimit : Retrying(v, s, m)' <=> Retrying(v, s, m)
      BY <1>1, <2>1 DEF Retrying
  <2>6. AtMostOnce'
    <3> SUFFICES ASSUME NEW v \in Workers, NEW s \in RequestIds PROVE Once(v, s)'
        BY DEF AtMostOnce
    <3>1. Once(v, s)
        BY DEF IInv, AtMostOnce
    <3>2. \A k, m \in 0..GrantRetryLimit :
              Retrying(v, s, k)' /\ Retrying(v, s, m)' => k = m
        BY <2>4, <2>5, <3>1 DEF Once
    <3>3. \A m \in 0..GrantRetryLimit :
              <<v, s, m>> \in failedSends' => <<v, s, m>> \notin retryTimers'
        BY <1>1, <2>1, <3>1 DEF Once
    <3>4. OnceIn(s, toWorker'[v])
        BY <1>4, <2>1, <3>1 DEF Once
    <3> QED BY <1>1, <3>1, <3>2, <3>3, <3>4 DEF Once
  <2>7. Stages'
    <3> SUFFICES ASSUME NEW v \in Workers, NEW s \in RequestIds PROVE Stage(v, s)'
        BY DEF Stages
    <3>1. Stage(v, s)
        BY DEF IInv, Stages
    <3>2. /\ IsDead(v)' <=> IsDead(v)
          /\ Connected(v)' <=> Connected(v)
          /\ Running(v)' <=> Running(v)
          /\ Connected(v) => ~IsDead(v)
        BY <1>1, ProcUnchanged DEF Connected, IsDead
    <3>3. CASE v = w /\ s = r
      <4>1. GrantTravels(v, s)' => \A m \in 0..GrantRetryLimit : ~Retrying(v, s, m)'
        <5>1. CASE toWorker' = toWorker
            BY <1>4, <3>3, <5>1 DEF GrantTravels
        <5>2. CASE toWorker' # toWorker
            BY <2>4, <3>3, <5>2
        <5> QED BY <5>1, <5>2
      <4>2. GrantTravels(v, s)' => Connected(v) /\ <<v, s>> \in leased
          BY <1>4, <2>1, <3>2, <3>3
      <4> QED BY <1>4, <1>5, <2>3, <3>1, <3>2, <3>3, <4>1, <4>2 DEF Stage
    <3>4. CASE ~(v = w /\ s = r)
        BY <1>5, <2>1, <2>3, <2>5, <3>1, <3>2, <3>4 DEF Stage
    <3> QED BY <3>3, <3>4
  <2> QED BY <2>2, <2>3, <2>6, <2>7 DEF IInv, TypeOK
<1>6. CASE IsDead(w) /\ HandleWorkerExit(w) /\ UNCHANGED <<failedSends, toWorker>>
  <2>1. proc' \in [Workers -> ProcState] /\ proc[w] \in {"exited", "reaped"} /\ IsDead(w)'
      BY <1>1, <1>6 DEF IpcTypeOK, IsDead
  <2> QED BY <1>1, <1>6, <2>1, WorkerGoneStep
<1>7. CASE DecrementWorkerUsage(w, r) /\ UNCHANGED <<failedSends, toWorker>>
  <2>1. Retrying(w, r, n) /\ ~Retrying(w, r, n)'
      BY <1>1, <1>3, <1>7 DEF Retrying
  <2> QED BY <1>1, <1>7, <2>1, GrantGivenUpStep
<1> QED BY <1>5, <1>6, <1>7 DEF RetryGrant

\* The exit event of a worker.
LEMMA WorkerExitsStep ==
    ASSUME IInv, NEW w \in Workers, WorkerExits(w), UNCHANGED workerVars
    PROVE  IInv'
<1>1. /\ proc[w] = "exited" /\ proc' = [proc EXCEPT ![w] = "reaped"]
      /\ UNCHANGED <<toWorker, toPrimary, queue, failedSends, retryTimers>>
      /\ HandleWorkerExit(w)
      /\ proc \in [Workers -> ProcState]
    BY DEF WorkerExits, ExitEvent, IInv, TypeOK, IpcTypeOK
<1>2. /\ proc' \in [Workers -> ProcState] /\ IsDead(w)'
      /\ \A v \in Workers : v # w => proc'[v] = proc[v]
    BY <1>1 DEF ProcState, IsDead
<1> QED BY <1>1, <1>2, WorkerGoneStep

-----------------------------------------------------------------------------
(***************************************************************************)
(* The invariant is inductive.                                             *)
(***************************************************************************)

\* Nothing has been asked for in the initial state.
LEMMA InitIInv == Init => IInv
<1> SUFFICES ASSUME Init PROVE IInv
    OBVIOUS
<1> USE MaxConcurrentAssumption, MaxCallsAssumption DEF Init, IpcInit, PrimaryInit, WorkerInit
<1>1. TypeOK
  <2>1. IpcTypeOK
      BY DEF IpcTypeOK, ProcState
  <2>2. PrimaryTypeOK
    <3>1. MaxConcurrent \in 0..MaxConcurrent /\ FALSE \in BOOLEAN
        OBVIOUS
    <3>2. <<>> \in Seq(Requests)
        OBVIOUS
    <3> QED BY <3>1, <3>2 DEF PrimaryTypeOK
  <2>3. WorkerTypeOK
      BY DEF WorkerTypeOK, CallState
  <2> QED BY <2>1, <2>2, <2>3 DEF TypeOK
<1>2. Accounts
    BY FS_EmptySet DEF Accounts, TokenConservation
<1>3. FreshIds
    BY DEF FreshIds, Requests
<1>4. AtMostOnce
    BY OnceEmpty DEF AtMostOnce, Once, Retrying
<1>5. Stages
    BY ElementsEmpty
       DEF Stages, Stage, Acquiring, Queued, GrantTravels, Retrying, Releasing, Requests
<1> QED BY <1>1, <1>2, <1>3, <1>4, <1>5 DEF IInv

\* A step of a worker preserves it: one case per action.
LEMMA WorkerNextIInv ==
    ASSUME IInv, WorkerNext, UNCHANGED primaryVars
    PROVE  IInv'
<1>1. CASE \E w \in Workers : AcquirePermit(w)
    BY <1>1, AcquirePermitStep
<1>2. CASE \E w \in Workers : HandleGrant(w)
    BY <1>2, HandleGrantStep
<1>3. CASE \E w \in Workers : WorkerDies(w)
    BY <1>3, WorkerDiesStep
<1>4. CASE \E w \in Workers : WorkerDisconnects(w)
    BY <1>4, WorkerDisconnectsStep
<1>5. CASE \E p \in Requests : PermitTimeout(p[1], p[2])
    BY <1>5, PermitTimeoutStep DEF Requests
<1>6. CASE \E p \in Requests : CallSettles(p[1], p[2])
    BY <1>6, CallSettlesStep DEF Requests
<1>7. CASE \E t \in ReleaseAttempts : RetryRelease(t[1], t[2], t[3])
    BY <1>7, RetryReleaseStep DEF ReleaseAttempts
<1> QED BY <1>1, <1>2, <1>3, <1>4, <1>5, <1>6, <1>7 DEF WorkerNext

\* A step of the primary preserves it: one case per action.
LEMMA PrimaryNextIInv ==
    ASSUME IInv, PrimaryNext, UNCHANGED workerVars
    PROVE  IInv'
<1>1. CASE GrantStep
    BY <1>1, GrantStepStep
<1>2. CASE \E w \in Workers : HandleHotMessage(w)
    BY <1>2, HandleHotMessageStep
<1>3. CASE \E w \in Workers : WorkerExits(w)
    BY <1>3, WorkerExitsStep
<1>4. CASE \E a \in Attempts : SendFailed(a[1], a[2], a[3])
    BY <1>4, SendFailedStep DEF Attempts
<1>5. CASE \E a \in Attempts : RetryGrant(a[1], a[2], a[3])
    BY <1>5, RetryGrantStep DEF Attempts
<1> QED BY <1>1, <1>2, <1>3, <1>4, <1>5 DEF PrimaryNext

\* A stuttering step preserves it.
LEMMA StutterIInv ==
    ASSUME IInv, UNCHANGED vars
    PROVE  IInv'
<1> USE DEF vars, ipcVars, primaryVars, workerVars
<1>1. TypeOK'
    BY DEF IInv, TypeOK, IpcTypeOK, PrimaryTypeOK, WorkerTypeOK
<1>2. Accounts'
    BY DEF IInv, Accounts, TokenConservation, CanGrant
<1>3. FreshIds'
    BY DEF IInv, FreshIds
<1>4. AtMostOnce'
    BY DEF IInv, AtMostOnce, Once, Retrying
<1>5. Stages'
  <2> SUFFICES ASSUME NEW v \in Workers, NEW s \in RequestIds PROVE Stage(v, s)'
      BY DEF Stages
  <2>1. Stage(v, s)
      BY DEF IInv, Stages
  <2>2. /\ Acquiring(v, s)' <=> Acquiring(v, s)
        /\ Queued(v, s)' <=> Queued(v, s)
        /\ GrantTravels(v, s)' <=> GrantTravels(v, s)
        /\ \A n \in 0..GrantRetryLimit : Retrying(v, s, n)' <=> Retrying(v, s, n)
        /\ Releasing(v, s)' <=> Releasing(v, s)
        /\ Unused(v, s)' <=> Unused(v, s)
      BY DEF Acquiring, Queued, GrantTravels, Retrying, Releasing, Unused
  <2> QED BY <2>1, <2>2, ProcUnchanged DEF Stage
<1> QED BY <1>1, <1>2, <1>3, <1>4, <1>5 DEF IInv

\* IInv holds in every state of the system.
THEOREM Invariance == Spec => []IInv
<1>1. IInv /\ [Next]_vars => IInv'
  <2> SUFFICES ASSUME IInv, [Next]_vars PROVE IInv'
      OBVIOUS
  <2>1. CASE PrimaryNext /\ UNCHANGED workerVars
      BY <2>1, PrimaryNextIInv
  <2>2. CASE WorkerNext /\ UNCHANGED primaryVars
      BY <2>2, WorkerNextIInv
  <2>3. CASE UNCHANGED vars
      BY <2>3, StutterIInv
  <2> QED BY <2>1, <2>2, <2>3 DEF Next
<1> QED BY <1>1, InitIInv, PTL DEF Spec

-----------------------------------------------------------------------------
(***************************************************************************)
(* What follows from the invariant in every state.                         *)
(***************************************************************************)

\* The calls in flight hold leases, and no more leases exist than tokens.
LEMMA IInvLimits ==
    ASSUME IInv
    PROVE  /\ InFlight \subseteq leased
           /\ IsFiniteSet(InFlight)
           /\ Cardinality(InFlight) <= Cardinality(leased)
           /\ AtMostMaxInFlight
<1> USE MaxConcurrentAssumption
<1>1. InFlight \subseteq leased
    BY DEF InFlight, Requests, IInv, Stages, Stage
<1>2. IsFiniteSet(leased) /\ Cardinality(leased) \in Nat
    BY FS_CardinalityType DEF IInv, Accounts
<1>3. /\ IsFiniteSet(InFlight) /\ Cardinality(InFlight) \in Nat
      /\ Cardinality(InFlight) <= Cardinality(leased)
    BY <1>1, <1>2, FS_Subset, FS_CardinalityType
<1>4. remaining \in 0..MaxConcurrent /\ remaining + Cardinality(leased) = MaxConcurrent
    BY DEF IInv, TypeOK, PrimaryTypeOK, Accounts, TokenConservation
<1>5. Cardinality(InFlight) <= MaxConcurrent
    BY <1>2, <1>3, <1>4
<1> QED BY <1>1, <1>3, <1>5 DEF AtMostMaxInFlight

\* Every variable of the system has its type; remainingTokens stays between
\* zero and the limit.
THEOREM TypeCorrect == Spec => []TypeOK
<1>1. IInv => TypeOK
    BY DEF IInv
<1> QED BY <1>1, Invariance, PTL

\* At most MaxConcurrent calls are in flight (README.md:109), for any number
\* of workers, calls and retries and under all the faults of ClusterIpc.
THEOREM LimitsConcurrency == Spec => []AtMostMaxInFlight
<1>1. IInv => AtMostMaxInFlight
    BY IInvLimits
<1> QED BY <1>1, Invariance, PTL

\* remainingTokens and the leases of clusterPendingRequests always add up.
THEOREM ConservesTokens == Spec => []TokenConservation
<1>1. IInv => TokenConservation
    BY DEF IInv, Accounts
<1> QED BY <1>1, Invariance, PTL

\* A worker whose exit has been handled holds no lease, whatever arrives late.
THEOREM ReclaimsOnExit == Spec => []ReapedHoldsNothing
<1>1. IInv => ReapedHoldsNothing
    BY DEF IInv, TypeOK, PrimaryTypeOK, Requests, Stages, Stage, ReapedHoldsNothing
<1> QED BY <1>1, Invariance, PTL

\* The primary is never back in its event loop with a request and a token.
THEOREM NoLostWakeup == Spec => []NoIdleCapacity
<1>1. Init => NoIdleCapacity
    BY DEF Init, PrimaryInit, NoIdleCapacity
<1>2. ASSUME TypeOK, TypeOK', NoIdleCapacity, [Next]_vars PROVE NoIdleCapacity'
  <2>1. queue' \in Seq(Requests) /\ remaining' \in Nat
      BY <1>2, MaxConcurrentAssumption DEF TypeOK, PrimaryTypeOK
  <2>2. CASE GrantPendingRequests
    <3>1. CASE granting'
        BY <3>1 DEF NoIdleCapacity
    <3>2. CASE ~granting'
      <4>1. ~CanGrant(queue', remaining')
          BY <2>2, <3>2, Zenon DEF GrantPendingRequests
      <4>2. queue' = <<>> \/ remaining' = 0
          BY <2>1, <4>1 DEF CanGrant
      <4> QED BY <4>2 DEF NoIdleCapacity
    <3> QED BY <3>1, <3>2
  <2>3. CASE UNCHANGED <<queue, remaining, granting>>
      BY <1>2, <2>3 DEF NoIdleCapacity
  <2>4. CASE UNCHANGED vars
      BY <2>3, <2>4 DEF vars, primaryVars
  <2>5. CASE WorkerNext /\ UNCHANGED primaryVars
      BY <2>3, <2>5 DEF primaryVars
  <2>6. CASE GrantStep
      BY <2>2, <2>6 DEF GrantStep
  <2>7. CASE \E w \in Workers : HandleHotMessage(w)
      BY <2>2, <2>3, <2>7 DEF HandleHotMessage, DecrementWorkerUsage
  <2>8. CASE \E w \in Workers : WorkerExits(w)
      BY <2>2, <2>8 DEF WorkerExits, HandleWorkerExit
  <2>9. CASE \E a \in Attempts : SendFailed(a[1], a[2], a[3])
      BY <2>2, <2>3, <2>9 DEF SendFailed, HandleWorkerExit, DecrementWorkerUsage
  <2>10. CASE \E a \in Attempts : RetryGrant(a[1], a[2], a[3])
      BY <2>2, <2>3, <2>10 DEF RetryGrant, HandleWorkerExit, DecrementWorkerUsage
  <2> QED BY <1>2, <2>4, <2>5, <2>6, <2>7, <2>8, <2>9, <2>10 DEF Next, PrimaryNext
<1> QED BY <1>1, <1>2, TypeCorrect, PTL DEF Spec

-----------------------------------------------------------------------------
(***************************************************************************)
(* No token of a connected worker is lost in silence.                      *)
(***************************************************************************)

\* What NoSilentLeak says of one request.
Accounted(w, r) ==
    <<w, r>> \in leased /\ Connected(w) =>
        call[<<w, r>>] = "running" \/ <<w, r>> \in reported \/ OnItsWay(w, r)

\* NoSilentLeak speaks of every request.
LEMMA LeakByRequest ==
    ASSUME PrimaryTypeOK
    PROVE  NoSilentLeak <=> \A w \in Workers, r \in RequestIds : Accounted(w, r)
<1>1. leased \subseteq Requests
    BY DEF PrimaryTypeOK
<1>2. ASSUME NoSilentLeak, NEW w \in Workers, NEW r \in RequestIds PROVE Accounted(w, r)
  <2>1. <<w, r>>[1] = w /\ <<w, r>>[2] = r
      OBVIOUS
  <2> QED BY <1>2, <2>1 DEF NoSilentLeak, Accounted
<1>3. ASSUME \A w \in Workers, r \in RequestIds : Accounted(w, r), NEW p \in leased,
             Connected(p[1])
      PROVE  call[p] = "running" \/ p \in reported \/ OnItsWay(p[1], p[2])
  <2>1. p[1] \in Workers /\ p[2] \in RequestIds /\ p = <<p[1], p[2]>>
      BY <1>1, <1>3 DEF Requests
  <2> QED BY <1>3, <2>1 DEF Accounted
<1> QED BY <1>2, <1>3 DEF NoSilentLeak

\* A release attempt puts the RELEASE on its way, starts a timer or reports.
LEMMA TerminationLeavesTrace ==
    ASSUME TypeOK, NEW w \in Workers, NEW r \in RequestIds,
           NEW n \in 0..(ReleaseRetryLimit + 1), NEW others \in SUBSET releaseTimers,
           SendPermitTermination(w, r, n, others)
    PROVE  /\ <<w, r>> \in reported' \/ OnItsWay(w, r)'
           /\ reported \subseteq reported' /\ others \subseteq releaseTimers'
           /\ \A v \in Workers : Elements(toPrimary[v]) \subseteq Elements(toPrimary'[v])
<1> USE ReleaseRetryLimitAssumption
<1>1. IpcTypeOK
    BY DEF TypeOK
<1>2. CASE WorkerSent(w, ReleaseMsg(r)) /\ releaseTimers' = others /\ UNCHANGED reported
  <2>1. \A v \in Workers : \A x :
            x \in Elements(toPrimary'[v])
                <=> x \in Elements(toPrimary[v]) \/ (v = w /\ x = ReleaseMsg(r))
      BY <1>1, <1>2, WorkerSentEffect, MessagesDiffer
  <2>2. ReleaseMsg(r)' = ReleaseMsg(r)
      BY DEF ReleaseMsg
  <2>3. OnItsWay(w, r)'
      BY <2>1, <2>2 DEF OnItsWay
  <2> QED BY <1>2, <2>1, <2>3
<1>3. CASE /\ n <= ReleaseRetryLimit /\ releaseTimers' = others \cup {<<w, r, n + 1>>}
           /\ UNCHANGED <<toPrimary, reported>>
  <2>1. n + 1 \in 0..(ReleaseRetryLimit + 1) /\ <<w, r, n + 1>> \in releaseTimers'
      BY <1>3
  <2>2. OnItsWay(w, r)'
      BY <2>1 DEF OnItsWay
  <2> QED BY <1>3, <2>2
<1>4. CASE /\ reported' = reported \cup {<<w, r>>} /\ releaseTimers' = others
           /\ UNCHANGED toPrimary
    BY <1>4
<1> QED BY <1>2, <1>3, <1>4 DEF SendPermitTermination

\* A GRANT that is sent is in the channel of a connected worker, or has failed.
LEMMA GrantLeavesTrace ==
    ASSUME TypeOK, NEW w \in Workers, NEW r \in RequestIds,
           NEW n \in 0..GrantRetryLimit, SendGrant(w, r, n), Connected(w)
    PROVE  r \in Elements(toWorker'[w]) \/ <<w, r, n>> \in failedSends'
<1>1. IpcTypeOK
    BY DEF TypeOK
<1>2. CASE GrantSent(w, r)
    BY <1>1, <1>2, GrantSentEffect
<1>3. CASE failedSends' = failedSends \cup {<<w, r, n>>}
    BY <1>3
<1> QED BY <1>2, <1>3 DEF SendGrant

\* What a GRANT adds, it adds to what is there.
LEMMA GrantKeeps ==
    ASSUME TypeOK, NEW w \in Workers, NEW r \in RequestIds,
           NEW n \in 0..GrantRetryLimit, SendGrant(w, r, n)
    PROVE  /\ failedSends \subseteq failedSends'
           /\ \A v \in Workers : Elements(toWorker[v]) \subseteq Elements(toWorker'[v])
<1>1. IpcTypeOK
    BY DEF TypeOK
<1> QED BY <1>1, GrantSentEffect DEF SendGrant

\* The steps of a worker keep every token accounted for.
LEMMA WorkerAccounts ==
    ASSUME IInv, WorkerNext, UNCHANGED primaryVars,
           NEW v \in Workers, NEW s \in RequestIds, Accounted(v, s)
    PROVE  Accounted(v, s)'
<1>1. /\ TypeOK /\ IpcTypeOK /\ WorkerTypeOK /\ Stage(v, s)
      /\ UNCHANGED <<leased, failedSends, retryTimers>>
      /\ ReleaseMsg(s)' = ReleaseMsg(s)
    BY DEF IInv, TypeOK, Stages, primaryVars, ReleaseMsg
<1>2. ASSUME NEW w \in Workers, AcquirePermit(w) PROVE Accounted(v, s)'
  <2> DEFINE r == lastId[w] + 1
  <2>1. /\ UNCHANGED <<proc, toWorker, releaseTimers, reported>>
        /\ r \in RequestIds /\ r > lastId[w]
      BY <1>1, <1>2, MaxCallsAssumption DEF AcquirePermit, WorkerTypeOK, RequestIds
  <2>2. Elements(toPrimary[v]) \subseteq Elements(toPrimary'[v])
    <3>1. CASE WorkerSent(w, AcquireMsg(r))
        BY <1>1, <2>1, <3>1, WorkerSentEffect, MessagesDiffer
    <3>2. CASE UNCHANGED toPrimary
        BY <3>2
    <3> QED BY <1>2, <3>1, <3>2 DEF AcquirePermit
  <2>3. <<v, s>> \in leased => ~(v = w /\ s = r)
      BY <1>1, <2>1 DEF IInv, FreshIds, Stage
  <2>4. <<v, s>> \in leased => call'[<<v, s>>] = call[<<v, s>>]
    <3>1. PICK c \in CallState : call' = [call EXCEPT ![<<w, r>>] = c]
        BY <1>2 DEF AcquirePermit, SetCall, CallState
    <3> QED BY <1>1, <2>3, <3>1 DEF WorkerTypeOK, Requests
  <2> QED BY <1>1, <2>1, <2>2, <2>4, ProcUnchanged DEF Accounted, OnItsWay
<1>3. ASSUME NEW w \in Workers, NEW r \in RequestIds, PermitTimeout(w, r) PROVE Accounted(v, s)'
  <2>1. /\ UNCHANGED <<proc, toWorker, toPrimary, releaseTimers, reported>>
        /\ call[<<w, r>>] = "waiting"
        /\ \A p \in Requests : p # <<w, r>> => call'[p] = call[p]
      BY <1>1, <1>3 DEF PermitTimeout, SetCall, ipcVars, WorkerTypeOK, Requests
  <2>2. call[<<v, s>>] = "running" => call'[<<v, s>>] = "running"
      BY <2>1 DEF Requests
  <2> QED BY <1>1, <2>1, <2>2, ProcUnchanged DEF Accounted, OnItsWay
<1>4. ASSUME NEW w \in Workers, NEW r \in RequestIds, NEW n \in 0..(ReleaseRetryLimit + 1),
             SendPermitTermination(w, r, n, releaseTimers) \/
                 SendPermitTermination(w, r, n, releaseTimers \ {<<w, r, n>>}),
             UNCHANGED proc,
             \A p \in Requests : p # <<w, r>> => call'[p] = call[p],
             \A u \in Workers, t \in RequestIds : t \in Elements(toWorker[u]) =>
                 t \in Elements(toWorker'[u]) \/ (u = w /\ t = r)
      PROVE  Accounted(v, s)'
  <2>1. PICK others \in SUBSET releaseTimers :
            /\ SendPermitTermination(w, r, n, others)
            /\ releaseTimers \subseteq others \cup {<<w, r, n>>}
      BY <1>4
  <2>2. /\ <<w, r>> \in reported' \/ OnItsWay(w, r)'
        /\ reported \subseteq reported' /\ others \subseteq releaseTimers'
        /\ Elements(toPrimary[v]) \subseteq Elements(toPrimary'[v])
      BY <1>1, <2>1, TerminationLeavesTrace
  <2>3. CASE v = w /\ s = r
      BY <2>2, <2>3 DEF Accounted
  <2>4. CASE ~(v = w /\ s = r)
    <3>1. call'[<<v, s>>] = call[<<v, s>>]
        BY <1>4, <2>4 DEF Requests
    <3>2. OnItsWay(v, s) => OnItsWay(v, s)'
        BY <1>1, <1>4, <2>1, <2>2, <2>4 DEF OnItsWay
    <3> QED BY <1>1, <1>4, <2>2, <3>1, <3>2, ProcUnchanged DEF Accounted
  <2> QED BY <2>3, <2>4
<1>5. ASSUME NEW w \in Workers, HandleGrant(w) PROVE Accounted(v, s)'
  <2>1. /\ toWorker[w] # <<>> /\ toWorker' = [toWorker EXCEPT ![w] = Tail(toWorker[w])]
        /\ toWorker[w] \in Seq(RequestIds) /\ UNCHANGED proc
      BY <1>1, <1>5 DEF HandleGrant, IpcTypeOK
  <2>2. PICK r \in RequestIds :
            r = Head(toWorker[w]) /\ Elements(toWorker[w]) = Elements(Tail(toWorker[w])) \cup {r}
      BY <2>1, ElementsTail
  <2>3. \A u \in Workers, t \in RequestIds : t \in Elements(toWorker[u]) =>
            t \in Elements(toWorker'[u]) \/ (u = w /\ t = r)
      BY <1>1, <2>1, <2>2 DEF IpcTypeOK
  <2>4. \A c : SetCall(w, r, c) =>
            /\ call'[<<w, r>>] = c
            /\ \A p \in Requests : p # <<w, r>> => call'[p] = call[p]
      BY <1>1, <2>2 DEF SetCall, WorkerTypeOK, Requests
  <2>5. CASE SetCall(w, r, "running") /\ UNCHANGED <<toPrimary, releaseTimers, reported>>
    <3>1. CASE v = w /\ s = r
        BY <2>4, <2>5, <3>1 DEF Accounted
    <3>2. CASE ~(v = w /\ s = r)
      <4>1. call'[<<v, s>>] = call[<<v, s>>]
          BY <2>4, <2>5, <3>2 DEF Requests
      <4>2. OnItsWay(v, s) => OnItsWay(v, s)'
          BY <1>1, <2>3, <2>5, <3>2 DEF OnItsWay
      <4> QED BY <1>1, <2>1, <2>5, <4>1, <4>2, ProcUnchanged DEF Accounted
    <3> QED BY <3>1, <3>2
  <2>6. CASE SetCall(w, r, "returned") /\ SendPermitTermination(w, r, 0, releaseTimers)
    <3>1. 0 \in 0..(ReleaseRetryLimit + 1)
        BY ReleaseRetryLimitAssumption
    <3> QED BY <1>4, <2>1, <2>3, <2>4, <2>6, <3>1
  <2> QED BY <1>5, <2>2, <2>5, <2>6 DEF HandleGrant, ReleasePermit
<1>6. ASSUME NEW w \in Workers, NEW r \in RequestIds, CallSettles(w, r) PROVE Accounted(v, s)'
  <2>1. /\ SendPermitTermination(w, r, 0, releaseTimers)
        /\ UNCHANGED proc /\ toWorker' = toWorker
        /\ \A p \in Requests : p # <<w, r>> => call'[p] = call[p]
      BY <1>1, <1>6 DEF CallSettles, ReleasePermit, SetCall, WorkerTypeOK, Requests
  <2>2. 0 \in 0..(ReleaseRetryLimit + 1)
      BY ReleaseRetryLimitAssumption
  <2>3. \A u \in Workers, t \in RequestIds : t \in Elements(toWorker[u]) =>
            t \in Elements(toWorker'[u]) \/ (u = w /\ t = r)
      BY <2>1
  <2> QED BY <1>4, <2>1, <2>2, <2>3
<1>7. ASSUME NEW t \in ReleaseAttempts, RetryRelease(t[1], t[2], t[3]) PROVE Accounted(v, s)'
  <2>1. PICK w \in Workers, r \in RequestIds, n \in 0..(ReleaseRetryLimit + 1) : RetryRelease(w, r, n)
      BY <1>7 DEF ReleaseAttempts
  <2>2. /\ SendPermitTermination(w, r, n, releaseTimers \ {<<w, r, n>>})
        /\ UNCHANGED proc /\ toWorker' = toWorker /\ call' = call
      BY <2>1 DEF RetryRelease
  <2> QED BY <1>4, <2>2
<1>8. ASSUME NEW w \in Workers, WorkerDies(w) \/ WorkerDisconnects(w) PROVE Accounted(v, s)'
  <2>1. /\ proc \in [Workers -> ProcState] /\ toWorker \in [Workers -> Seq(RequestIds)]
        /\ UNCHANGED <<toPrimary, call, reported>>
        /\ toWorker' = [toWorker EXCEPT ![w] = <<>>]
        /\ \A t \in releaseTimers : t[1] # w => t \in releaseTimers'
        /\ proc' = [proc EXCEPT ![w] = "exited"] \/ proc' = [proc EXCEPT ![w] = "disconnected"]
      BY <1>1, <1>8 DEF WorkerDies, WorkerDisconnects, ProcessExits, ChannelCloses, workerVars,
                        IpcTypeOK
  <2>2. CASE v = w
    <3>1. ~Connected(v)'
        BY <2>1, <2>2 DEF Connected
    <3> QED BY <3>1 DEF Accounted
  <2>3. CASE v # w
    <3>1. (Connected(v)' <=> Connected(v)) /\ toWorker'[v] = toWorker[v]
        BY <2>1, <2>3 DEF Connected
    <3>2. \A n : <<v, s, n>> \in releaseTimers => <<v, s, n>> \in releaseTimers'
        BY <2>1, <2>3
    <3>3. OnItsWay(v, s) => OnItsWay(v, s)'
        BY <1>1, <2>1, <3>1, <3>2 DEF OnItsWay
    <3> QED BY <1>1, <2>1, <3>1, <3>3 DEF Accounted
  <2> QED BY <2>2, <2>3
<1> QED BY <1>2, <1>3, <1>5, <1>6, <1>7, <1>8 DEF WorkerNext, Requests

\* The steps of the primary keep every token accounted for.
LEMMA PrimaryAccounts ==
    ASSUME IInv, PrimaryNext, UNCHANGED workerVars,
           NEW v \in Workers, NEW s \in RequestIds, Accounted(v, s)
    PROVE  Accounted(v, s)'
<1> USE GrantRetryLimitAssumption
<1>1. /\ TypeOK /\ IpcTypeOK /\ PrimaryTypeOK
      /\ UNCHANGED <<call, releaseTimers, reported>>
      /\ ReleaseMsg(s)' = ReleaseMsg(s)
    BY DEF IInv, TypeOK, workerVars, ReleaseMsg
<1>2. ASSUME <<v, s>> \in leased' => <<v, s>> \in leased,
             Connected(v)' => Connected(v),
             <<v, s>> \in leased' /\ OnItsWay(v, s) => OnItsWay(v, s)'
      PROVE  Accounted(v, s)'
    BY <1>1, <1>2 DEF Accounted
<1>3. ASSUME NEW w \in Workers, HandleWorkerExit(w)
      PROVE  \A r \in RequestIds : <<w, r>> \notin leased'
                 /\ (<<v, s>> \in leased' => <<v, s>> \in leased)
    BY <1>3 DEF HandleWorkerExit, LeasedBy
<1>4. ASSUME NEW w \in Workers, NEW r \in RequestIds, DecrementWorkerUsage(w, r)
      PROVE  <<w, r>> \notin leased' /\ (<<v, s>> \in leased' => <<v, s>> \in leased)
    BY <1>4 DEF DecrementWorkerUsage
<1>5. CASE GrantStep
  <2>1. PICK w \in Workers, r \in RequestIds : w = Head(queue)[1] /\ r = Head(queue)[2]
    <3>1. queue \in Seq(Requests) /\ queue # <<>>
        BY <1>1, <1>5 DEF GrantStep, IInv, Accounts, CanGrant, PrimaryTypeOK
    <3>2. Head(queue) \in Requests
        BY <3>1
    <3> QED BY <3>2 DEF Requests
  <2>2. UNCHANGED <<proc, toPrimary, retryTimers>>
      BY <1>5 DEF GrantStep
  <2>3. CASE UNCHANGED <<leased, failedSends, toWorker>>
      BY <1>1, <1>2, <2>2, <2>3, ProcUnchanged DEF OnItsWay
  <2>4. CASE IncrementWorkerUsage(w, r) /\ SendGrant(w, r, 0)
    <3>1. leased' = leased \cup {<<w, r>>} /\ 0 \in 0..GrantRetryLimit
        BY <2>4 DEF IncrementWorkerUsage
    <3>2. /\ failedSends \subseteq failedSends'
          /\ Elements(toWorker[v]) \subseteq Elements(toWorker'[v])
        BY <1>1, <2>1, <2>4, <3>1, GrantKeeps
    <3>3. OnItsWay(v, s) => OnItsWay(v, s)'
        BY <1>1, <2>2, <3>2 DEF OnItsWay
    <3>4. CASE <<v, s>> \in leased
        BY <1>2, <2>2, <3>3, <3>4, ProcUnchanged
    <3>5. CASE v = w /\ s = r
      <4>1. Connected(w) => OnItsWay(w, r)'
          BY <1>1, <2>1, <2>4, <3>1, GrantLeavesTrace DEF OnItsWay
      <4> QED BY <2>2, <3>5, <4>1, ProcUnchanged DEF Accounted
    <3>6. CASE <<v, s>> \notin leased'
        BY <3>6 DEF Accounted
    <3> QED BY <3>1, <3>4, <3>5, <3>6
  <2> QED BY <1>5, <2>1, <2>3, <2>4 DEF GrantStep
<1>6. ASSUME NEW w \in Workers, HandleHotMessage(w) PROVE Accounted(v, s)'
  <2> DEFINE m == Head(toPrimary[w])
  <2>1. /\ UNCHANGED <<proc, toWorker, failedSends, retryTimers>>
        /\ toPrimary[w] # <<>> /\ toPrimary' = [toPrimary EXCEPT ![w] = Tail(@)]
      BY <1>6 DEF HandleHotMessage
  <2>2. /\ m \in Message
        /\ \A x : x \in Elements(toPrimary[v])
               => x \in Elements(toPrimary'[v]) \/ (v = w /\ x = m)
      BY <1>1, <2>1, PrimaryReadsEffect
  <2>3. CASE m.op = "acquire" /\ UNCHANGED leased
    <3>1. m # ReleaseMsg(s)
        BY <2>3 DEF ReleaseMsg
    <3>2. OnItsWay(v, s) => OnItsWay(v, s)'
        BY <1>1, <2>1, <2>2, <3>1 DEF OnItsWay
    <3> QED BY <1>2, <2>1, <2>3, <3>2, ProcUnchanged
  <2>4. CASE DecrementWorkerUsage(w, m.req)
    <3>1. m.req \in RequestIds
        BY <2>2 DEF Message
    <3>2. /\ <<w, m.req>> \notin leased'
          /\ <<v, s>> \in leased' => <<v, s>> \in leased
        BY <1>4, <2>4, <3>1
    <3>3. <<v, s>> \in leased' => ~(v = w /\ m = ReleaseMsg(s))
        BY <3>2 DEF ReleaseMsg
    <3>4. <<v, s>> \in leased' /\ OnItsWay(v, s) => OnItsWay(v, s)'
        BY <1>1, <2>1, <2>2, <3>3 DEF OnItsWay
    <3> QED BY <1>2, <2>1, <3>2, <3>4, ProcUnchanged
  <2> QED BY <1>6, <2>3, <2>4 DEF HandleHotMessage
<1>7. ASSUME NEW w \in Workers, WorkerExits(w) PROVE Accounted(v, s)'
  <2>1. /\ UNCHANGED <<toWorker, toPrimary, failedSends, retryTimers>>
        /\ proc' = [proc EXCEPT ![w] = "reaped"] /\ HandleWorkerExit(w)
        /\ proc \in [Workers -> ProcState]
      BY <1>1, <1>7 DEF WorkerExits, ExitEvent, IpcTypeOK
  <2>2. Connected(v)' => Connected(v)
      BY <2>1 DEF Connected
  <2>3. OnItsWay(v, s) => OnItsWay(v, s)'
      BY <1>1, <2>1 DEF OnItsWay
  <2> QED BY <1>2, <1>3, <2>1, <2>2, <2>3
<1>8. ASSUME NEW w \in Workers, NEW r \in RequestIds, NEW n \in 0..GrantRetryLimit,
             SendFailed(w, r, n)
      PROVE  Accounted(v, s)'
  <2>1. /\ <<w, r, n>> \in failedSends /\ failedSends' = failedSends \ {<<w, r, n>>}
        /\ UNCHANGED <<proc, toWorker, toPrimary>> /\ retryTimers \subseteq retryTimers'
      BY <1>8 DEF SendFailed
  <2>2. ~(v = w /\ s = r) => (OnItsWay(v, s) => OnItsWay(v, s)')
      BY <1>1, <2>1 DEF OnItsWay
  <2>3. CASE HandleWorkerExit(w)
      BY <1>2, <1>3, <2>1, <2>2, <2>3, ProcUnchanged
  <2>4. CASE /\ n < GrantRetryLimit
             /\ retryTimers' = retryTimers \cup {<<w, r, n + 1>>} /\ UNCHANGED leased
    <3>1. n + 1 \in 0..GrantRetryLimit /\ <<w, r, n + 1>> \in retryTimers'
        BY <2>4
    <3>2. OnItsWay(w, r)'
        BY <3>1 DEF OnItsWay
    <3> QED BY <1>2, <2>1, <2>2, <2>4, <3>2, ProcUnchanged
  <2>5. CASE DecrementWorkerUsage(w, r)
      BY <1>2, <1>4, <2>1, <2>2, <2>5, ProcUnchanged
  <2> QED BY <1>8, <2>3, <2>4, <2>5 DEF SendFailed
<1>9. ASSUME NEW w \in Workers, NEW r \in RequestIds, NEW n \in 0..GrantRetryLimit,
             RetryGrant(w, r, n)
      PROVE  Accounted(v, s)'
  <2>1. /\ <<w, r, n>> \in retryTimers /\ retryTimers' = retryTimers \ {<<w, r, n>>}
        /\ UNCHANGED <<proc, toPrimary>>
      BY <1>9 DEF RetryGrant
  <2>2. CASE SendGrant(w, r, n) /\ UNCHANGED leased
    <3>1. /\ failedSends \subseteq failedSends'
          /\ Elements(toWorker[v]) \subseteq Elements(toWorker'[v])
        BY <1>1, <2>2, GrantKeeps
    <3>2. CASE v = w /\ s = r
      <4>1. Connected(w) => OnItsWay(w, r)'
          BY <1>1, <2>2, GrantLeavesTrace DEF OnItsWay
      <4> QED BY <2>1, <3>2, <4>1, ProcUnchanged DEF Accounted
    <3>3. CASE ~(v = w /\ s = r)
      <4>1. OnItsWay(v, s) => OnItsWay(v, s)'
          BY <1>1, <2>1, <3>1, <3>3 DEF OnItsWay
      <4> QED BY <1>2, <2>1, <2>2, <4>1, ProcUnchanged
    <3> QED BY <3>2, <3>3
  <2>3. CASE /\ HandleWorkerExit(w) \/ DecrementWorkerUsage(w, r)
             /\ UNCHANGED <<failedSends, toWorker>>
    <3>1. ~(v = w /\ s = r) => (OnItsWay(v, s) => OnItsWay(v, s)')
        BY <1>1, <2>1, <2>3 DEF OnItsWay
    <3> QED BY <1>2, <1>3, <1>4, <2>1, <2>3, <3>1, ProcUnchanged
  <2> QED BY <1>9, <2>2, <2>3 DEF RetryGrant
<1> QED BY <1>5, <1>6, <1>7, <1>8, <1>9 DEF PrimaryNext, Attempts

\* A token that was sent to a connected worker runs a call, comes back, or its
\* loss was reported: a late GRANT is handed back (BaseWorkerLimiter.js:330) and
\* a failed release is tried again (:240-267).
THEOREM NothingLeaksInSilence == Spec => []NoSilentLeak
<1>1. Init => NoSilentLeak
    BY DEF Init, PrimaryInit, NoSilentLeak
<1>2. ASSUME IInv, IInv', NoSilentLeak, [Next]_vars PROVE NoSilentLeak'
  <2>1. PrimaryTypeOK /\ PrimaryTypeOK'
      BY <1>2 DEF IInv, TypeOK
  <2>2. ASSUME NEW w \in Workers, NEW r \in RequestIds PROVE Accounted(w, r)'
    <3>1. Accounted(w, r)
        BY <1>2, <2>1, LeakByRequest
    <3>2. CASE UNCHANGED vars
        BY <3>1, <3>2 DEF vars, ipcVars, primaryVars, workerVars, Accounted, OnItsWay, Connected
    <3> QED BY <1>2, <3>1, <3>2, PrimaryAccounts, WorkerAccounts DEF Next
  <2>3. ASSUME NEW p \in leased', Connected(p[1])'
        PROVE  call'[p] = "running" \/ p \in reported' \/ OnItsWay(p[1], p[2])'
    <3>1. p[1] \in Workers /\ p[2] \in RequestIds /\ p = <<p[1], p[2]>>
        BY <2>1, <2>3 DEF PrimaryTypeOK, Requests
    <3> QED BY <2>2, <2>3, <3>1 DEF Accounted
  <2> QED BY <2>3 DEF NoSilentLeak
<1> QED BY Invariance, <1>1, <1>2, PTL DEF Spec
=============================================================================
