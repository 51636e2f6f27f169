---------------------------- MODULE HandshakeProofs ----------------------------
(***************************************************************************)
(* The verdict of the handshake, for any number of run() calls and any     *)
(* faults but a throwing process.send: the trackers always belong to the   *)
(* promise that ready() awaits, and as long as the handshake is open that  *)
(* promise is pending.  And, whatever the faults, how many attempts and    *)
(* messages there can be, and that only a match lets a call pass.          *)
(***************************************************************************)
EXTENDS Handshake, FiniteSetTheorems, TLAPS

Promises == {0} \cup Attempts

\* The verdict of the primary's announcement.
Verdict == IF sameMode THEN "resolved" ELSE "rejected"

Types ==
    /\ toPrimary \in Nat /\ toWorker \in Nat
    /\ sameMode \in BOOLEAN /\ complete \in BOOLEAN /\ registered \in BOOLEAN
    /\ created \in BOOLEAN /\ matched \in BOOLEAN
    /\ attempts \in Nat /\ current \in Promises
    /\ promise \in [Promises -> PromiseState]
    /\ caller \in [Callers -> CallerState]
    /\ awaits \in [Callers -> Promises]

\* The run() calls that have been through the catch of ready().
Retriers == {c \in Callers : caller[c] \in {"second", "acquiring", "failed"}}

\* An attempt is the constructor's or one of these calls'.
AttemptsCounted ==
    /\ attempts <= Cardinality(Retriers) + (IF created THEN 1 ELSE 0)
    /\ \A a \in Attempts : a > attempts => promise[a] = "none"

\* Nothing has happened to a limiter that does not exist yet.
NotBeforeCreation ==
    ~created => ~complete /\ trackers = {} /\ \A c \in Callers : caller[c] = "idle"

\* Only the attempt ready() awaits has its trackers set.
TrackersCurrent == trackers \subseteq {current} \ {0}

\* Before the verdict no promise has resolved, and the open one is pending.
OpenIsPending ==
    ~complete => /\ \A a \in Promises : promise[a] # "resolved"
                 /\ trackers # {} => promise[current] = "pending"

\* After it both routes exist, and the verdict stands.
VerdictFollows ==
    /\ toWorker > 0 \/ complete => published
    /\ complete => registered = sameMode /\ promise[current] = Verdict
    /\ \A a \in Promises : promise[a] = "resolved" => complete /\ sameMode
    /\ matched => complete /\ sameMode
    /\ \A c \in Callers : caller[c] = "acquiring" => complete /\ sameMode

HandshakeInv ==
    /\ Types /\ AttemptsCounted /\ NotBeforeCreation /\ TrackersCurrent
    /\ OpenIsPending /\ VerdictFollows

-----------------------------------------------------------------------------

\* The retrying calls are a finite set, no larger than Callers; one that
\* joins them makes them one more.
LEMMA RetriersBounded ==
    /\ IsFiniteSet(Retriers)
    /\ Cardinality(Retriers) \in Nat
    /\ Cardinality(Callers) \in Nat
    /\ Cardinality(Retriers) <= Cardinality(Callers)
<1>1. IsFiniteSet(Callers)
    BY CallersAssumption
<1>2. Retriers \subseteq Callers
    BY DEF Retriers
<1> QED BY <1>1, <1>2, FS_Subset, FS_CardinalityType

\* The attempts there can be are numbers.
LEMMA AttemptNumbers == Attempts \subseteq Nat \ {0}
BY RetriersBounded DEF Attempts

\* A call that goes on from the first await may take one attempt number.
LEMMA OneMoreRetrier ==
    ASSUME caller \in [Callers -> CallerState], NEW c \in Callers, caller[c] = "first",
           NEW state \in {"second", "acquiring", "failed"},
           caller' = [caller EXCEPT ![c] = state]
    PROVE  /\ Cardinality(Retriers') = Cardinality(Retriers) + 1
           /\ Cardinality(Retriers') <= Cardinality(Callers)
           /\ Cardinality(Retriers') \in Nat
<1>1. Retriers' = Retriers \cup {c} /\ c \notin Retriers
    BY DEF Retriers
<1>2. Cardinality(Retriers \cup {c}) = Cardinality(Retriers) + 1
    BY <1>1, RetriersBounded, FS_AddElement
<1>3. Retriers' \subseteq Callers
    BY DEF Retriers
<1>4. Cardinality(Retriers') <= Cardinality(Callers)
    BY <1>3, CallersAssumption, FS_Subset
<1> QED BY <1>1, <1>2, <1>4, RetriersBounded

\* A new attempt, made while the handshake is open and no trackers are set,
\* keeps the parts of the invariant that speak of attempts.
LEMMA StartAttemptKeeps ==
    ASSUME HandshakeInv, "sendThrow" \notin Faults, StartAttempt,
           ~complete, trackers = {}, attempts + 1 \in Attempts
    PROVE  /\ toPrimary' \in Nat
           /\ attempts' = attempts + 1 /\ current' \in Attempts
           /\ promise' \in [Promises -> PromiseState]
           /\ TrackersCurrent'
           /\ \A a \in Promises : promise'[a] # "resolved"
           /\ trackers' # {} => promise'[current'] = "pending"
           /\ \A a \in Attempts : a > attempts' => promise'[a] = "none"
<1> USE DEF HandshakeInv, Types
<1>1. attempts' = attempts + 1 /\ current' = attempts + 1
    BY DEF StartAttempt
<1>2. PICK state \in {"pending", "rejected"} :
          promise' = [promise EXCEPT ![attempts + 1] = state]
    BY DEF StartAttempt
<1>3. promise' \in [Promises -> PromiseState] /\ promise'[attempts + 1] = state
    BY <1>2 DEF Promises, PromiseState
<1>4. \A a \in Promises : promise'[a] # "resolved"
    BY <1>2 DEF OpenIsPending
<1>5. trackers' # {} =>
          /\ trackers' = {attempts + 1}
          /\ promise' = [promise EXCEPT ![attempts + 1] = "pending"]
    BY DEF StartAttempt
<1>6. trackers' # {} => promise'[current'] = "pending"
    BY <1>1, <1>5 DEF Promises
<1>7. TrackersCurrent'
    BY <1>1, <1>5, AttemptNumbers DEF TrackersCurrent
<1>8. \A a \in Attempts : a > attempts' => promise'[a] = "none"
    BY <1>1, <1>2, AttemptNumbers DEF AttemptsCounted, Promises
<1>9. toPrimary' \in Nat
    BY DEF StartAttempt
<1> QED BY <1>1, <1>3, <1>4, <1>6, <1>7, <1>8, <1>9

\* The steps of the primary change neither promises nor calls.
LEMMA PrimarySteps ==
    ASSUME HandshakeInv, Publish \/ HandleAcknowledge
    PROVE  HandshakeInv'
<1> USE DEF HandshakeInv, primaryVars, attemptVars, verdictVars, callerVars
<1>1. toWorker' \in Nat /\ toPrimary' \in Nat /\ (toWorker' > 0 => published')
    BY DEF Publish, HandleAcknowledge, SendHandshake, Types, VerdictFollows
<1>2. /\ UNCHANGED <<sameMode, attemptVars, verdictVars, callerVars, created, promise>>
      /\ published => published'
    BY DEF Publish, HandleAcknowledge
<1>3. Types'
    BY <1>1, <1>2 DEF Types
<1>4. AttemptsCounted' /\ NotBeforeCreation' /\ TrackersCurrent' /\ OpenIsPending'
    BY <1>2 DEF AttemptsCounted, Retriers, NotBeforeCreation, TrackersCurrent, OpenIsPending
<1>5. VerdictFollows'
    BY <1>1, <1>2 DEF VerdictFollows, Verdict
<1> QED BY <1>3, <1>4, <1>5

\* The constructor makes the first attempt.
LEMMA CreateStep ==
    ASSUME HandshakeInv, "sendThrow" \notin Faults, Create
    PROVE  HandshakeInv'
<1> USE DEF HandshakeInv
<1>1. /\ ~created /\ created' = TRUE /\ StartAttempt
      /\ UNCHANGED <<connected, toWorker, primaryVars, verdictVars, callerVars>>
    BY DEF Create
<1>2. ~complete /\ trackers = {}
    BY <1>1 DEF NotBeforeCreation
<1>3. attempts + 1 \in Attempts
    BY <1>1, RetriersBounded DEF AttemptsCounted, Attempts, Types
<1>4. /\ toPrimary' \in Nat
      /\ attempts' = attempts + 1 /\ current' \in Attempts
      /\ promise' \in [Promises -> PromiseState]
      /\ TrackersCurrent'
      /\ \A a \in Promises : promise'[a] # "resolved"
      /\ trackers' # {} => promise'[current'] = "pending"
      /\ \A a \in Attempts : a > attempts' => promise'[a] = "none"
    BY <1>1, <1>2, <1>3, StartAttemptKeeps
<1>5. Types'
    BY <1>1, <1>4 DEF Types, Promises, primaryVars, verdictVars, callerVars
<1>6. AttemptsCounted'
    BY <1>1, <1>4, RetriersBounded DEF AttemptsCounted, Retriers, Types, callerVars
<1>7. NotBeforeCreation' /\ OpenIsPending'
    BY <1>1, <1>2, <1>4 DEF NotBeforeCreation, OpenIsPending, verdictVars
<1>8. VerdictFollows'
    BY <1>1, <1>2, <1>4
       DEF VerdictFollows, primaryVars, verdictVars, callerVars
<1> QED BY <1>4, <1>5, <1>6, <1>7, <1>8

\* The announcement settles the promise ready() awaits.
LEMMA HandleColdMessageStep ==
    ASSUME HandshakeInv, HandleColdMessage
    PROVE  HandshakeInv'
<1> USE DEF HandshakeInv, primaryVars, callerVars
<1>1. /\ toWorker > 0 /\ toWorker' = toWorker - 1
      /\ UNCHANGED <<toPrimary, sameMode, published, attempts, trackers, matched,
                     caller, awaits, created>>
    BY DEF HandleColdMessage
<1>2. CASE ~created \/ complete
  <2>1. UNCHANGED <<complete, registered, current, promise>>
      BY <1>2 DEF HandleColdMessage
  <2>2. Types'
      BY <1>1, <2>1 DEF Types
  <2>3. AttemptsCounted' /\ NotBeforeCreation' /\ TrackersCurrent' /\ OpenIsPending'
      BY <1>1, <2>1
         DEF AttemptsCounted, Retriers, NotBeforeCreation, TrackersCurrent, OpenIsPending
  <2>4. VerdictFollows'
      BY <1>1, <2>1 DEF VerdictFollows, Verdict, Types
  <2> QED BY <2>2, <2>3, <2>4
<1>3. CASE created /\ ~complete
  <2>1. complete' = TRUE /\ registered' = sameMode
      BY <1>3 DEF HandleColdMessage
  <2>2. Verdict \in {"resolved", "rejected"} /\ Verdict' = Verdict
      BY <1>1 DEF Verdict
  <2>3. CASE trackers = {}
    <3>1. current' = 0 /\ promise' = [promise EXCEPT ![0] = Verdict]
        BY <1>3, <2>3 DEF HandleColdMessage, Verdict
    <3>2. Types'
        BY <1>1, <2>1, <2>2, <3>1 DEF Types, Promises, PromiseState
    <3>3. AttemptsCounted' /\ NotBeforeCreation' /\ TrackersCurrent' /\ OpenIsPending'
        BY <1>1, <1>3, <2>1, <2>3, <3>1, AttemptNumbers
           DEF AttemptsCounted, Retriers, NotBeforeCreation, TrackersCurrent, OpenIsPending,
               Types
    <3>4. VerdictFollows'
        BY <1>1, <1>3, <2>1, <2>2, <3>1
           DEF VerdictFollows, OpenIsPending, Types, Promises, Verdict
    <3> QED BY <3>2, <3>3, <3>4
  <2>4. CASE trackers # {}
    <3>1. trackers = {current} /\ current # 0 /\ promise[current] = "pending"
        BY <1>3, <2>4 DEF TrackersCurrent, OpenIsPending
    <3>2. /\ current' = current
          /\ promise' = [a \in DOMAIN promise |->
                            IF a \in trackers /\ promise[a] = "pending"
                            THEN Verdict ELSE promise[a]]
        BY <1>3, <2>4 DEF HandleColdMessage, Verdict
    <3>3. promise' = [promise EXCEPT ![current] = Verdict]
        BY <3>1, <3>2 DEF Types
    <3>4. Types'
        BY <1>1, <2>1, <2>2, <3>2, <3>3 DEF Types, Promises, PromiseState
    <3>5. \A a \in Attempts : a > attempts => a # current
        BY <3>1 DEF AttemptsCounted
    <3>6. \A a \in Attempts : a > attempts => promise'[a] = promise[a]
        BY <3>3, <3>5 DEF Types, Promises
    <3>8. AttemptsCounted'
        BY <1>1, <3>6 DEF AttemptsCounted, Retriers
    <3>9. NotBeforeCreation' /\ TrackersCurrent' /\ OpenIsPending'
        BY <1>1, <1>3, <2>1, <3>2 DEF NotBeforeCreation, TrackersCurrent, OpenIsPending
    <3>7. VerdictFollows'
        BY <1>1, <1>3, <2>1, <2>2, <3>2, <3>3
           DEF VerdictFollows, OpenIsPending, Types, Verdict
    <3> QED BY <3>4, <3>7, <3>8, <3>9
  <2> QED BY <2>3, <2>4
<1> QED BY <1>2, <1>3

\* A timer or an error callback rejects a pending promise and clears the
\* trackers; the verdict is not pending.
LEMMA AttemptEndsStep ==
    ASSUME HandshakeInv, NEW a \in Attempts, SendFailed(a) \/ Timeout(a)
    PROVE  HandshakeInv'
<1> USE DEF HandshakeInv, channelVars, primaryVars, verdictVars, callerVars
<1>1. /\ trackers' = {} /\ promise' = Rejected(a)
      /\ UNCHANGED <<toPrimary, toWorker, sameMode, published, attempts, current,
                     complete, registered, matched, caller, awaits, created>>
    BY DEF SendFailed, Timeout
<1>2. promise' \in [Promises -> PromiseState]
    BY <1>1 DEF Types, Rejected, PromiseState
<1>3. \A b \in Promises :
          /\ promise[b] # "pending" => promise'[b] = promise[b]
          /\ promise'[b] = "resolved" => promise[b] = "resolved"
    BY <1>1 DEF Rejected, Types
<1>4. Types'
    BY <1>1, <1>2 DEF Types
<1>5. AttemptsCounted' /\ NotBeforeCreation' /\ TrackersCurrent' /\ OpenIsPending'
    BY <1>1, <1>3
       DEF AttemptsCounted, Retriers, NotBeforeCreation, TrackersCurrent, OpenIsPending, Promises
<1>6. VerdictFollows'
    BY <1>1, <1>3 DEF VerdictFollows, Verdict, Types
<1> QED BY <1>4, <1>5, <1>6

\* A call waits, goes on or fails; only a resolved promise lets it go on.
LEMMA CallerSteps ==
    ASSUME HandshakeInv, NEW c \in Callers, Call(c) \/ Resume(c) \/ GiveUp(c)
    PROVE  HandshakeInv'
<1> USE DEF HandshakeInv, channelVars, primaryVars, attemptVars, verdictVars
<1>1. UNCHANGED <<toPrimary, toWorker, sameMode, published, attempts, current, trackers,
                  complete, registered, created, promise>>
    BY DEF Call, Resume, GiveUp
<1>2. /\ caller' \in [Callers -> CallerState] /\ awaits' \in [Callers -> Promises]
      /\ matched' \in BOOLEAN
    BY DEF Call, Resume, GiveUp, Types, CallerState
<1>3. Types'
    BY <1>1, <1>2 DEF Types
<1>4. Retriers \subseteq Retriers'
    BY DEF Call, Resume, GiveUp, Retriers, Types
<1>5. IsFiniteSet(Retriers')
    BY CallersAssumption, FS_Subset DEF Retriers
<1>6. Cardinality(Retriers) <= Cardinality(Retriers') /\ Cardinality(Retriers') \in Nat
    BY <1>4, <1>5, FS_Subset, FS_CardinalityType
<1>7. AttemptsCounted'
    BY <1>1, <1>6, RetriersBounded DEF AttemptsCounted, Types
<1>8. TrackersCurrent' /\ OpenIsPending'
    BY <1>1 DEF TrackersCurrent, OpenIsPending
<1>12. created
    BY DEF Call, Resume, GiveUp, Settled, NotBeforeCreation
<1>13. NotBeforeCreation'
    BY <1>1, <1>12 DEF NotBeforeCreation
<1>9. matched' => complete /\ sameMode
    BY DEF Call, Resume, GiveUp, Settled, VerdictFollows, Types, callerVars
<1>10. \A d \in Callers : caller'[d] = "acquiring" => complete /\ sameMode
    BY DEF Call, Resume, GiveUp, Settled, VerdictFollows, Types
<1>11. VerdictFollows'
    BY <1>1, <1>9, <1>10 DEF VerdictFollows, Verdict
<1> QED BY <1>3, <1>7, <1>8, <1>11, <1>13

\* A call retries: it joins an attempt or makes one.
LEMMA RetryStep ==
    ASSUME HandshakeInv, "sendThrow" \notin Faults, NEW c \in Callers, Retry(c)
    PROVE  HandshakeInv'
<1> USE DEF HandshakeInv
<1>1. /\ caller[c] = "first" /\ caller' = [caller EXCEPT ![c] = "second"]
      /\ awaits' = [awaits EXCEPT ![c] = current']
      /\ UNCHANGED <<toWorker, sameMode, published, complete, registered, matched, created>>
    BY DEF Retry, primaryVars, verdictVars
<1>2. /\ Cardinality(Retriers') = Cardinality(Retriers) + 1
      /\ Cardinality(Retriers') <= Cardinality(Callers)
      /\ Cardinality(Retriers') \in Nat
    BY <1>1, OneMoreRetrier DEF Types
<1>3. /\ caller' \in [Callers -> CallerState]
      /\ \A d \in Callers : caller'[d] = "acquiring" => caller[d] = "acquiring"
    BY <1>1 DEF Types, CallerState
<1>4. CASE complete \/ trackers # {}
  <2>1. UNCHANGED <<attempts, current, trackers, toPrimary, promise>>
      BY <1>4 DEF Retry, attemptVars
  <2>2. awaits' \in [Callers -> Promises]
      BY <1>1, <2>1 DEF Types
  <2>3. Types'
      BY <1>1, <1>3, <2>1, <2>2 DEF Types
  <2>4. AttemptsCounted'
      BY <1>1, <1>2, <2>1, RetriersBounded DEF AttemptsCounted, Types
  <2>5. NotBeforeCreation' /\ TrackersCurrent' /\ OpenIsPending'
      BY <1>1, <2>1 DEF NotBeforeCreation, TrackersCurrent, OpenIsPending
  <2>6. VerdictFollows'
      BY <1>1, <1>3, <2>1 DEF VerdictFollows, Verdict
  <2> QED BY <2>3, <2>4, <2>5, <2>6
<1>5. CASE ~complete /\ trackers = {}
  <2>1. StartAttempt
      BY <1>5 DEF Retry
  <2>2. attempts + 1 \in Attempts
      BY <1>2, RetriersBounded DEF AttemptsCounted, Attempts, Types
  <2>3. /\ toPrimary' \in Nat
        /\ attempts' = attempts + 1 /\ current' \in Attempts
        /\ promise' \in [Promises -> PromiseState]
        /\ TrackersCurrent'
        /\ \A a \in Promises : promise'[a] # "resolved"
        /\ trackers' # {} => promise'[current'] = "pending"
        /\ \A a \in Attempts : a > attempts' => promise'[a] = "none"
      BY <1>5, <2>1, <2>2, StartAttemptKeeps
  <2>4. awaits' \in [Callers -> Promises]
      BY <1>1, <2>3 DEF Types, Promises
  <2>5. Types'
      BY <1>1, <1>3, <2>3, <2>4 DEF Types, Promises
  <2>6. AttemptsCounted'
      BY <1>1, <1>2, <2>3, RetriersBounded DEF AttemptsCounted, Types
  <2>7. created
      BY <1>1 DEF NotBeforeCreation
  <2>8. NotBeforeCreation' /\ OpenIsPending'
      BY <1>1, <2>3, <2>7 DEF NotBeforeCreation, OpenIsPending
  <2>9. VerdictFollows'
      BY <1>1, <1>3, <1>5, <2>3 DEF VerdictFollows
  <2> QED BY <2>3, <2>5, <2>6, <2>8, <2>9
<1> QED BY <1>4, <1>5

\* What is on its way to the worker is lost.
LEMMA DisconnectStep ==
    ASSUME HandshakeInv, Disconnect
    PROVE  HandshakeInv'
<1> USE DEF HandshakeInv, primaryVars, attemptVars, verdictVars, callerVars
<1>1. /\ toWorker' = 0
      /\ UNCHANGED <<toPrimary, primaryVars, attemptVars, verdictVars, callerVars,
                     created, promise>>
    BY DEF Disconnect
<1>2. Types'
    BY <1>1 DEF Types
<1>3. AttemptsCounted' /\ NotBeforeCreation' /\ TrackersCurrent' /\ OpenIsPending'
    BY <1>1 DEF AttemptsCounted, Retriers, NotBeforeCreation, TrackersCurrent, OpenIsPending
<1>4. VerdictFollows'
    BY <1>1 DEF VerdictFollows, Verdict
<1> QED BY <1>2, <1>3, <1>4

\* The limiters start without attempts, trackers or calls.
LEMMA InitHandshakeInv == Init => HandshakeInv
<1> SUFFICES ASSUME Init PROVE HandshakeInv
    OBVIOUS
<1> USE DEF Init
<1>1. Types
    BY DEF Types, Promises, PromiseState, CallerState
<1>2. AttemptsCounted
    BY RetriersBounded DEF AttemptsCounted, Promises
<1>3. NotBeforeCreation /\ TrackersCurrent /\ OpenIsPending
    BY DEF NotBeforeCreation, TrackersCurrent, OpenIsPending, Promises
<1>4. VerdictFollows
    BY DEF VerdictFollows, Promises
<1> QED BY <1>1, <1>2, <1>3, <1>4 DEF HandshakeInv

\* Every step preserves the invariant unless process.send throws.
LEMMA NextHandshakeInv ==
    ASSUME "sendThrow" \notin Faults, HandshakeInv, [Next]_vars
    PROVE  HandshakeInv'
<1>1. CASE Publish \/ HandleAcknowledge
    BY <1>1, PrimarySteps
<1>2. CASE Create
    BY <1>2, CreateStep
<1>3. CASE HandleColdMessage
    BY <1>3, HandleColdMessageStep
<1>4. CASE Disconnect
    BY <1>4, DisconnectStep
<1>5. CASE \E a \in Attempts : SendFailed(a) \/ Timeout(a)
    BY <1>5, AttemptEndsStep
<1>6. ASSUME NEW c \in Callers, Call(c) \/ Resume(c) \/ Retry(c) \/ GiveUp(c)
      PROVE  HandshakeInv'
    BY <1>6, CallerSteps, RetryStep
<1>7. CASE UNCHANGED vars
    BY <1>7 DEF vars, channelVars, primaryVars, attemptVars, verdictVars, callerVars,
                HandshakeInv, Types, AttemptsCounted, Retriers, NotBeforeCreation,
                TrackersCurrent, OpenIsPending, VerdictFollows, Verdict
<1> QED BY <1>1, <1>2, <1>3, <1>4, <1>5, <1>6, <1>7 DEF Next

-----------------------------------------------------------------------------
(***************************************************************************)
(* How many attempts and messages there can be, whatever process.send does:*)
(* every message is an attempt's question, the answer to one, or the one   *)
(* announcement of the primary.                                            *)
(***************************************************************************)

FieldTypes ==
    /\ {sameMode, published, connected, created, complete, registered, matched} \subseteq BOOLEAN
    /\ toPrimary \in Nat /\ toWorker \in Nat /\ attempts \in Nat
    /\ current \in Promises
    /\ promise \in [Promises -> PromiseState]
    /\ trackers \subseteq Attempts /\ timers \subseteq Attempts /\ failing \subseteq Attempts
    /\ caller \in [Callers -> CallerState]
    /\ awaits \in [Callers -> Promises]

CountsInv ==
    /\ FieldTypes
    /\ created => attempts <= Cardinality(Retriers) + 1
    /\ ~created => attempts = 0 /\ \A c \in Callers : caller[c] = "idle"
    /\ toPrimary <= attempts
    /\ toPrimary + toWorker <= attempts + 1
    /\ ~published => toPrimary + toWorker <= attempts

\* There is one attempt more than there are calls.
LEMMA AttemptsThereAre == Cardinality(Attempts) = Cardinality(Callers) + 1
<1>1. PICK n \in Nat : n = Cardinality(Callers) + 1
    BY RetriersBounded
<1>2. Cardinality(1..n) = IF 1 > n THEN 0 ELSE n - 1 + 1
    BY FS_Interval
<1>3. n >= 1
    BY <1>1, RetriersBounded
<1> QED BY <1>1, <1>2, <1>3 DEF Attempts

\* An attempt takes the next number and sends at most one question.
LEMMA StartAttemptCounts ==
    ASSUME FieldTypes, StartAttempt, attempts + 1 \in Attempts
    PROVE  /\ attempts' = attempts + 1 /\ current' \in Promises
           /\ toPrimary' \in Nat /\ toPrimary' <= toPrimary + 1
           /\ promise' \in [Promises -> PromiseState]
           /\ trackers' \subseteq Attempts /\ timers' \subseteq Attempts /\ failing' \subseteq Attempts
<1>1. PICK a \in Attempts : a = attempts + 1
    OBVIOUS
<1>2. attempts' = a /\ current' = a /\ (toPrimary' = toPrimary \/ toPrimary' = toPrimary + 1)
    BY <1>1 DEF StartAttempt
<1>3. \/ promise' = [promise EXCEPT ![a] = "pending"]
      \/ promise' = [promise EXCEPT ![a] = "rejected"]
    BY <1>1 DEF StartAttempt
<1>4. promise' \in [Promises -> PromiseState]
    BY <1>3 DEF FieldTypes, Promises, PromiseState
<1>5. /\ trackers' = {a} \/ trackers' = trackers
      /\ timers' = timers \cup {a} \/ timers' = timers
      /\ failing' = failing \cup {a} \/ failing' = failing
    BY <1>1 DEF StartAttempt
<1>6. trackers' \subseteq Attempts /\ timers' \subseteq Attempts /\ failing' \subseteq Attempts
    BY <1>1, <1>5 DEF FieldTypes
<1>7. toPrimary' \in Nat /\ toPrimary' <= toPrimary + 1
    BY <1>2 DEF FieldTypes
<1> QED BY <1>1, <1>2, <1>4, <1>6, <1>7 DEF Promises

\* Messages p to the primary and w to the worker, before a step that makes the
\* attempts n into m and those messages into q and w.
LEMMA Asking ==
    ASSUME NEW p \in Nat, NEW q \in Nat, NEW w \in Nat, NEW n \in Nat, NEW m \in Nat,
           (m = n /\ q = p) \/ (m = n + 1 /\ q <= p + 1)
    PROVE  /\ p <= n => q <= m
           /\ p + w <= n => q + w <= m
           /\ p + w <= n + 1 => q + w <= m + 1
OBVIOUS

\* The same for a step that makes no attempt and no message more.
LEMMA Answering ==
    ASSUME NEW p \in Nat, NEW q \in Nat, NEW w \in Nat, NEW v \in Nat, NEW n \in Nat,
           q <= p, q + v <= p + w
    PROVE  /\ p <= n => q <= n
           /\ p + w <= n => q + v <= n
           /\ p + w <= n + 1 => q + v <= n + 1
OBVIOUS

\* The constructor's attempt is the first.
LEMMA CountsCreate ==
    ASSUME CountsInv, Create
    PROVE  CountsInv'
<1>1. /\ ~created /\ created' = TRUE /\ StartAttempt
      /\ UNCHANGED <<connected, toWorker, sameMode, published, complete, registered, matched, caller, awaits>>
    BY DEF Create, primaryVars, verdictVars, callerVars
<1>2. /\ attempts = 0 /\ toPrimary <= 0 /\ toPrimary + toWorker <= 1
      /\ ~published => toPrimary + toWorker <= 0
    BY <1>1 DEF CountsInv
<1>3. toPrimary \in Nat /\ toWorker \in Nat /\ Cardinality(Retriers) \in Nat
    BY RetriersBounded DEF CountsInv, FieldTypes
<1>4. attempts + 1 \in Attempts
    BY <1>2, RetriersBounded DEF Attempts
<1>5. /\ attempts' = attempts + 1 /\ current' \in Promises
      /\ toPrimary' \in Nat /\ toPrimary' <= toPrimary + 1
      /\ promise' \in [Promises -> PromiseState]
      /\ trackers' \subseteq Attempts /\ timers' \subseteq Attempts /\ failing' \subseteq Attempts
    BY <1>1, <1>4, StartAttemptCounts DEF CountsInv
<1>6. FieldTypes'
    BY <1>1, <1>5 DEF CountsInv, FieldTypes
<1>7. Retriers' = Retriers
    BY <1>1 DEF Retriers
<1>8. attempts' <= Cardinality(Retriers') + 1
    BY <1>2, <1>3, <1>5, <1>7
<1>9. /\ toPrimary' <= attempts' /\ toPrimary' + toWorker' <= attempts' + 1
      /\ ~published' => toPrimary' + toWorker' <= attempts'
  <2>1. toWorker' = toWorker /\ published' = published
      BY <1>1
  <2>2. /\ toPrimary \in Nat /\ toPrimary' \in Nat /\ toWorker \in Nat
        /\ attempts \in Nat /\ attempts' \in Nat
        /\ \/ attempts' = attempts /\ toPrimary' = toPrimary
           \/ attempts' = attempts + 1 /\ toPrimary' <= toPrimary + 1
      BY <1>2, <1>3, <1>5
  <2>3. /\ toPrimary <= attempts => toPrimary' <= attempts'
        /\ toPrimary + toWorker <= attempts => toPrimary' + toWorker <= attempts'
        /\ toPrimary + toWorker <= attempts + 1 => toPrimary' + toWorker <= attempts' + 1
      BY <2>2, Asking
  <2> QED BY <2>1, <2>3 DEF CountsInv
<1> QED BY <1>1, <1>6, <1>8, <1>9 DEF CountsInv

\* A call retries once, and makes at most one attempt then.
LEMMA CountsRetry ==
    ASSUME CountsInv, NEW c \in Callers, Retry(c)
    PROVE  CountsInv'
<1>1. /\ caller[c] = "first" /\ caller' = [caller EXCEPT ![c] = "second"]
      /\ awaits' = [awaits EXCEPT ![c] = current']
      /\ UNCHANGED <<connected, toWorker, sameMode, published, complete, registered, matched, created>>
    BY DEF Retry, primaryVars, verdictVars
<1>2. created
    BY <1>1 DEF CountsInv
<1>3. /\ Cardinality(Retriers') = Cardinality(Retriers) + 1
      /\ Cardinality(Retriers') <= Cardinality(Callers) /\ Cardinality(Retriers') \in Nat
  <2>1. caller \in [Callers -> CallerState]
      BY DEF CountsInv, FieldTypes
  <2> QED BY <1>1, <2>1, OneMoreRetrier
<1>4. /\ attempts \in Nat /\ attempts <= Cardinality(Retriers) + 1
      /\ Cardinality(Retriers) \in Nat /\ Cardinality(Callers) \in Nat
    BY <1>2, RetriersBounded DEF CountsInv, FieldTypes
<1>5. /\ current' \in Promises
      /\ toPrimary' \in Nat
      /\ \/ attempts' = attempts /\ toPrimary' = toPrimary
         \/ attempts' = attempts + 1 /\ toPrimary' <= toPrimary + 1
      /\ promise' \in [Promises -> PromiseState]
      /\ trackers' \subseteq Attempts /\ timers' \subseteq Attempts /\ failing' \subseteq Attempts
  <2>1. CASE StartAttempt
    <3>1. attempts + 1 \in Attempts
        BY <1>3, <1>4 DEF Attempts
    <3>2. FieldTypes
        BY DEF CountsInv
    <3>3. /\ attempts' = attempts + 1 /\ current' \in Promises
          /\ toPrimary' \in Nat /\ toPrimary' <= toPrimary + 1
          /\ promise' \in [Promises -> PromiseState]
          /\ trackers' \subseteq Attempts /\ timers' \subseteq Attempts /\ failing' \subseteq Attempts
        BY <2>1, <3>1, <3>2, StartAttemptCounts
    <3> QED BY <1>4, <3>3
  <2>2. CASE UNCHANGED <<attemptVars, toPrimary, promise>>
      BY <2>2 DEF attemptVars, CountsInv, FieldTypes
  <2> QED BY <2>1, <2>2 DEF Retry
<1>6. FieldTypes'
  <2>1. caller' \in [Callers -> CallerState] /\ awaits' \in [Callers -> Promises]
      BY <1>1, <1>5 DEF CountsInv, FieldTypes, CallerState
  <2>2. attempts' \in Nat
      BY <1>4, <1>5
  <2> QED BY <1>1, <1>5, <2>1, <2>2 DEF CountsInv, FieldTypes
<1>7. attempts' <= Cardinality(Retriers') + 1
    BY <1>3, <1>4, <1>5
<1>8. /\ toPrimary' <= attempts' /\ toPrimary' + toWorker' <= attempts' + 1
      /\ ~published' => toPrimary' + toWorker' <= attempts'
  <2>1. toWorker' = toWorker /\ published' = published
      BY <1>1
  <2>2. /\ toPrimary \in Nat /\ toPrimary' \in Nat /\ toWorker \in Nat
        /\ attempts \in Nat /\ attempts' \in Nat
      BY <1>4, <1>5 DEF CountsInv, FieldTypes
  <2>3. /\ toPrimary <= attempts => toPrimary' <= attempts'
        /\ toPrimary + toWorker <= attempts => toPrimary' + toWorker <= attempts'
        /\ toPrimary + toWorker <= attempts + 1 => toPrimary' + toWorker <= attempts' + 1
      BY <1>5, <2>2, Asking
  <2> QED BY <2>1, <2>3 DEF CountsInv
<1> QED BY <1>1, <1>2, <1>6, <1>7, <1>8 DEF CountsInv

\* Nobody but the primary, once, sends without being asked.
LEMMA CountsChannels ==
    ASSUME CountsInv, Publish \/ HandleAcknowledge \/ HandleColdMessage \/ Disconnect
    PROVE  CountsInv'
<1> USE DEF CountsInv, FieldTypes, primaryVars, attemptVars, verdictVars, callerVars
<1>1. UNCHANGED <<sameMode, created, attempts, trackers, failing, matched, caller, awaits>>
    BY DEF Publish, HandleAcknowledge, HandleColdMessage, Disconnect
<1>2. Retriers' = Retriers
    BY <1>1 DEF Retriers
<1>7. /\ toPrimary \in Nat /\ toWorker \in Nat /\ attempts \in Nat
      /\ toPrimary <= attempts /\ toPrimary + toWorker <= attempts + 1
    OBVIOUS
<1>3. /\ {published', connected'} \subseteq BOOLEAN
      /\ toPrimary' \in Nat /\ toWorker' \in Nat
      /\ toPrimary' <= attempts /\ toPrimary' + toWorker' <= attempts + 1
      /\ ~published' => toPrimary' + toWorker' <= attempts
  <2>1. CASE Publish
    <3>1. /\ ~published /\ published' = TRUE /\ UNCHANGED <<toPrimary, connected>>
          /\ toWorker' = toWorker + 1 \/ toWorker' = toWorker
        BY <2>1 DEF Publish, SendHandshake
    <3>2. toPrimary + toWorker <= attempts
        BY <3>1
    <3>3. /\ toPrimary' \in Nat /\ toWorker' \in Nat
          /\ toPrimary' <= attempts /\ toPrimary' + toWorker' <= attempts + 1
        BY ONLY <1>7, <3>1, <3>2
    <3>4. {published', connected'} \subseteq BOOLEAN
        BY <3>1
    <3> QED BY <3>1, <3>3, <3>4
  <2>2. CASE ~Publish
    <3>1. /\ UNCHANGED published /\ connected' \in BOOLEAN
          /\ toPrimary' \in Nat /\ toWorker' \in Nat
          /\ toPrimary' <= toPrimary /\ toPrimary' + toWorker' <= toPrimary + toWorker
      <4>1. CASE HandleAcknowledge
        <5>1. /\ toPrimary > 0 /\ toPrimary' = toPrimary - 1 /\ UNCHANGED <<published, connected>>
              /\ toWorker' = toWorker + 1 \/ toWorker' = toWorker
            BY <4>1 DEF HandleAcknowledge, SendHandshake
        <5>2. /\ toPrimary' \in Nat /\ toWorker' \in Nat
              /\ toPrimary' <= toPrimary /\ toPrimary' + toWorker' <= toPrimary + toWorker
            BY ONLY <1>7, <5>1
        <5> QED BY <5>1, <5>2
      <4>2. CASE HandleColdMessage
        <5>1. toWorker > 0 /\ toWorker' = toWorker - 1 /\ UNCHANGED <<toPrimary, published, connected>>
            BY <4>2 DEF HandleColdMessage
        <5>2. /\ toPrimary' \in Nat /\ toWorker' \in Nat
              /\ toPrimary' <= toPrimary /\ toPrimary' + toWorker' <= toPrimary + toWorker
            BY ONLY <1>7, <5>1
        <5> QED BY <5>1, <5>2
      <4>3. CASE Disconnect
        <5>1. connected' = FALSE /\ toWorker' = 0 /\ UNCHANGED <<toPrimary, published>>
            BY <4>3 DEF Disconnect
        <5>2. /\ toPrimary' \in Nat /\ toWorker' \in Nat
              /\ toPrimary' <= toPrimary /\ toPrimary' + toWorker' <= toPrimary + toWorker
            BY ONLY <1>7, <5>1
        <5> QED BY <5>1, <5>2
      <4> QED BY <2>2, <4>1, <4>2, <4>3
    <3>2. /\ toPrimary <= attempts => toPrimary' <= attempts
          /\ toPrimary + toWorker <= attempts => toPrimary' + toWorker' <= attempts
          /\ toPrimary + toWorker <= attempts + 1 => toPrimary' + toWorker' <= attempts + 1
        BY ONLY <1>7, <3>1, Answering
    <3>3. /\ toPrimary' <= attempts /\ toPrimary' + toWorker' <= attempts + 1
          /\ ~published => toPrimary' + toWorker' <= attempts
        BY <3>2
    <3>4. {published', connected'} \subseteq BOOLEAN
        BY <3>1
    <3> QED BY <3>1, <3>3, <3>4
  <2> QED BY <2>1, <2>2
<1>4. /\ {complete', registered'} \subseteq BOOLEAN /\ current' \in Promises /\ timers' \subseteq Attempts
      /\ promise' \in [Promises -> PromiseState]
  <2>1. CASE Publish \/ HandleAcknowledge \/ Disconnect
      BY <2>1 DEF Publish, HandleAcknowledge, Disconnect
  <2>2. CASE HandleColdMessage
    <3>1. {complete', registered'} \subseteq BOOLEAN /\ current' \in Promises /\ timers' \subseteq Attempts
        BY <2>2 DEF HandleColdMessage, Promises
    <3>2. PICK verdict \in {"resolved", "rejected"} :
              \/ promise' = [promise EXCEPT ![0] = verdict]
              \/ promise' = [a \in DOMAIN promise |->
                                IF a \in trackers /\ promise[a] = "pending" THEN verdict ELSE promise[a]]
              \/ UNCHANGED promise
        BY <2>2 DEF HandleColdMessage
    <3>3. promise' \in [Promises -> PromiseState]
        BY <3>2 DEF Promises, PromiseState
    <3> QED BY <3>1, <3>3
  <2> QED BY <2>1, <2>2
<1>5. FieldTypes'
    BY <1>1, <1>3, <1>4
<1>6. /\ created' => attempts' <= Cardinality(Retriers') + 1
      /\ ~created' => attempts' = 0 /\ \A c \in Callers : caller'[c] = "idle"
    BY <1>1, <1>2
<1> HIDE DEF FieldTypes
<1> QED BY <1>1, <1>3, <1>5, <1>6

\* Timers, error callbacks and calls send nothing.
LEMMA CountsOthers ==
    ASSUME CountsInv,
           \/ \E a \in Attempts : SendFailed(a) \/ Timeout(a)
           \/ \E c \in Callers : Call(c) \/ Resume(c) \/ GiveUp(c)
    PROVE  CountsInv'
<1> USE DEF CountsInv, FieldTypes, channelVars, primaryVars, attemptVars, verdictVars, callerVars
<1>1. ASSUME NEW a \in Attempts, SendFailed(a) \/ Timeout(a) PROVE CountsInv'
  <2>1. /\ UNCHANGED <<channelVars, primaryVars, attempts, current, verdictVars, callerVars, created>>
        /\ trackers' = {} /\ timers' \subseteq timers /\ failing' \subseteq failing /\ promise' = Rejected(a)
      BY <1>1 DEF SendFailed, Timeout
  <2>2. promise' \in [Promises -> PromiseState]
      BY <2>1 DEF Rejected, PromiseState
  <2>3. Retriers' = Retriers
      BY <2>1 DEF Retriers
  <2> QED BY <2>1, <2>2, <2>3
<1>2. ASSUME NEW c \in Callers, Call(c) \/ Resume(c) \/ GiveUp(c) PROVE CountsInv'
  <2>1. /\ UNCHANGED <<channelVars, primaryVars, attemptVars, verdictVars, created, promise>>
        /\ matched' \in BOOLEAN
    <3>1. matched' = matched \/ matched' = TRUE
        BY <1>2 DEF Call, Resume, GiveUp
    <3> QED BY <1>2, <3>1 DEF Call, Resume, GiveUp
  <2>6. caller' \in [Callers -> CallerState] /\ awaits' \in [Callers -> Promises]
      BY <1>2 DEF Call, Resume, GiveUp, CallerState
  <2>2. Retriers \subseteq Retriers'
      BY <1>2 DEF Call, Resume, GiveUp, Retriers
  <2>3. IsFiniteSet(Retriers') /\ IsFiniteSet(Retriers)
      BY CallersAssumption, FS_Subset DEF Retriers
  <2>4. /\ Cardinality(Retriers) <= Cardinality(Retriers')
        /\ Cardinality(Retriers') \in Nat /\ Cardinality(Retriers) \in Nat
      BY <2>2, <2>3, FS_Subset, FS_CardinalityType
  <2>5. created
      BY <1>2 DEF Call, Resume, GiveUp, Settled
  <2> QED BY <2>1, <2>4, <2>5, <2>6
<1> QED BY <1>1, <1>2

\* The counts hold at the start and after every step.
LEMMA CountsKept == (Init => CountsInv) /\ (CountsInv /\ [Next]_vars => CountsInv')
<1>1. ASSUME Init PROVE CountsInv
  <2>1. FieldTypes
      BY <1>1 DEF Init, FieldTypes, Promises, PromiseState, CallerState
  <2> QED BY <1>1, <2>1, RetriersBounded DEF Init, CountsInv
<1>2. ASSUME CountsInv, UNCHANGED vars PROVE CountsInv'
    BY <1>2 DEF vars, channelVars, primaryVars, attemptVars, verdictVars, callerVars,
                CountsInv, FieldTypes, Retriers
<1> QED BY <1>1, <1>2, CountsCreate, CountsRetry, CountsChannels, CountsOthers DEF Next

-----------------------------------------------------------------------------
(***************************************************************************)
(* Who goes on to the hot path, whatever process.send does: a promise      *)
(* resolves only by an announcement of the same mode, which registers the  *)
(* worker's route.  That of an attempt whose send threw may be lost, and   *)
(* with it the verdict, but nobody goes on without one.                    *)
(***************************************************************************)

MatchInv ==
    /\ toWorker > 0 \/ complete => published
    /\ complete => (registered <=> sameMode)
    /\ \A a \in Promises : promise[a] = "resolved" => complete /\ sameMode
    /\ matched => complete /\ sameMode
    /\ \A c \in Callers : caller[c] = "acquiring" => complete /\ sameMode

\* The primary announces nothing before it has published.
LEMMA MatchPrimary ==
    ASSUME CountsInv, MatchInv, Publish \/ HandleAcknowledge \/ Disconnect
    PROVE  MatchInv'
<1>1. UNCHANGED <<sameMode, verdictVars, callerVars, promise>> /\ (published => published')
    BY DEF Publish, HandleAcknowledge, Disconnect, primaryVars
<1>2. toWorker' > 0 => published'
    BY DEF CountsInv, FieldTypes, MatchInv, Publish, HandleAcknowledge, Disconnect, SendHandshake,
           primaryVars
<1> QED BY <1>1, <1>2 DEF MatchInv, verdictVars, callerVars

\* No attempt makes a promise that has resolved.
LEMMA MatchAttempt ==
    ASSUME CountsInv, MatchInv, StartAttempt, attempts + 1 \in Attempts
    PROVE  \A a \in Promises : promise'[a] = "resolved" => promise[a] = "resolved"
<1>1. PICK state \in {"pending", "rejected"} : promise' = [promise EXCEPT ![attempts + 1] = state]
    BY DEF StartAttempt
<1> QED BY <1>1 DEF CountsInv, FieldTypes, Promises

\* The constructor and a retry make attempts; neither lets a call go on.
LEMMA MatchAttempts ==
    ASSUME CountsInv, MatchInv, Create \/ \E c \in Callers : Retry(c)
    PROVE  MatchInv'
<1>1. UNCHANGED <<toWorker, primaryVars, verdictVars, matched>>
    BY DEF Create, Retry, callerVars
<1>2. \A d \in Callers : caller'[d] = "acquiring" => caller[d] = "acquiring"
    BY DEF CountsInv, FieldTypes, Create, Retry, callerVars
<1>3. \A a \in Promises : promise'[a] = "resolved" => promise[a] = "resolved"
  <2>1. CASE UNCHANGED promise
      BY <2>1
  <2>2. CASE Create
    <3>1. StartAttempt /\ ~created
        BY <2>2 DEF Create
    <3>2. attempts + 1 \in Attempts
        BY <3>1, RetriersBounded DEF CountsInv, Attempts
    <3> QED BY <3>1, <3>2, MatchAttempt
  <2>3. ASSUME NEW c \in Callers, Retry(c), StartAttempt
        PROVE  \A a \in Promises : promise'[a] = "resolved" => promise[a] = "resolved"
    <3>1. caller[c] = "first" /\ caller' = [caller EXCEPT ![c] = "second"]
        BY <2>3 DEF Retry
    <3>2. caller \in [Callers -> CallerState]
        BY DEF CountsInv, FieldTypes
    <3>3. /\ Cardinality(Retriers') = Cardinality(Retriers) + 1
          /\ Cardinality(Retriers') <= Cardinality(Callers)
        BY <3>1, <3>2, OneMoreRetrier
    <3>4. attempts \in Nat /\ attempts <= Cardinality(Retriers) + 1
        BY <3>1 DEF CountsInv, FieldTypes
    <3>5. attempts + 1 \in Attempts
        BY <3>3, <3>4, RetriersBounded DEF Attempts
    <3> QED BY <2>3, <3>5, MatchAttempt
  <2> QED BY <2>1, <2>2, <2>3 DEF Retry
<1> QED BY <1>1, <1>2, <1>3 DEF MatchInv, primaryVars, verdictVars

\* The announcement resolves a promise only if the modes match, and then it
\* registers the route.
LEMMA MatchAnnouncement ==
    ASSUME CountsInv, MatchInv, HandleColdMessage
    PROVE  MatchInv'
<1>1. /\ toWorker > 0 /\ UNCHANGED <<sameMode, published, matched, caller>>
    BY DEF HandleColdMessage, primaryVars, callerVars
<1>2. published'
    BY <1>1 DEF MatchInv
<1>3. CASE ~created \/ complete
    BY <1>1, <1>2, <1>3 DEF HandleColdMessage, MatchInv
<1>4. CASE created /\ ~complete
  <2>1. complete' = TRUE /\ registered' = sameMode
      BY <1>4 DEF HandleColdMessage
  <2>2. \A a \in Promises : promise'[a] = "resolved" => sameMode
    <3>1. \A a \in Promises : promise[a] # "resolved"
        BY <1>4 DEF MatchInv
    <3>2. PICK verdict : verdict = IF sameMode THEN "resolved" ELSE "rejected"
        OBVIOUS
    <3>3. \/ promise' = [promise EXCEPT ![0] = verdict]
          \/ promise' = [a \in DOMAIN promise |->
                            IF a \in trackers /\ promise[a] = "pending" THEN verdict ELSE promise[a]]
        BY <1>4, <3>2 DEF HandleColdMessage
    <3>4. \A a \in Promises : promise'[a] = verdict \/ promise'[a] = promise[a]
        BY <3>3 DEF CountsInv, FieldTypes
    <3> QED BY <3>1, <3>2, <3>4
  <2> QED BY <1>1, <1>2, <1>4, <2>1, <2>2 DEF MatchInv
<1> QED BY <1>3, <1>4

\* Timers and error callbacks resolve nothing.
LEMMA MatchAttemptEnds ==
    ASSUME CountsInv, MatchInv, NEW a \in Attempts, SendFailed(a) \/ Timeout(a)
    PROVE  MatchInv'
<1>1. promise' = Rejected(a) /\ UNCHANGED <<channelVars, primaryVars, verdictVars, callerVars>>
    BY DEF SendFailed, Timeout
<1>2. \A b \in Promises : promise'[b] = "resolved" => promise[b] = "resolved"
    BY <1>1 DEF Rejected, CountsInv, FieldTypes
<1> QED BY <1>1, <1>2 DEF MatchInv, channelVars, primaryVars, verdictVars, callerVars

\* A call goes on when the promise it awaits has resolved, or when one has before.
LEMMA MatchCalls ==
    ASSUME CountsInv, MatchInv, NEW c \in Callers, Call(c) \/ Resume(c) \/ GiveUp(c)
    PROVE  MatchInv'
<1>1. UNCHANGED <<channelVars, primaryVars, verdictVars, promise>>
    BY DEF Call, Resume, GiveUp
<1>2. caller \in [Callers -> CallerState] /\ awaits \in [Callers -> Promises]
    BY DEF CountsInv, FieldTypes
<1>3. CASE Call(c) \/ GiveUp(c)
  <2>1. matched' = matched /\ \A d \in Callers : caller'[d] = "acquiring" => caller[d] = "acquiring" \/ matched
      BY <1>2, <1>3 DEF Call, GiveUp
  <2> QED BY <1>1, <2>1 DEF MatchInv, channelVars, primaryVars, verdictVars
<1>4. CASE Resume(c)
  <2>1. complete /\ sameMode
      BY <1>2, <1>4 DEF Resume, MatchInv
  <2> QED BY <1>1, <2>1 DEF MatchInv, channelVars, primaryVars, verdictVars
<1> QED BY <1>3, <1>4

\* Nobody goes on at the start, and every step keeps it so.
LEMMA MatchKept == (Init => MatchInv) /\ (CountsInv /\ MatchInv /\ [Next]_vars => MatchInv')
<1>1. ASSUME Init PROVE MatchInv
    BY <1>1 DEF Init, MatchInv, Promises
<1>2. ASSUME MatchInv, UNCHANGED vars PROVE MatchInv'
    BY <1>2 DEF vars, channelVars, primaryVars, verdictVars, callerVars, MatchInv
<1> QED BY <1>1, <1>2, MatchPrimary, MatchAttempts, MatchAnnouncement, MatchAttemptEnds, MatchCalls
        DEF Next

-----------------------------------------------------------------------------

\* The invariant holds for any number of calls and any faults but the one.
THEOREM HandshakeInvariance ==
    ASSUME "sendThrow" \notin Faults
    PROVE  Spec => []HandshakeInv
<1>1. HandshakeInv /\ [Next]_vars => HandshakeInv'
    BY NextHandshakeInv
<1> QED BY <1>1, InitHandshakeInv, PTL DEF Spec

\* BaseWorkerLimiter.js:149-154: once the announcement has been handled, the
\* promise every later ready() awaits carries the primary's verdict.
THEOREM VerdictIsKept ==
    ASSUME "sendThrow" \notin Faults
    PROVE  Spec => []VerdictStands
<1>1. HandshakeInv => VerdictStands
    BY DEF HandshakeInv, VerdictFollows, Verdict, VerdictStands
<1> QED BY <1>1, HandshakeInvariance, PTL

\* BaseWorkerLimiter.js:186-190: only a run() whose modes match goes on to the
\* hot path, and both its routes are registered, under every fault: a throwing
\* process.send may keep a run() from going on, but lets none pass.
THEOREM OnlyMatchesPass == Spec => []HotPathIsOpen
<1>1. MatchInv => HotPathIsOpen
    BY DEF MatchInv, HotPathIsOpen
<1> QED BY CountsKept, MatchKept, <1>1, PTL DEF Spec

\* Every variable keeps its type, and attempts and messages stay few, even when
\* process.send throws: the constructor makes an attempt and each run() at most
\* one, and each attempt is worth one question and one answer
\* (BaseWorkerLimiter.js:127 and :186-190, BasePrimaryLimiter.js:225).
THEOREM TypeCorrect == Spec => []TypeOK
<1>1. CountsInv => TypeOK
  <2> SUFFICES ASSUME CountsInv PROVE TypeOK
      OBVIOUS
  <2>1. PICK n \in Nat : n = Cardinality(Callers)
      BY RetriersBounded
  <2>2. Attempts = 1..(n + 1) /\ Cardinality(Attempts) = n + 1
      BY <2>1, AttemptsThereAre DEF Attempts
  <2>3. attempts \in Nat /\ attempts <= n + 1
      BY <2>1, RetriersBounded DEF CountsInv, FieldTypes
  <2>4. attempts \in {0} \cup Attempts
      BY <2>2, <2>3
  <2>5. toPrimary \in 0..(n + 1) /\ toWorker \in 0..(n + 2)
    <3>1. /\ toPrimary \in Nat /\ toWorker \in Nat
          /\ toPrimary <= attempts /\ toPrimary + toWorker <= attempts + 1
        BY DEF CountsInv, FieldTypes
    <3> QED BY <2>3, <3>1
  <2> QED BY <2>2, <2>4, <2>5 DEF CountsInv, FieldTypes, Promises, TypeOK
<1> QED BY CountsKept, <1>1, PTL DEF Spec

=============================================================================
