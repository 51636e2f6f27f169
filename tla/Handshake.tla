------------------------------ MODULE Handshake ------------------------------
(***************************************************************************)
(* The cold path between one worker's limiter (BaseWorkerLimiter.js) and   *)
(* the primary's (BasePrimaryLimiter.js), through the provider-id maps of  *)
(* the registries: the primary publishes its limiter and announces it to   *)
(* the workers it has, the worker asks for the announcement when its       *)
(* limiter is constructed, and run() awaits the answer.                    *)
(*                                                                         *)
(* Every attempt to ask makes a promise; promise 0 is the one a handshake  *)
(* message makes when no attempt is open.  The worker is one thread:       *)
(* microtasks run before its next timer does.                              *)
(***************************************************************************)
EXTENDS Naturals, FiniteSets

CONSTANTS
    Callers,   \* run() calls of this worker's limiter
    Faults     \* the faults this instance may suffer

ASSUME CallersAssumption == IsFiniteSet(Callers)
ASSUME FaultsAssumption ==
    Faults \subseteq
        { "sendError",    \* the worker's process.send reports an error
          "lateError",    \* it reports it after the attempt's 2000 ms
          "sendThrow",    \* the worker's process.send throws
          "replyError",   \* the primary's worker.send fails either way
          "disconnect" }  \* the channel closes

\* The constructor's attempt, and at most one by each ready().
Attempts == 1..(Cardinality(Callers) + 1)

VARIABLES
    sameMode,     \* whether the two limiters were created in one mode
    published,    \* the primary's limiter is in the registries
    connected,    \* process.send exists
    toPrimary,    \* acknowledgePrimary messages on their way
    toWorker,     \* handshake messages on their way
    created,      \* the worker's limiter is in its registry
    attempts,     \* attempts made
    current,      \* primaryAcknowledgementPromise
    promise,      \* promise[a]: the state of a promise
    trackers,     \* primaryAcknowledgementTrackers, as a set of at most one
    timers,       \* the attempts whose 2000 ms timer runs
    failing,      \* the attempts whose send error callback is due
    complete,     \* didCompletePrimaryHandshake
    registered,   \* apiUniqueNumber is set and its route registered
    matched,      \* didAcknowledgePrimaryMatch
    caller,       \* caller[c]: how far that run() has come
    awaits        \* awaits[c]: the promise it awaits

channelVars == <<connected, toPrimary, toWorker>>
primaryVars == <<sameMode, published>>
attemptVars == <<attempts, current, trackers, timers, failing>>
verdictVars == <<complete, registered>>
callerVars == <<matched, caller, awaits>>
vars == <<channelVars, primaryVars, attemptVars, verdictVars, callerVars,
          created, promise>>

PromiseState == {"none", "pending", "resolved", "rejected"}

(***************************************************************************)
(* first     awaits the promise it found in ready()                        *)
(* second    that one rejected; awaits what #acknowledgePrimary returned   *)
(* acquiring goes on to the hot path with apiUniqueNumber                  *)
(* failed    run() has rejected                                            *)
(***************************************************************************)
CallerState == {"idle", "first", "second", "acquiring", "failed"}

\* Every variable has its type, and attempts have numbers enough.
TypeOK ==
    /\ {sameMode, published, connected, created, complete, registered, matched}
           \subseteq BOOLEAN
    /\ toPrimary \in 0..Cardinality(Attempts)
    /\ toWorker \in 0..(Cardinality(Attempts) + 1)
    /\ attempts \in {0} \cup Attempts
    /\ current \in {0} \cup Attempts
    /\ promise \in [{0} \cup Attempts -> PromiseState]
    /\ trackers \subseteq Attempts
    /\ timers \subseteq Attempts
    /\ failing \subseteq Attempts
    /\ caller \in [Callers -> CallerState]
    /\ awaits \in [Callers -> {0} \cup Attempts]

Init ==
    /\ sameMode \in BOOLEAN
    /\ published = FALSE
    /\ connected = TRUE
    /\ toPrimary = 0
    /\ toWorker = 0
    /\ created = FALSE
    /\ attempts = 0
    /\ current = 0
    /\ promise = [a \in {0} \cup Attempts |-> "none"]
    /\ trackers = {}
    /\ timers = {}
    /\ failing = {}
    /\ complete = FALSE
    /\ registered = FALSE
    /\ matched = FALSE
    /\ caller = [c \in Callers |-> "idle"]
    /\ awaits = [c \in Callers |-> 0]

-----------------------------------------------------------------------------

\* BasePrimaryLimiter.#sendHandshake: a failure is reported, never repeated.
SendHandshake ==
    \/ connected /\ toWorker' = toWorker + 1
    \/ ("replyError" \in Faults \/ ~connected) /\ UNCHANGED toWorker

\* [_kPublish]: both maps, then the announcement to the workers there are.
Publish ==
    /\ ~published
    /\ published' = TRUE
    /\ SendHandshake
    /\ UNCHANGED <<connected, toPrimary, sameMode, attemptVars, verdictVars,
                   callerVars, created, promise>>

\* Mutant of HandleAcknowledge: the question is answered and stays.
HandleAcknowledge_Again ==
    /\ toPrimary > 0
    /\ published /\ SendHandshake
    /\ UNCHANGED <<connected, toPrimary, primaryVars, attemptVars, verdictVars,
                   callerVars, created, promise>>

\* BasePrimaryLimiter.#handleColdMessage, through the provider-id map: nobody
\* answers as long as the limiter is not published.
HandleAcknowledge ==
    /\ toPrimary > 0
    /\ toPrimary' = toPrimary - 1
    /\ \/ published /\ SendHandshake
       \/ ~published /\ UNCHANGED toWorker
    /\ UNCHANGED <<connected, primaryVars, attemptVars, verdictVars, callerVars,
                   created, promise>>

-----------------------------------------------------------------------------

\* reject(): a promise that is settled stays as it is.
Rejected(a) == [promise EXCEPT ![a] = IF @ = "pending" THEN "rejected" ELSE @]

\* The executor of a new attempt in #acknowledgePrimary.
StartAttempt ==
    LET a == attempts + 1
    IN  /\ attempts' = a
        /\ current' = a
        /\ \/ /\ connected
              /\ trackers' = {a}
              /\ timers' = timers \cup {a}
              /\ \/ /\ promise' = [promise EXCEPT ![a] = "pending"]
                    /\ toPrimary' = toPrimary + 1
                    /\ UNCHANGED failing
                 \/ /\ "sendError" \in Faults
                    /\ promise' = [promise EXCEPT ![a] = "pending"]
                    /\ failing' = failing \cup {a}
                    /\ UNCHANGED toPrimary
                 \/ /\ "sendThrow" \in Faults
                    /\ promise' = [promise EXCEPT ![a] = "rejected"]
                    /\ UNCHANGED <<failing, toPrimary>>
           \/ /\ ~connected
              /\ promise' = [promise EXCEPT ![a] = "rejected"]
              /\ UNCHANGED <<trackers, timers, failing, toPrimary>>

\* The constructor of BaseWorkerLimiter.
Create ==
    /\ ~created
    /\ created' = TRUE
    /\ StartAttempt
    /\ UNCHANGED <<connected, toWorker, primaryVars, verdictVars, callerVars>>

\* Mutant of HandleColdMessage: without an open attempt the promise stays.
HandleColdMessage_StalePromise ==
    /\ toWorker > 0
    /\ toWorker' = toWorker - 1
    /\ complete' = (complete \/ created)
    /\ registered' = ((created /\ sameMode) \/ registered)
    /\ timers' = IF complete THEN timers ELSE timers \ trackers
    /\ promise' = [a \in DOMAIN promise |->
                      IF created /\ ~complete /\ a \in trackers
                      THEN IF sameMode THEN "resolved" ELSE "rejected"
                      ELSE promise[a]]
    /\ UNCHANGED <<connected, toPrimary, primaryVars, attempts, current, trackers,
                   failing, callerVars, created>>

\* #handleColdMessage of the worker.
HandleColdMessage ==
    /\ toWorker > 0
    /\ toWorker' = toWorker - 1
    /\ LET verdict == IF sameMode THEN "resolved" ELSE "rejected"
       IN  \/ /\ created /\ ~complete
              /\ complete' = TRUE
              /\ registered' = sameMode
              /\ \/ /\ trackers = {}
                    /\ current' = 0
                    /\ promise' = [promise EXCEPT ![0] = verdict]
                    /\ UNCHANGED timers
                 \/ /\ trackers # {}
                    /\ timers' = timers \ trackers
                    /\ promise' = [a \in DOMAIN promise |->
                          IF a \in trackers /\ promise[a] = "pending"
                          THEN verdict ELSE promise[a]]
                    /\ UNCHANGED current
           \/ /\ ~created \/ complete   \* no entry in the map, or done
              /\ UNCHANGED <<complete, registered, current, promise, timers>>
    /\ UNCHANGED <<connected, toPrimary, primaryVars, attempts, trackers, failing,
                   callerVars, created>>

\* Mutant of SendFailed: the timer is cleared and the promise forgotten.
SendFailed_NoReject(a) ==
    /\ a \in failing
    /\ failing' = failing \ {a}
    /\ trackers' = {}
    /\ timers' = timers \ {a}
    /\ UNCHANGED <<channelVars, primaryVars, attempts, current, verdictVars,
                   callerVars, created, promise>>

\* The error callback of an attempt: it clears the trackers, whosever they are.
SendFailed(a) ==
    /\ a \in failing
    /\ failing' = failing \ {a}
    /\ trackers' = {}
    /\ timers' = timers \ {a}
    /\ promise' = Rejected(a)
    /\ UNCHANGED <<channelVars, primaryVars, attempts, current, verdictVars,
                   callerVars, created>>

\* A run() goes on as soon as the promise it awaits has settled.
Settled(c) ==
    /\ caller[c] \in {"first", "second"}
    /\ promise[awaits[c]] \in {"resolved", "rejected"}

\* The 2000 ms timer of an attempt; timers fire in the order they were set.
Timeout(a) ==
    /\ a \in timers
    /\ \A b \in timers : a <= b
    /\ \A c \in Callers : ~Settled(c)
    /\ a \in failing => "lateError" \in Faults
    /\ timers' = timers \ {a}
    /\ trackers' = {}
    /\ promise' = Rejected(a)
    /\ UNCHANGED <<channelVars, primaryVars, attempts, current, failing,
                   verdictVars, callerVars, created>>

\* Mutant of Call: the await is skipped once the handshake is complete.
Call_OnComplete(c) ==
    /\ created
    /\ caller[c] = "idle"
    /\ caller' = [caller EXCEPT ![c] = IF complete THEN "acquiring" ELSE "first"]
    /\ awaits' = [awaits EXCEPT ![c] = current]
    /\ UNCHANGED <<channelVars, primaryVars, attemptVars, verdictVars, matched,
                   created, promise>>

\* run() up to its first await, which is skipped once a match is known.
Call(c) ==
    /\ created
    /\ caller[c] = "idle"
    /\ \/ /\ matched
          /\ caller' = [caller EXCEPT ![c] = "acquiring"]
          /\ UNCHANGED awaits
       \/ /\ ~matched
          /\ caller' = [caller EXCEPT ![c] = "first"]
          /\ awaits' = [awaits EXCEPT ![c] = current]
    /\ UNCHANGED <<channelVars, primaryVars, attemptVars, verdictVars, matched,
                   created, promise>>

\* The awaited promise has resolved.
Resume(c) ==
    /\ Settled(c)
    /\ promise[awaits[c]] = "resolved"
    /\ matched' = TRUE
    /\ caller' = [caller EXCEPT ![c] = "acquiring"]
    /\ UNCHANGED <<channelVars, primaryVars, attemptVars, verdictVars, awaits,
                   created, promise>>

\* ready()'s catch: #acknowledgePrimary returns the promise there is when the
\* handshake is complete or an attempt is open, and starts one otherwise.
Retry(c) ==
    /\ caller[c] = "first"
    /\ promise[awaits[c]] = "rejected"
    /\ caller' = [caller EXCEPT ![c] = "second"]
    /\ \/ /\ complete \/ trackers # {}
          /\ UNCHANGED <<attemptVars, toPrimary, promise>>
       \/ /\ ~complete /\ trackers = {}
          /\ StartAttempt
    /\ awaits' = [awaits EXCEPT ![c] = current']
    /\ UNCHANGED <<connected, toWorker, primaryVars, verdictVars, matched, created>>

\* The second await rejects, and with it run().
GiveUp(c) ==
    /\ caller[c] = "second"
    /\ promise[awaits[c]] = "rejected"
    /\ caller' = [caller EXCEPT ![c] = "failed"]
    /\ UNCHANGED <<channelVars, primaryVars, attemptVars, verdictVars, matched,
                   awaits, created, promise>>

\* The channel closes; what was on its way to the worker is lost.
Disconnect ==
    /\ "disconnect" \in Faults
    /\ connected
    /\ connected' = FALSE
    /\ toWorker' = 0
    /\ UNCHANGED <<toPrimary, primaryVars, attemptVars, verdictVars, callerVars,
                   created, promise>>

Next ==
    \/ Publish \/ HandleAcknowledge
    \/ Create \/ HandleColdMessage \/ Disconnect
    \/ \E a \in Attempts : SendFailed(a) \/ Timeout(a)
    \/ \E c \in Callers : Call(c) \/ Resume(c) \/ Retry(c) \/ GiveUp(c)

Spec == Init /\ [][Next]_vars

(***************************************************************************)
(* Fairness: the worker's event loop fires its timers, runs its microtasks *)
(* and the error callbacks that are due.  Nothing makes the primary        *)
(* publish or answer.                                                      *)
(***************************************************************************)
FairSpec ==
    /\ Spec
    /\ \A a \in Attempts : WF_vars(SendFailed(a)) /\ WF_vars(Timeout(a))
    /\ \A c \in Callers : WF_vars(Resume(c)) /\ WF_vars(Retry(c)) /\ WF_vars(GiveUp(c))

-----------------------------------------------------------------------------

(***************************************************************************)
(* BaseWorkerLimiter.js:186-190: a run() goes on to the hot path only when *)
(* the modes match, the primary's route exists and the worker's own is     *)
(* registered under the primary's number.                                  *)
(***************************************************************************)
HotPathIsOpen ==
    \A c \in Callers :
        caller[c] = "acquiring" => sameMode /\ published /\ registered

(***************************************************************************)
(* BaseWorkerLimiter.js:149-154: once the primary's announcement has been  *)
(* handled, the promise every later ready() awaits carries its verdict,    *)
(* whatever attempts, timeouts and error callbacks came before or after.   *)
(***************************************************************************)
VerdictStands ==
    complete => promise[current] = IF sameMode THEN "resolved" ELSE "rejected"

\* Every run() leaves the handshake, answered or not.
EveryRunLeavesTheHandshake ==
    \A c \in Callers :
        caller[c] \in {"first", "second"} ~> caller[c] \in {"acquiring", "failed"}

=============================================================================
