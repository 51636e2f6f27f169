------------------------- MODULE LimiterRegistries -------------------------
(***************************************************************************)
(* Many limiters in many processes: the factories of index.js, the         *)
(* registries of the primary and of each worker, the routers that find a   *)
(* message's limiter, and the fan-out of a worker's exit. What a limiter   *)
(* does with its messages is the subject of other modules: here it has     *)
(* capacity for everybody, channels lose nothing but what travels to a     *)
(* dead worker, and a worker makes one call per limiter.                   *)
(***************************************************************************)
EXTENDS Integers, Sequences

CONSTANTS
    Workers, Apis,
    PrimaryConfigs, WorkerConfigs,   \* arguments given to the factories
    Uses,           \* for each worker, the apis its application makes limiters for
    MaxLog,         \* the largest timestamp log that can be allocated
    MaxNumber,      \* bound: limiters constructed in the primary
    NoApi, NoEntry  \* nothing found in a registry

Mode == {"semaphore", "duration"}
Numbers == 1..MaxNumber

(* What the application may give the factories, valid or not. *)
Arguments == [mode : STRING, max : Int, duration : Nat]
ArgumentsAtWorker == [mode : STRING, timeout : Int]

ASSUME ConstantsAssumption ==
    /\ MaxLog \in Nat /\ MaxNumber \in Nat
    /\ Uses \subseteq [Workers -> SUBSET Apis]
    /\ PrimaryConfigs \subseteq Arguments /\ WorkerConfigs \subseteq ArgumentsAtWorker
    /\ NoApi \notin Apis
    /\ NoEntry \notin WorkerConfigs /\ NoEntry \notin [config : Arguments, number : Nat]

VARIABLES
    uses,            \* the application, one of Uses
    proc,            \* the worker processes
    counter,         \* the last apiUniqueNumber generated
    primaryById,     \* the primary's registry by provider id
    primaryByNumber, \* and by number
    primaryHandles,  \* <<api, arguments, limiter>> the primary's factory has returned
    workerById,      \* a worker's registry by provider id: the limiter's arguments
    workerByNumber,  \* and by number
    workerHandles,   \* <<w, api, arguments, limiter>> a worker's factory has returned
    number,          \* #apiUniqueNumber of a worker's limiter, 0 before it is known
    complete,        \* #didCompletePrimaryHandshake of a worker's limiter
    call,            \* the call of a worker through its limiter
    leased,          \* <<limiter's number, worker>>: permits the semaphores have given
    toWorker, toPrimary

primaryVars == <<counter, primaryById, primaryByNumber, primaryHandles>>
workerVars == <<workerById, workerByNumber, workerHandles, number, complete>>
vars == <<uses, proc, primaryVars, workerVars, call, leased, toWorker, toPrimary>>

Ask(a) == [type |-> "ask", api |-> a]
Announcement(a, mode, n) == [type |-> "handshake", api |-> a, mode |-> mode, number |-> n]
Hot(op, n) == [type |-> op, number |-> n]

Init ==
    /\ uses \in Uses
    /\ proc = [w \in Workers |-> "absent"]
    /\ counter = 0
    /\ primaryById = [a \in Apis |-> NoEntry]
    /\ primaryByNumber = [n \in Numbers |-> NoApi]
    /\ primaryHandles = {} /\ workerHandles = {}
    /\ workerById = [w \in Workers |-> primaryById]
    /\ workerByNumber = [w \in Workers |-> primaryByNumber]
    /\ number = [w \in Workers |-> [a \in Apis |-> 0]]
    /\ complete = [w \in Workers |-> [a \in Apis |-> FALSE]]
    /\ call = [w \in Workers |-> [a \in Apis |-> "none"]]
    /\ leased = {}
    /\ toWorker = [w \in Workers |-> <<>>]
    /\ toPrimary = toWorker

Up(w) == proc[w] = "up"

------------------------------------------------------------------------------
(* The primary's factory. *)

Valid(c) == c.mode \in Mode /\ c.max > 0 /\ (c.mode = "duration" => c.duration > 0)

(* What is compared of the arguments: the entry's config string. *)
ConfigOf(c) == [c EXCEPT !.duration = IF c.mode = "duration" THEN @ ELSE 0]

(* Mutant of Conflicts: the first configuration is kept in silence. *)
Conflicts_Never(a, c) == FALSE

Conflicts(a, c) == primaryById[a].config # ConfigOf(c)

ReturnExisting(a, c) ==
    /\ Valid(c)
    /\ primaryById[a] # NoEntry
    /\ IF Conflicts(a, c) THEN UNCHANGED primaryHandles
       ELSE primaryHandles' = primaryHandles \cup {<<a, ConfigOf(c), primaryById[a].number>>}
    /\ UNCHANGED <<uses, proc, counter, primaryById, primaryByNumber, workerVars, call, leased, toWorker, toPrimary>>

Generate == counter < MaxNumber /\ counter' = counter + 1

Unallocatable(c) == c.mode = "duration" /\ c.max > MaxLog

(* The timestamp log is made before anything is published; only the number is lost. *)
AllocationFails(a, c) ==
    /\ Valid(c) /\ Unallocatable(c)
    /\ primaryById[a] = NoEntry
    /\ Generate
    /\ UNCHANGED <<uses, proc, primaryById, primaryByNumber, primaryHandles, workerVars, call, leased, toWorker, toPrimary>>

(* Mutant of Announce: only workers that are forked later learn of the limiter. *)
Announce_Nobody(a, mode, n) == UNCHANGED toWorker

Announce(a, mode, n) ==
    toWorker' = [w \in Workers |-> IF Up(w) THEN Append(toWorker[w], Announcement(a, mode, n)) ELSE toWorker[w]]

RegisterByProviderId(a, c, n) == primaryById' = [primaryById EXCEPT ![a] = [config |-> ConfigOf(c), number |-> n]]

RegisterByUniqueNumber(n, a) == primaryByNumber' = [primaryByNumber EXCEPT ![n] = a]

Create(a, c) ==
    /\ Valid(c) /\ ~Unallocatable(c)
    /\ primaryById[a] = NoEntry
    /\ Generate
    /\ RegisterByProviderId(a, c, counter')
    /\ RegisterByUniqueNumber(counter', a)
    /\ primaryHandles' = primaryHandles \cup {<<a, ConfigOf(c), counter'>>}
    /\ Announce(a, c.mode, counter')
    /\ UNCHANGED <<uses, proc, workerVars, call, leased, toPrimary>>

------------------------------------------------------------------------------
(* A worker's factory. *)

(* Mutant of ValidAtWorker: the timeout is not checked. *)
ValidAtWorker_ModeOnly(c) == c.mode \in Mode

ValidAtWorker(c) == c.mode \in Mode /\ c.timeout > 0

ReturnExistingAtWorker(w, a, c) ==
    /\ Up(w) /\ ValidAtWorker(c)
    /\ workerById[w][a] # NoEntry
    /\ workerHandles' = workerHandles \cup (IF workerById[w][a] = c THEN {<<w, a, c, workerById[w][a]>>} ELSE {})
    /\ UNCHANGED <<uses, proc, primaryVars, workerById, workerByNumber, number, complete, call, leased, toWorker, toPrimary>>

CreateAtWorker(w, a, c) ==
    /\ Up(w) /\ a \in uses[w] /\ ValidAtWorker(c)
    /\ workerById[w][a] = NoEntry
    /\ workerById' = [workerById EXCEPT ![w][a] = c]
    /\ workerHandles' = workerHandles \cup {<<w, a, c, c>>}
    /\ toPrimary' = [toPrimary EXCEPT ![w] = Append(@, Ask(a))]
    /\ UNCHANGED <<uses, proc, primaryVars, workerByNumber, number, complete, call, leased, toWorker>>

------------------------------------------------------------------------------
(* The routers and the handlers they find. *)

FromWorker(w, type) == proc[w] # "absent" /\ toPrimary[w] # <<>> /\ Head(toPrimary[w]).type = type
FromPrimary(w, type) == Up(w) /\ toWorker[w] # <<>> /\ Head(toWorker[w]).type = type
Send(w, m) == toWorker' = [toWorker EXCEPT ![w] = IF Up(w) THEN Append(@, m) ELSE @]

(* Mutant of AnswerAsk: a worker that was announced to when it had no limiter is not answered. *)
AnswerAsk_Never(w) ==
    /\ FromWorker(w, "ask")
    /\ toPrimary' = [toPrimary EXCEPT ![w] = Tail(@)]
    /\ UNCHANGED <<uses, proc, primaryVars, workerVars, call, leased, toWorker>>

AnswerAsk(w) ==
    /\ FromWorker(w, "ask")
    /\ LET a == Head(toPrimary[w]).api  entry == primaryById[a]
       IN  IF entry # NoEntry THEN Send(w, Announcement(a, entry.config.mode, entry.number))
           ELSE UNCHANGED toWorker
    /\ toPrimary' = [toPrimary EXCEPT ![w] = Tail(@)]
    /\ UNCHANGED <<uses, proc, primaryVars, workerVars, call, leased>>

Semaphore(n) == primaryByNumber[n] # NoApi /\ primaryById[primaryByNumber[n]].config.mode = "semaphore"

HandleAcquire(w) ==
    /\ FromWorker(w, "acquire")
    /\ LET n == Head(toPrimary[w]).number
       IN  IF primaryByNumber[n] # NoApi /\ proc[w] # "reaped"
           THEN /\ leased' = leased \cup (IF Semaphore(n) THEN {<<n, w>>} ELSE {})
                /\ Send(w, Hot("grant", n))
           ELSE UNCHANGED <<leased, toWorker>>
    /\ toPrimary' = [toPrimary EXCEPT ![w] = Tail(@)]
    /\ UNCHANGED <<uses, proc, primaryVars, workerVars, call>>

HandleRelease(w) ==
    /\ FromWorker(w, "release")
    /\ leased' = leased \ {<<Head(toPrimary[w]).number, w>>}
    /\ toPrimary' = [toPrimary EXCEPT ![w] = Tail(@)]
    /\ UNCHANGED <<uses, proc, primaryVars, workerVars, call, toWorker>>

RegisterAtWorker(w, n, a) == workerByNumber' = [workerByNumber EXCEPT ![w][n] = a]

(* Mutant of HandleAnnouncement: the first message's mode is not compared. *)
HandleAnnouncement_AnyMode(w) ==
    /\ FromPrimary(w, "handshake")
    /\ LET m == Head(toWorker[w])
       IN  IF workerById[w][m.api] = NoEntry \/ complete[w][m.api]
           THEN UNCHANGED <<complete, number, workerByNumber>>
           ELSE /\ complete' = [complete EXCEPT ![w][m.api] = TRUE]
                /\ number' = [number EXCEPT ![w][m.api] = m.number]
                /\ RegisterAtWorker(w, m.number, m.api)
    /\ toWorker' = [toWorker EXCEPT ![w] = Tail(@)]
    /\ UNCHANGED <<uses, proc, primaryVars, workerById, workerHandles, call, leased, toPrimary>>

(* Before the first limiter there is no listener: the message is kept, or
   dropped as one for an unknown api. *)
HandleAnnouncement(w) ==
    /\ FromPrimary(w, "handshake")
    /\ LET m == Head(toWorker[w])
       IN  IF workerById[w][m.api] = NoEntry \/ complete[w][m.api]
           THEN UNCHANGED <<complete, number, workerByNumber>>
           ELSE /\ complete' = [complete EXCEPT ![w][m.api] = TRUE]
                /\ IF m.mode = workerById[w][m.api].mode
                   THEN /\ number' = [number EXCEPT ![w][m.api] = m.number]
                        /\ RegisterAtWorker(w, m.number, m.api)
                   ELSE UNCHANGED <<number, workerByNumber>>
    /\ toWorker' = [toWorker EXCEPT ![w] = Tail(@)]
    /\ UNCHANGED <<uses, proc, primaryVars, workerById, workerHandles, call, leased, toPrimary>>

(* run() of a limiter that has its match. *)
Run(w, a) ==
    /\ Up(w) /\ number[w][a] # 0
    /\ call[w][a] = "none"
    /\ call' = [call EXCEPT ![w][a] = "asking"]
    /\ toPrimary' = [toPrimary EXCEPT ![w] = Append(@, Hot("acquire", number[w][a]))]
    /\ UNCHANGED <<uses, proc, primaryVars, workerVars, leased, toWorker>>

PermitTimeout(w, a) ==
    /\ Up(w) /\ call[w][a] = "asking"
    /\ call' = [call EXCEPT ![w][a] = "over"]
    /\ UNCHANGED <<uses, proc, primaryVars, workerVars, leased, toWorker, toPrimary>>

(* Only a semaphore's permit is given back. *)
Release(w, a) ==
    toPrimary' = IF workerById[w][a].mode = "semaphore"
                 THEN [toPrimary EXCEPT ![w] = Append(@, Hot("release", number[w][a]))] ELSE toPrimary

HandleGrant(w) ==
    /\ FromPrimary(w, "grant")
    /\ LET a == workerByNumber[w][Head(toWorker[w]).number]
       IN  IF a = NoApi THEN UNCHANGED <<call, toPrimary>>
           ELSE IF call[w][a] = "asking"
           THEN call' = [call EXCEPT ![w][a] = "running"] /\ UNCHANGED toPrimary
           ELSE Release(w, a) /\ UNCHANGED call
    /\ toWorker' = [toWorker EXCEPT ![w] = Tail(@)]
    /\ UNCHANGED <<uses, proc, primaryVars, workerVars, leased>>

CallSettles(w, a) ==
    /\ Up(w) /\ call[w][a] = "running"
    /\ call' = [call EXCEPT ![w][a] = "over"]
    /\ Release(w, a)
    /\ UNCHANGED <<uses, proc, primaryVars, workerVars, leased, toWorker>>

------------------------------------------------------------------------------
(* The worker processes. *)

Fork(w) ==
    /\ proc[w] = "absent" /\ uses[w] # {}
    /\ proc' = [proc EXCEPT ![w] = "up"]
    /\ UNCHANGED <<uses, primaryVars, workerVars, call, leased, toWorker, toPrimary>>

Exits(w) ==
    /\ Up(w)
    /\ proc' = [proc EXCEPT ![w] = "exited"]
    /\ toWorker' = [toWorker EXCEPT ![w] = <<>>]
    /\ UNCHANGED <<uses, primaryVars, workerVars, call, leased, toPrimary>>

(* Mutant of ExitEvent: the loop over the registry stops at its first limiter. *)
ExitEvent_FirstLimiter(w) ==
    /\ proc[w] = "exited"
    /\ proc' = [proc EXCEPT ![w] = "reaped"]
    /\ leased' = leased \ {<<1, w>>}
    /\ UNCHANGED <<uses, primaryVars, workerVars, call, toWorker, toPrimary>>

(* Mutant of ExitEvent: a limiter takes the permits of all workers back. *)
ExitEvent_EveryWorker(w) ==
    /\ proc[w] = "exited"
    /\ proc' = [proc EXCEPT ![w] = "reaped"]
    /\ leased' = {}
    /\ UNCHANGED <<uses, primaryVars, workerVars, call, toWorker, toPrimary>>

(* Every limiter in the registry by number handles the exit. *)
ExitEvent(w) ==
    /\ proc[w] = "exited"
    /\ proc' = [proc EXCEPT ![w] = "reaped"]
    /\ leased' = leased \ {<<n, w>> : n \in {n \in Numbers : Semaphore(n)}}
    /\ UNCHANGED <<uses, primaryVars, workerVars, call, toWorker, toPrimary>>

PrimaryReads(w) == AnswerAsk(w) \/ HandleAcquire(w) \/ HandleRelease(w)
WorkerReads(w) == HandleAnnouncement(w) \/ HandleGrant(w)
HasListener(w) == \E a \in Apis : workerById[w][a] # NoEntry

Next ==
    \/ \E a \in Apis, c \in PrimaryConfigs : ReturnExisting(a, c) \/ AllocationFails(a, c) \/ Create(a, c)
    \/ \E w \in Workers, a \in Apis :
         \/ \E c \in WorkerConfigs : ReturnExistingAtWorker(w, a, c) \/ CreateAtWorker(w, a, c)
         \/ Run(w, a) \/ PermitTimeout(w, a) \/ CallSettles(w, a)
    \/ \E w \in Workers : PrimaryReads(w) \/ WorkerReads(w) \/ Fork(w) \/ Exits(w) \/ ExitEvent(w)

(* Both event loops read what they have been sent. *)
Fairness == \A w \in Workers : WF_vars(PrimaryReads(w)) /\ WF_vars(HasListener(w) /\ WorkerReads(w))

Spec == Init /\ [][Next]_vars /\ Fairness

------------------------------------------------------------------------------
(* Every variable has its type; no registry holds invalid arguments. Code: the
   validators called by the factories, index.js:69 and :125. *)
TypeOK ==
    /\ proc \in [Workers -> {"absent", "up", "exited", "reaped"}]
    /\ counter \in 0..MaxNumber
    /\ \A a \in Apis : primaryById[a] # NoEntry =>
         /\ primaryById[a].config.mode \in Mode /\ primaryById[a].config.max \in Nat \ {0}
         /\ primaryById[a].number \in Numbers
    /\ primaryByNumber \in [Numbers -> Apis \cup {NoApi}]
    /\ \A w \in Workers, a \in Apis : workerById[w][a] # NoEntry =>
         workerById[w][a].mode \in Mode /\ workerById[w][a].timeout \in Nat \ {0}
    /\ workerByNumber \in [Workers -> [Numbers -> Apis \cup {NoApi}]]
    /\ number \in [Workers -> [Apis -> 0..MaxNumber]]
    /\ complete \in [Workers -> [Apis -> BOOLEAN]]
    /\ call \in [Workers -> [Apis -> {"none", "asking", "running", "over"}]]
    /\ leased \subseteq Numbers \X Workers

(* Whoever called a factory holds the limiter that messages are routed to, with
   the arguments he gave. Code: README.md:133, "rather than silently keeping
   whichever configuration registered first"; index.js:70-80 and :126-135. *)
OneLimiterPerApi ==
    /\ \A h \in primaryHandles : primaryById[h[1]] = [config |-> h[2], number |-> h[3]]
    /\ \A h \in workerHandles : workerById[h[1]][h[2]] = h[3] /\ h[3] = h[4]

(* The two registries of the primary agree and the next number is free, so that
   the second registration of _kPublish never fails and its rollback, which
   would delete the route of the other limiter, never runs. A worker's route
   leads to the limiter the primary's leads to, of the same mode. Code:
   BasePrimaryLimiter.js:162-174, BaseWorkerLimiter.js:347-374. *)
RoutesAgree ==
    /\ \A a \in Apis, n \in Numbers :
         primaryByNumber[n] = a <=> primaryById[a] # NoEntry /\ primaryById[a].number = n
    /\ \A n \in Numbers : n > counter => primaryByNumber[n] = NoApi
    /\ \A w \in Workers, a \in Apis, n \in Numbers :
         workerByNumber[w][n] = a =>
           /\ number[w][a] = n /\ primaryByNumber[n] = a
           /\ workerById[w][a].mode = primaryById[a].config.mode

(* A call runs under a permit of its own api's limiter, whatever happens to
   other limiters and other workers. Code: the DESTINATION of a message,
   primaryLimiterRegistry.js:63-69, workerLimiterRegistry.js:58-65. *)
RunsUnderItsPermit ==
    \A w \in Workers, a \in Apis :
        Up(w) /\ call[w][a] = "running" /\ primaryById[a].config.mode = "semaphore"
          => <<primaryById[a].number, w>> \in leased

(* A worker whose exit was handled holds a permit of no limiter at all. Code:
   the loop over the limiters, primaryLimiterRegistry.js:79-85. *)
ReapedHoldsNothing == \A n \in Numbers, w \in Workers : proc[w] = "reaped" => <<n, w>> \notin leased

(* When both limiters exist and the worker's has no verdict, its question or an
   announcement is on its way: neither side waits for a message the other
   believes to have sent. Code: BaseWorkerLimiter.js:127, BasePrimaryLimiter.js:209 and :225. *)
NoMissedRendezvous ==
    \A w \in Workers, a \in Apis :
        Up(w) /\ workerById[w][a] # NoEntry /\ primaryById[a] # NoEntry /\ ~complete[w][a]
          => \/ \E i \in DOMAIN toPrimary[w] : toPrimary[w][i] = Ask(a)
             \/ \E i \in DOMAIN toWorker[w] : toWorker[w][i].type = "handshake" /\ toWorker[w][i].api = a

(* Whatever the order of fork, creation and publication: when both limiters
   exist, the worker's gets its verdict, unless its process ends. Code:
   README.md:119, "workers that were forked earlier are found and reached
   automatically"; BasePrimaryLimiter.js:209 and :225. *)
EveryLimiterIsReached ==
    \A w \in Workers, a \in Apis :
        workerById[w][a] # NoEntry /\ primaryById[a] # NoEntry ~> complete[w][a] \/ ~Up(w)
=============================================================================
