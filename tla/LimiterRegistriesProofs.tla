----------------------- MODULE LimiterRegistriesProofs -----------------------
(***************************************************************************)
(* The registries of the primary and of every worker, for any applications *)
(* in any number of workers, any arguments and any number of limiters: the *)
(* maps agree, nobody misses an announcement, an exit reaches every        *)
(* limiter.                                                                *)
(***************************************************************************)
EXTENDS LimiterRegistries, SequenceElements, TLAPS

\* An entry of the primary's registry.
Entry ==
    { e \in [config : Arguments, number : Numbers] :
          e.config.mode \in Mode /\ e.config.max > 0 }

\* An entry of a worker's registry.
WorkerEntry == {c \in WorkerConfigs : ValidAtWorker(c)}

\* What a worker sends.
MessageUp ==
    [type : {"ask"}, api : Apis] \cup [type : {"acquire"}, number : Numbers]
        \cup [type : {"release"}, number : 0..MaxNumber]

\* What the primary sends.
MessageDown ==
    [type : {"handshake"}, api : Apis, mode : Mode, number : Numbers]
        \cup [type : {"grant"}, number : Numbers]

PrimaryTypes ==
    /\ counter \in 0..MaxNumber
    /\ primaryById \in [Apis -> Entry \cup {NoEntry}]
    /\ primaryByNumber \in [Numbers -> Apis \cup {NoApi}]
    /\ leased \subseteq Numbers \X Workers

WorkerTypes ==
    /\ proc \in [Workers -> {"absent", "up", "exited", "reaped"}]
    /\ workerById \in [Workers -> [Apis -> WorkerEntry \cup {NoEntry}]]
    /\ workerByNumber \in [Workers -> [Numbers -> Apis \cup {NoApi}]]
    /\ number \in [Workers -> [Apis -> 0..MaxNumber]]
    /\ complete \in [Workers -> [Apis -> BOOLEAN]]
    /\ call \in [Workers -> [Apis -> {"none", "asking", "running", "over"}]]

ChannelTypes ==
    /\ toPrimary \in [Workers -> Seq(MessageUp)]
    /\ toWorker \in [Workers -> Seq(MessageDown)]

Types == PrimaryTypes /\ WorkerTypes /\ ChannelTypes

\* An announcement on its way carries what the primary's registry says.
Announced ==
    \A w \in Workers : \A m \in Elements(toWorker[w]) :
        m.type = "handshake" =>
            /\ primaryById[m.api] # NoEntry
            /\ m.number = primaryById[m.api].number
            /\ m.mode = primaryById[m.api].config.mode

\* A route of a worker leads to a limiter there is.
RoutesLead ==
    \A w \in Workers, n \in Numbers :
        workerByNumber[w][n] # NoApi => workerById[w][workerByNumber[w][n]] # NoEntry

\* Only published semaphores lease.
LeasedBySemaphores == \A n \in Numbers, w \in Workers : <<n, w>> \in leased => Semaphore(n)

\* A worker that is not forked has no limiter.
AbsentIsEmpty ==
    \A w \in Workers, a \in Apis : proc[w] = "absent" => workerById[w][a] = NoEntry

\* What the factories have returned is what the registries hold.
HandlesStand ==
    /\ \A h \in primaryHandles :
           /\ h[1] \in Apis /\ primaryById[h[1]] \in Entry
           /\ primaryById[h[1]] = [config |-> h[2], number |-> h[3]]
    /\ \A h \in workerHandles :
           /\ h[1] \in Workers /\ h[2] \in Apis /\ workerById[h[1]][h[2]] # NoEntry
           /\ workerById[h[1]][h[2]] = h[3] /\ h[3] = h[4]

RegistriesInv ==
    /\ Types /\ Announced /\ RoutesAgree /\ RoutesLead
    /\ LeasedBySemaphores /\ ReapedHoldsNothing
    /\ AbsentIsEmpty /\ HandlesStand /\ NoMissedRendezvous

-----------------------------------------------------------------------------
(***************************************************************************)
(* What the operators of the model do to the channels.                     *)
(***************************************************************************)

\* Different messages are different records.
LEMMA MessageForms ==
    /\ \A a \in Apis : Ask(a) \in MessageUp
    /\ \A n \in Numbers : Hot("acquire", n) \in MessageUp /\ Hot("grant", n) \in MessageDown
    /\ \A n \in 0..MaxNumber : Hot("release", n) \in MessageUp
    /\ \A a \in Apis, mode \in Mode, n \in Numbers :
           Announcement(a, mode, n) \in MessageDown
<1>1. \A a \in Apis : Ask(a) \in [type : {"ask"}, api : Apis]
    BY DEF Ask
<1>2. \A n \in Numbers : /\ Hot("acquire", n) \in [type : {"acquire"}, number : Numbers]
                         /\ Hot("grant", n) \in [type : {"grant"}, number : Numbers]
    BY DEF Hot
<1>3. \A n \in 0..MaxNumber : Hot("release", n) \in [type : {"release"}, number : 0..MaxNumber]
    BY DEF Hot
<1>4. \A a \in Apis, mode \in Mode, n \in Numbers :
          Announcement(a, mode, n)
              \in [type : {"handshake"}, api : Apis, mode : Mode, number : Numbers]
    BY DEF Announcement
<1> QED BY <1>1, <1>2, <1>3, <1>4 DEF MessageUp, MessageDown

\* A message's type says which fields it has.
LEMMA MessageFields ==
    /\ \A m \in MessageUp :
           /\ m.type = "ask" => m.api \in Apis /\ m = Ask(m.api)
           /\ m.type = "acquire" => m.number \in Numbers
           /\ m.type = "release" => m.number \in 0..MaxNumber
    /\ \A m \in MessageDown :
           /\ m.type = "handshake" => m.api \in Apis /\ m.mode \in Mode /\ m.number \in Numbers
           /\ m.type = "grant" => m.number \in Numbers
BY DEF MessageUp, MessageDown, Ask

\* The first message of a channel that is not empty.
LEMMA Heads ==
    ASSUME ChannelTypes, NEW w \in Workers
    PROVE  /\ toPrimary[w] # <<>> =>
                  Head(toPrimary[w]) \in MessageUp /\ Head(toPrimary[w]) \in Elements(toPrimary[w])
           /\ toWorker[w] # <<>> =>
                  Head(toWorker[w]) \in MessageDown /\ Head(toWorker[w]) \in Elements(toWorker[w])
<1>1. toPrimary[w] \in Seq(MessageUp) /\ toWorker[w] \in Seq(MessageDown)
    BY DEF ChannelTypes
<1> QED BY <1>1, ElementsTyped

\* Reading a message takes the head off the worker's channel.
LEMMA ReadUp ==
    ASSUME ChannelTypes, NEW w \in Workers, toPrimary[w] # <<>>,
           toPrimary' = [toPrimary EXCEPT ![w] = Tail(@)]
    PROVE  /\ toPrimary' \in [Workers -> Seq(MessageUp)]
           /\ \A v \in Workers : v # w => toPrimary'[v] = toPrimary[v]
           /\ Elements(toPrimary[w]) = Elements(toPrimary'[w]) \cup {Head(toPrimary[w])}
<1>1. toPrimary[w] \in Seq(MessageUp) /\ toPrimary'[w] = Tail(toPrimary[w])
    BY DEF ChannelTypes
<1>2. Tail(toPrimary[w]) \in Seq(MessageUp)
    BY <1>1, ElementsTyped
<1> QED BY <1>1, <1>2, ElementsTail DEF ChannelTypes

\* So it does in the other direction.
LEMMA ReadDown ==
    ASSUME ChannelTypes, NEW w \in Workers, toWorker[w] # <<>>,
           toWorker' = [toWorker EXCEPT ![w] = Tail(@)]
    PROVE  /\ toWorker' \in [Workers -> Seq(MessageDown)]
           /\ \A v \in Workers : v # w => toWorker'[v] = toWorker[v]
           /\ Elements(toWorker[w]) = Elements(toWorker'[w]) \cup {Head(toWorker[w])}
<1>1. toWorker[w] \in Seq(MessageDown) /\ toWorker'[w] = Tail(toWorker[w])
    BY DEF ChannelTypes
<1>2. Tail(toWorker[w]) \in Seq(MessageDown)
    BY <1>1, ElementsTyped
<1> QED BY <1>1, <1>2, ElementsTail DEF ChannelTypes

\* A worker's message is the one thing its channel gains.
LEMMA SendUp ==
    ASSUME ChannelTypes, NEW w \in Workers, NEW m \in MessageUp,
           toPrimary' = [toPrimary EXCEPT ![w] = Append(@, m)]
    PROVE  /\ toPrimary' \in [Workers -> Seq(MessageUp)]
           /\ \A v \in Workers : Elements(toPrimary[v]) \subseteq Elements(toPrimary'[v])
           /\ m \in Elements(toPrimary'[w])
<1>1. toPrimary[w] \in Seq(MessageUp) /\ toPrimary'[w] = Append(toPrimary[w], m)
    BY DEF ChannelTypes
<1>2. Append(toPrimary[w], m) \in Seq(MessageUp)
    BY <1>1
<1>3. \A v \in Workers : v # w => toPrimary'[v] = toPrimary[v]
    BY DEF ChannelTypes
<1>4. Elements(toPrimary'[w]) = Elements(toPrimary[w]) \cup {m}
    BY <1>1, ElementsAppend
<1> QED BY <1>1, <1>2, <1>3, <1>4 DEF ChannelTypes

\* The primary's message reaches the channel of a worker that is up.
LEMMA SendDown ==
    ASSUME ChannelTypes, NEW w \in Workers, NEW m \in MessageDown, Send(w, m)
    PROVE  /\ toWorker' \in [Workers -> Seq(MessageDown)]
           /\ \A v \in Workers : /\ Elements(toWorker[v]) \subseteq Elements(toWorker'[v])
                                 /\ Elements(toWorker'[v]) \subseteq Elements(toWorker[v]) \cup {m}
           /\ Up(w) => m \in Elements(toWorker'[w])
<1>1. toWorker[w] \in Seq(MessageDown)
    BY DEF ChannelTypes
<1>2. /\ Append(toWorker[w], m) \in Seq(MessageDown)
      /\ Elements(Append(toWorker[w], m)) = Elements(toWorker[w]) \cup {m}
    BY <1>1, ElementsAppend
<1>3. toWorker'[w] = IF Up(w) THEN Append(toWorker[w], m) ELSE toWorker[w]
    BY DEF ChannelTypes, Send
<1>4. \A v \in Workers : v # w => toWorker'[v] = toWorker[v]
    BY DEF ChannelTypes, Send
<1>5. toWorker' \in [Workers -> Seq(MessageDown)]
    BY <1>1, <1>2, <1>3 DEF ChannelTypes, Send
<1> QED BY <1>2, <1>3, <1>4, <1>5

\* An announcement reaches the channel of every worker that is up.
LEMMA AnnounceDown ==
    ASSUME ChannelTypes, NEW a \in Apis, NEW mode \in Mode, NEW n \in Numbers,
           Announce(a, mode, n)
    PROVE  /\ toWorker' \in [Workers -> Seq(MessageDown)]
           /\ \A v \in Workers :
                  /\ Elements(toWorker[v]) \subseteq Elements(toWorker'[v])
                  /\ Elements(toWorker'[v]) \subseteq
                         Elements(toWorker[v]) \cup {Announcement(a, mode, n)}
                  /\ Up(v) => Announcement(a, mode, n) \in Elements(toWorker'[v])
<1> DEFINE m == Announcement(a, mode, n)
<1>1. m \in MessageDown
    BY MessageForms
<1> HIDE DEF m
<1>2. toWorker' = [v \in Workers |-> IF Up(v) THEN Append(toWorker[v], m) ELSE toWorker[v]]
    BY DEF Announce, m
<1>3. ASSUME NEW v \in Workers
      PROVE  /\ toWorker'[v] \in Seq(MessageDown)
             /\ Elements(toWorker[v]) \subseteq Elements(toWorker'[v])
             /\ Elements(toWorker'[v]) \subseteq Elements(toWorker[v]) \cup {m}
             /\ Up(v) => m \in Elements(toWorker'[v])
  <2>1. toWorker[v] \in Seq(MessageDown)
      BY DEF ChannelTypes
  <2>2. /\ Append(toWorker[v], m) \in Seq(MessageDown)
        /\ Elements(Append(toWorker[v], m)) = Elements(toWorker[v]) \cup {m}
      BY <2>1, <1>1, ElementsAppend
  <2>3. toWorker'[v] = IF Up(v) THEN Append(toWorker[v], m) ELSE toWorker[v]
      BY <1>2
  <2> QED BY <2>1, <2>2, <2>3
<1>4. toWorker' \in [Workers -> Seq(MessageDown)]
    BY <1>2, <1>3
<1> QED BY <1>3, <1>4 DEF m

\* What a worker sends back, or nothing for a duration limiter.
LEMMA ReleaseUp ==
    ASSUME Types, NEW w \in Workers, NEW a \in Apis, Release(w, a)
    PROVE  /\ toPrimary' \in [Workers -> Seq(MessageUp)]
           /\ \A v \in Workers : Elements(toPrimary[v]) \subseteq Elements(toPrimary'[v])
<1>1. CASE workerById[w][a].mode = "semaphore"
  <2>1. number[w][a] \in 0..MaxNumber
      BY DEF Types, WorkerTypes
  <2>2. Hot("release", number[w][a]) \in MessageUp
      BY <2>1, MessageForms
  <2> QED BY <1>1, <2>2, SendUp DEF Release, Types
<1>2. CASE workerById[w][a].mode # "semaphore"
    BY <1>2 DEF Release, Types, ChannelTypes
<1> QED BY <1>1, <1>2

-----------------------------------------------------------------------------
(***************************************************************************)
(* The invariant holds at the start.                                       *)
(***************************************************************************)

\* At the start nothing is registered, leased or sent.
LEMMA InitInv == Init => RegistriesInv
<1> SUFFICES ASSUME Init PROVE RegistriesInv
    OBVIOUS
<1> USE ConstantsAssumption
<1>1. PrimaryTypes
    BY DEF PrimaryTypes, Init
<1>2. WorkerTypes
    BY DEF WorkerTypes, Init
<1>3. ChannelTypes
    BY DEF ChannelTypes, Init
<1>4. \A w \in Workers : Elements(toWorker[w]) = {}
    BY ElementsEmpty DEF Init
<1>5. Announced
    BY <1>4 DEF Announced
<1>6. RoutesAgree
    BY DEF RoutesAgree, Init
<1>7. RoutesLead /\ LeasedBySemaphores /\ ReapedHoldsNothing
    BY DEF RoutesLead, LeasedBySemaphores, ReapedHoldsNothing, Init
<1>8. AbsentIsEmpty /\ HandlesStand /\ NoMissedRendezvous
    BY DEF AbsentIsEmpty, HandlesStand, NoMissedRendezvous, Init
<1> QED BY <1>1, <1>2, <1>3, <1>5, <1>6, <1>7, <1>8 DEF RegistriesInv, Types

-----------------------------------------------------------------------------
(***************************************************************************)
(* Every step keeps the types.                                             *)
(***************************************************************************)

\* A new number is a number nobody has.
LEMMA GenerateEffect ==
    ASSUME PrimaryTypes, Generate
    PROVE  counter' \in Numbers /\ counter' > counter /\ counter' \in 0..MaxNumber
BY ConstantsAssumption DEF PrimaryTypes, Generate, Numbers

\* What is published is an entry of the registry.
LEMMA EntryMade ==
    ASSUME NEW c \in PrimaryConfigs, Valid(c), NEW n \in Numbers
    PROVE  /\ [config |-> ConfigOf(c), number |-> n] \in Entry
           /\ ConfigOf(c).mode = c.mode /\ c.mode \in Mode
<1>1. c \in Arguments
    BY ConstantsAssumption
<1>2. ConfigOf(c) \in Arguments /\ ConfigOf(c).mode = c.mode /\ ConfigOf(c).max = c.max
    BY <1>1 DEF ConfigOf, Arguments
<1> QED BY <1>1, <1>2 DEF Entry, Valid, Arguments

\* An entry is not the absence of one.
LEMMA EntriesThere == NoEntry \notin Entry /\ NoEntry \notin WorkerEntry
BY ConstantsAssumption DEF Entry, WorkerEntry, Numbers

\* The factory of the primary keeps the types.
LEMMA TypesPrimary ==
    ASSUME Types, NEW a \in Apis, NEW c \in PrimaryConfigs,
           ReturnExisting(a, c) \/ AllocationFails(a, c) \/ Create(a, c)
    PROVE  Types'
<1>1. CASE ReturnExisting(a, c)
    BY <1>1 DEF ReturnExisting, Types, PrimaryTypes, WorkerTypes, ChannelTypes, workerVars
<1>2. CASE AllocationFails(a, c)
  <2>1. counter' \in 0..MaxNumber
      BY <1>2, GenerateEffect DEF AllocationFails, Types
  <2> QED BY <1>2, <2>1
             DEF AllocationFails, Types, PrimaryTypes, WorkerTypes, ChannelTypes, workerVars
<1>3. CASE Create(a, c)
  <2>1. counter' \in Numbers /\ counter' \in 0..MaxNumber
      BY <1>3, GenerateEffect DEF Create, Types
  <2>2. [config |-> ConfigOf(c), number |-> counter'] \in Entry /\ c.mode \in Mode
      BY <1>3, <2>1, EntryMade DEF Create
  <2>3. toWorker' \in [Workers -> Seq(MessageDown)]
      BY <1>3, <2>1, <2>2, AnnounceDown DEF Create, Types
  <2>4. PrimaryTypes'
      BY <1>3, <2>1, <2>2
         DEF Create, RegisterByProviderId, RegisterByUniqueNumber, Types, PrimaryTypes
  <2> QED BY <1>3, <2>3, <2>4 DEF Create, Types, WorkerTypes, ChannelTypes, workerVars
<1> QED BY <1>1, <1>2, <1>3

\* The factory of a worker, and the calls, keep the types.
LEMMA TypesWorker ==
    ASSUME Types, NEW w \in Workers, NEW a \in Apis,
           \/ \E c \in WorkerConfigs : ReturnExistingAtWorker(w, a, c) \/ CreateAtWorker(w, a, c)
           \/ Run(w, a) \/ PermitTimeout(w, a) \/ CallSettles(w, a)
    PROVE  Types'
<1>1. ASSUME NEW c \in WorkerConfigs, ReturnExistingAtWorker(w, a, c) PROVE Types'
    BY <1>1 DEF ReturnExistingAtWorker, Types, PrimaryTypes, WorkerTypes, ChannelTypes, primaryVars
<1>2. ASSUME NEW c \in WorkerConfigs, CreateAtWorker(w, a, c) PROVE Types'
  <2>1. toPrimary' \in [Workers -> Seq(MessageUp)]
      BY <1>2, MessageForms, SendUp DEF CreateAtWorker, Types
  <2>2. WorkerTypes'
      BY <1>2 DEF CreateAtWorker, Types, WorkerTypes, WorkerEntry
  <2> QED BY <1>2, <2>1, <2>2 DEF CreateAtWorker, Types, PrimaryTypes, ChannelTypes, primaryVars
<1>3. CASE Run(w, a)
  <2>1. number[w][a] \in Numbers
      BY <1>3, ConstantsAssumption DEF Run, Types, WorkerTypes, Numbers
  <2>2. toPrimary' \in [Workers -> Seq(MessageUp)]
      BY <1>3, <2>1, MessageForms, SendUp DEF Run, Types
  <2>3. WorkerTypes'
      BY <1>3 DEF Run, Types, WorkerTypes, workerVars
  <2> QED BY <1>3, <2>2, <2>3 DEF Run, Types, PrimaryTypes, ChannelTypes, primaryVars
<1>4. CASE PermitTimeout(w, a)
  <2>1. WorkerTypes'
      BY <1>4 DEF PermitTimeout, Types, WorkerTypes, workerVars
  <2> QED BY <1>4, <2>1 DEF PermitTimeout, Types, PrimaryTypes, ChannelTypes, primaryVars
<1>5. CASE CallSettles(w, a)
  <2>1. toPrimary' \in [Workers -> Seq(MessageUp)]
      BY <1>5, ReleaseUp DEF CallSettles
  <2>2. WorkerTypes'
      BY <1>5 DEF CallSettles, Types, WorkerTypes, workerVars
  <2> QED BY <1>5, <2>1, <2>2 DEF CallSettles, Types, PrimaryTypes, ChannelTypes, primaryVars
<1> QED BY <1>1, <1>2, <1>3, <1>4, <1>5

\* The handlers of the primary keep the types.
LEMMA TypesPrimaryReads ==
    ASSUME Types, NEW w \in Workers, PrimaryReads(w)
    PROVE  Types'
<1> DEFINE m == Head(toPrimary[w])
<1>1. /\ toPrimary' = [toPrimary EXCEPT ![w] = Tail(@)] /\ toPrimary[w] # <<>>
      /\ UNCHANGED <<proc, counter, primaryById, primaryByNumber, workerVars, call>>
    BY DEF PrimaryReads, AnswerAsk, HandleAcquire, HandleRelease, FromWorker, primaryVars
<1>2. toPrimary' \in [Workers -> Seq(MessageUp)] /\ m \in MessageUp
    BY <1>1, ReadUp, Heads DEF Types
<1>3. WorkerTypes'
    BY <1>1 DEF Types, WorkerTypes, workerVars
<1>4. CASE AnswerAsk(w)
  <2>1. m.api \in Apis
      BY <1>2, <1>4, MessageFields DEF AnswerAsk, FromWorker
  <2>2. toWorker' \in [Workers -> Seq(MessageDown)]
    <3>1. CASE primaryById[m.api] # NoEntry
      <4>1. primaryById[m.api] \in Entry
          BY <2>1, <3>1 DEF Types, PrimaryTypes
      <4>2. Announcement(m.api, primaryById[m.api].config.mode, primaryById[m.api].number)
                \in MessageDown
          BY <2>1, <4>1, MessageForms DEF Entry
      <4> QED BY <1>4, <3>1, <4>2, SendDown DEF AnswerAsk, Types
    <3>2. CASE primaryById[m.api] = NoEntry
        BY <1>4, <3>2 DEF AnswerAsk, Types, ChannelTypes
    <3> QED BY <3>1, <3>2
  <2> QED BY <1>1, <1>2, <1>3, <1>4, <2>2 DEF AnswerAsk, Types, PrimaryTypes, ChannelTypes
<1>5. CASE HandleAcquire(w)
  <2>1. m.number \in Numbers
      BY <1>2, <1>5, MessageFields DEF HandleAcquire, FromWorker
  <2>2. toWorker' \in [Workers -> Seq(MessageDown)]
    <3>1. CASE primaryByNumber[m.number] # NoApi /\ proc[w] # "reaped"
        BY <1>5, <2>1, <3>1, MessageForms, SendDown DEF HandleAcquire, Types
    <3>2. CASE ~(primaryByNumber[m.number] # NoApi /\ proc[w] # "reaped")
        BY <1>5, <3>2 DEF HandleAcquire, Types, ChannelTypes
    <3> QED BY <3>1, <3>2
  <2>3. leased' \subseteq Numbers \X Workers
      BY <1>5, <2>1 DEF HandleAcquire, Types, PrimaryTypes
  <2> QED BY <1>1, <1>2, <1>3, <2>2, <2>3 DEF Types, PrimaryTypes, ChannelTypes
<1>6. CASE HandleRelease(w)
  <2>1. leased' \subseteq Numbers \X Workers /\ UNCHANGED toWorker
      BY <1>6 DEF HandleRelease, Types, PrimaryTypes
  <2> QED BY <1>1, <1>2, <1>3, <2>1 DEF Types, PrimaryTypes, ChannelTypes
<1> QED BY <1>4, <1>5, <1>6 DEF PrimaryReads

\* The three outcomes of an announcement m at worker w: no limiter or too late,
\* the wrong mode, a match.
Ignored(w, m) ==
    /\ workerById[w][m.api] = NoEntry \/ complete[w][m.api]
    /\ UNCHANGED <<complete, number, workerByNumber>>

Mismatch(w, m) ==
    /\ workerById[w][m.api] # NoEntry
    /\ complete' = [complete EXCEPT ![w][m.api] = TRUE]
    /\ UNCHANGED <<number, workerByNumber>>

Match(w, m) ==
    /\ workerById[w][m.api] # NoEntry /\ ~complete[w][m.api]
    /\ m.mode = workerById[w][m.api].mode
    /\ complete' = [complete EXCEPT ![w][m.api] = TRUE]
    /\ number' = [number EXCEPT ![w][m.api] = m.number]
    /\ workerByNumber' = [workerByNumber EXCEPT ![w][m.number] = m.api]

\* An announcement is ignored, or completes the handshake with or without a route.
LEMMA AnnouncementEffect ==
    ASSUME Types, NEW w \in Workers, HandleAnnouncement(w)
    PROVE  \E m \in MessageDown :
               /\ m = Head(toWorker[w])
               /\ m \in Elements(toWorker[w]) /\ m.type = "handshake"
               /\ m.api \in Apis /\ m.number \in Numbers
               /\ Ignored(w, m) \/ Mismatch(w, m) \/ Match(w, m)
<1> DEFINE m == Head(toWorker[w])
<1>1. toWorker[w] # <<>> /\ m.type = "handshake"
    BY DEF HandleAnnouncement, FromPrimary
<1>2. m \in MessageDown /\ m \in Elements(toWorker[w]) /\ m.api \in Apis /\ m.number \in Numbers
    BY <1>1, Heads, MessageFields DEF Types
<1>3. Ignored(w, m) \/ Mismatch(w, m) \/ Match(w, m)
    BY DEF HandleAnnouncement, RegisterAtWorker, Ignored, Mismatch, Match
<1> QED BY <1>1, <1>2, <1>3

\* The handlers of a worker keep the types.
LEMMA TypesWorkerReads ==
    ASSUME Types, NEW w \in Workers, WorkerReads(w)
    PROVE  Types'
<1> DEFINE m == Head(toWorker[w])
<1>1. /\ toWorker' = [toWorker EXCEPT ![w] = Tail(@)] /\ toWorker[w] # <<>>
      /\ UNCHANGED <<proc, primaryVars, leased>>
    BY DEF WorkerReads, HandleAnnouncement, HandleGrant, FromPrimary
<1>2. toWorker' \in [Workers -> Seq(MessageDown)] /\ m \in MessageDown
    BY <1>1, ReadDown, Heads DEF Types
<1>3. PrimaryTypes'
    BY <1>1 DEF Types, PrimaryTypes, primaryVars
<1>4. CASE HandleAnnouncement(w)
  <2>1. PICK x \in MessageDown :
            /\ x.api \in Apis /\ x.number \in Numbers
            /\ Ignored(w, x) \/ Mismatch(w, x) \/ Match(w, x)
      BY <1>4, AnnouncementEffect
  <2>2. x.number \in 0..MaxNumber
      BY <2>1, ConstantsAssumption DEF Numbers
  <2>3. UNCHANGED <<workerById, call>> /\ UNCHANGED toPrimary
      BY <1>4 DEF HandleAnnouncement
  <2>4. CASE Ignored(w, x)
      BY <1>1, <1>2, <1>3, <2>3, <2>4 DEF Ignored, Types, WorkerTypes, ChannelTypes
  <2>5. CASE Mismatch(w, x)
    <3>1. complete' \in [Workers -> [Apis -> BOOLEAN]]
        BY <2>1, <2>5 DEF Mismatch, Types, WorkerTypes
    <3> QED BY <1>1, <1>2, <1>3, <2>3, <2>5, <3>1 DEF Mismatch, Types, WorkerTypes, ChannelTypes
  <2>6. CASE Match(w, x)
    <3>1. complete' \in [Workers -> [Apis -> BOOLEAN]]
        BY <2>1, <2>6 DEF Match, Types, WorkerTypes
    <3>2. number' \in [Workers -> [Apis -> 0..MaxNumber]]
        BY <2>2, <2>1, <2>6 DEF Match, Types, WorkerTypes
    <3>3. workerByNumber' \in [Workers -> [Numbers -> Apis \cup {NoApi}]]
        BY <2>1, <2>6 DEF Match, Types, WorkerTypes
    <3> QED BY <1>1, <1>2, <1>3, <2>3, <3>1, <3>2, <3>3 DEF Types, WorkerTypes, ChannelTypes
  <2> QED BY <2>1, <2>4, <2>5, <2>6
<1>5. CASE HandleGrant(w)
  <2> DEFINE a == workerByNumber[w][m.number]
  <2>1. m.number \in Numbers
      BY <1>2, <1>5, MessageFields DEF HandleGrant, FromPrimary
  <2>2. a = NoApi \/ a \in Apis
      BY <2>1 DEF Types, WorkerTypes
  <2>3. CASE a = NoApi
      BY <1>2, <1>3, <1>5, <2>3 DEF HandleGrant, Types, WorkerTypes, ChannelTypes, workerVars
  <2>4. CASE a # NoApi /\ call[w][a] = "asking"
    <3>1. call' = [call EXCEPT ![w][a] = "running"] /\ UNCHANGED toPrimary
        BY <1>5, <2>4 DEF HandleGrant
    <3>2. WorkerTypes'
        BY <1>5, <2>2, <2>4, <3>1 DEF HandleGrant, Types, WorkerTypes, workerVars
    <3> QED BY <1>2, <1>3, <3>1, <3>2 DEF Types, ChannelTypes
  <2>5. CASE a # NoApi /\ call[w][a] # "asking"
    <3>1. Release(w, a) /\ UNCHANGED call
        BY <1>5, <2>5 DEF HandleGrant
    <3>2. toPrimary' \in [Workers -> Seq(MessageUp)]
        BY <2>2, <2>5, <3>1, ReleaseUp
    <3>3. WorkerTypes'
        BY <1>5, <3>1 DEF HandleGrant, Types, WorkerTypes, workerVars
    <3> QED BY <1>2, <1>3, <3>2, <3>3 DEF Types, ChannelTypes
  <2> QED BY <2>3, <2>4, <2>5
<1> QED BY <1>4, <1>5 DEF WorkerReads

\* The worker processes' own steps keep the types.
LEMMA TypesProcess ==
    ASSUME Types, NEW w \in Workers, Fork(w) \/ Exits(w) \/ ExitEvent(w)
    PROVE  Types'
<1>1. CASE Fork(w)
    BY <1>1 DEF Fork, Types, PrimaryTypes, WorkerTypes, ChannelTypes, primaryVars, workerVars
<1>2. CASE Exits(w)
    BY <1>2 DEF Exits, Types, PrimaryTypes, WorkerTypes, ChannelTypes, primaryVars, workerVars
<1>3. CASE ExitEvent(w)
    BY <1>3 DEF ExitEvent, Types, PrimaryTypes, WorkerTypes, ChannelTypes, primaryVars, workerVars
<1> QED BY <1>1, <1>2, <1>3

\* Every step keeps the types.
LEMMA TypesStep == Types /\ [Next]_vars => Types'
<1> SUFFICES ASSUME Types, [Next]_vars PROVE Types'
    OBVIOUS
<1>1. CASE UNCHANGED vars
    BY <1>1 DEF vars, Types, PrimaryTypes, WorkerTypes, ChannelTypes, primaryVars, workerVars
<1>2. CASE Next
    BY <1>2, TypesPrimary, TypesWorker, TypesPrimaryReads, TypesWorkerReads, TypesProcess
       DEF Next
<1> QED BY <1>1, <1>2

-----------------------------------------------------------------------------
(***************************************************************************)
(* Which steps change what.  A limiter is published by Create and by no    *)
(* other step.                                                             *)
(***************************************************************************)

\* A step publishes a limiter, or leaves the primary's maps as they are.
LEMMA PrimaryFrame ==
    ASSUME [Next]_vars
    PROVE  \/ \E a \in Apis, c \in PrimaryConfigs : Create(a, c)
           \/ /\ UNCHANGED <<primaryById, primaryByNumber>>
              /\ \/ UNCHANGED counter
                 \/ Generate
<1> USE DEF primaryVars, workerVars, vars
<1>1. ASSUME NEW a \in Apis, NEW c \in PrimaryConfigs, ReturnExisting(a, c) \/ AllocationFails(a, c)
      PROVE  UNCHANGED <<primaryById, primaryByNumber>> /\ (UNCHANGED counter \/ Generate)
    BY <1>1 DEF ReturnExisting, AllocationFails
<1>2. ASSUME NEW w \in Workers, NEW a \in Apis,
             \/ \E c \in WorkerConfigs : ReturnExistingAtWorker(w, a, c) \/ CreateAtWorker(w, a, c)
             \/ Run(w, a) \/ PermitTimeout(w, a) \/ CallSettles(w, a)
      PROVE  UNCHANGED <<primaryById, primaryByNumber, counter>>
    BY <1>2 DEF ReturnExistingAtWorker, CreateAtWorker, Run, PermitTimeout, CallSettles
<1>3. ASSUME NEW w \in Workers, PrimaryReads(w) \/ WorkerReads(w)
      PROVE  UNCHANGED <<primaryById, primaryByNumber, counter>>
    BY <1>3 DEF PrimaryReads, WorkerReads, AnswerAsk, HandleAcquire, HandleRelease,
                HandleAnnouncement, HandleGrant
<1>4. ASSUME NEW w \in Workers, Fork(w) \/ Exits(w) \/ ExitEvent(w)
      PROVE  UNCHANGED <<primaryById, primaryByNumber, counter>>
    BY <1>4 DEF Fork, Exits, ExitEvent
<1> QED BY <1>1, <1>2, <1>3, <1>4 DEF Next

\* A worker's maps change when it creates a limiter or handles an announcement.
LEMMA WorkerFrame ==
    ASSUME [Next]_vars
    PROVE  \/ \E w \in Workers, a \in Apis, c \in WorkerConfigs : CreateAtWorker(w, a, c)
           \/ \E w \in Workers : HandleAnnouncement(w)
           \/ UNCHANGED <<workerById, workerByNumber, number, complete>>
<1> USE DEF primaryVars, workerVars, vars
<1>1. ASSUME NEW a \in Apis, NEW c \in PrimaryConfigs,
             ReturnExisting(a, c) \/ AllocationFails(a, c) \/ Create(a, c)
      PROVE  UNCHANGED <<workerById, workerByNumber, number, complete>>
    BY <1>1 DEF ReturnExisting, AllocationFails, Create
<1>2. ASSUME NEW w \in Workers, NEW a \in Apis,
             \/ \E c \in WorkerConfigs : ReturnExistingAtWorker(w, a, c)
             \/ Run(w, a) \/ PermitTimeout(w, a) \/ CallSettles(w, a)
      PROVE  UNCHANGED <<workerById, workerByNumber, number, complete>>
    BY <1>2 DEF ReturnExistingAtWorker, Run, PermitTimeout, CallSettles
<1>3. ASSUME NEW w \in Workers, PrimaryReads(w) \/ HandleGrant(w)
      PROVE  UNCHANGED <<workerById, workerByNumber, number, complete>>
    BY <1>3 DEF PrimaryReads, AnswerAsk, HandleAcquire, HandleRelease, HandleGrant
<1>4. ASSUME NEW w \in Workers, Fork(w) \/ Exits(w) \/ ExitEvent(w)
      PROVE  UNCHANGED <<workerById, workerByNumber, number, complete>>
    BY <1>4 DEF Fork, Exits, ExitEvent
<1> QED BY <1>1, <1>2, <1>3, <1>4 DEF Next, WorkerReads

\* What Create does to the primary's maps.
LEMMA CreateEffect ==
    ASSUME RegistriesInv, NEW a \in Apis, NEW c \in PrimaryConfigs, Create(a, c)
    PROVE  /\ primaryById[a] = NoEntry
           /\ counter' \in Numbers /\ counter' > counter
           /\ primaryById'[a] = [config |-> ConfigOf(c), number |-> counter']
           /\ primaryById'[a] \in Entry /\ primaryById'[a] # NoEntry
           /\ \A b \in Apis : b # a => primaryById'[b] = primaryById[b]
           /\ primaryByNumber[counter'] = NoApi /\ primaryByNumber'[counter'] = a
           /\ \A n \in Numbers : n # counter' => primaryByNumber'[n] = primaryByNumber[n]
           /\ c.mode \in Mode /\ primaryById'[a].config.mode = c.mode
           /\ Announce(a, c.mode, counter')
<1>1. PrimaryTypes /\ RoutesAgree
    BY DEF RegistriesInv, Types
<1>2. primaryById[a] = NoEntry /\ counter' \in Numbers /\ counter' > counter
    BY <1>1, GenerateEffect DEF Create
<1>3. /\ [config |-> ConfigOf(c), number |-> counter'] \in Entry
      /\ c.mode \in Mode /\ ConfigOf(c).mode = c.mode
    BY <1>2, EntryMade DEF Create
<1>4. primaryByNumber[counter'] = NoApi
    BY <1>1, <1>2 DEF RoutesAgree
<1>5. /\ primaryById'[a] = [config |-> ConfigOf(c), number |-> counter']
      /\ \A b \in Apis : b # a => primaryById'[b] = primaryById[b]
    BY <1>1 DEF Create, RegisterByProviderId, PrimaryTypes
<1>6. /\ primaryByNumber'[counter'] = a
      /\ \A n \in Numbers : n # counter' => primaryByNumber'[n] = primaryByNumber[n]
    BY <1>1, <1>2 DEF Create, RegisterByUniqueNumber, PrimaryTypes
<1>7. primaryById'[a].config.mode = c.mode
    BY <1>3, <1>5
<1> QED BY <1>2, <1>3, <1>4, <1>5, <1>6, <1>7, EntriesThere DEF Create

-----------------------------------------------------------------------------
(***************************************************************************)
(* The routes.                                                             *)
(***************************************************************************)

\* Publishing a limiter extends the primary's maps by one route.
LEMMA RoutesCreate ==
    ASSUME RegistriesInv, NEW a \in Apis, NEW c \in PrimaryConfigs, Create(a, c)
    PROVE  RoutesAgree' /\ RoutesLead'
<1> USE ConstantsAssumption
<1>0. /\ primaryById[a] = NoEntry
      /\ counter' \in Numbers /\ counter' > counter /\ counter \in 0..MaxNumber
      /\ primaryById'[a].number = counter' /\ primaryById'[a] # NoEntry
      /\ \A b \in Apis : b # a => primaryById'[b] = primaryById[b]
      /\ primaryByNumber[counter'] = NoApi /\ primaryByNumber'[counter'] = a
      /\ \A n \in Numbers : n # counter' => primaryByNumber'[n] = primaryByNumber[n]
  <2>1. counter \in 0..MaxNumber
      BY DEF RegistriesInv, Types, PrimaryTypes
  <2>2. primaryById'[a].number = counter'
    <3>1. primaryById'[a] = [config |-> ConfigOf(c), number |-> counter']
        BY CreateEffect
    <3> QED BY <3>1
  <2> QED BY CreateEffect, <2>1, <2>2
<1>1. /\ RoutesAgree /\ RoutesLead
      /\ UNCHANGED <<workerById, workerByNumber, number>>
    BY DEF RegistriesInv, Create, workerVars
<1>2. ASSUME NEW b \in Apis, NEW n \in Numbers
      PROVE  primaryByNumber'[n] = b <=> primaryById'[b] # NoEntry /\ primaryById'[b].number = n
  <2>1. CASE b = a
      BY <1>0, <1>1, <2>1 DEF RoutesAgree
  <2>2. CASE b # a
      BY <1>0, <1>1, <2>2 DEF RoutesAgree
  <2> QED BY <2>1, <2>2
<1>3. ASSUME NEW n \in Numbers, n > counter' PROVE primaryByNumber'[n] = NoApi
  <2>1. n > counter /\ n # counter'
      BY <1>0, <1>3 DEF Numbers
  <2> QED BY <1>0, <1>1, <2>1 DEF RoutesAgree
<1>4. ASSUME NEW w \in Workers, NEW b \in Apis, NEW n \in Numbers, workerByNumber[w][n] = b
      PROVE  /\ number[w][b] = n /\ primaryByNumber'[n] = b
             /\ workerById[w][b].mode = primaryById'[b].config.mode
  <2>1. /\ number[w][b] = n /\ primaryByNumber[n] = b
        /\ workerById[w][b].mode = primaryById[b].config.mode
      BY <1>0, <1>1, <1>4 DEF RoutesAgree
  <2>2. n # counter' /\ b # a
      BY <1>0, <1>1, <2>1 DEF RoutesAgree
  <2> QED BY <1>0, <2>1, <2>2
<1>5. RoutesAgree'
    BY <1>1, <1>2, <1>3, <1>4 DEF RoutesAgree
<1>6. RoutesLead'
    BY <1>1 DEF RoutesLead
<1> QED BY <1>5, <1>6

\* A worker's new limiter has no route yet.
LEMMA RoutesCreateAtWorker ==
    ASSUME RegistriesInv, NEW w \in Workers, NEW a \in Apis, NEW c \in WorkerConfigs,
           CreateAtWorker(w, a, c)
    PROVE  RoutesAgree' /\ RoutesLead'
<1>1. /\ RoutesAgree /\ RoutesLead /\ WorkerTypes
      /\ workerById[w][a] = NoEntry /\ c # NoEntry
      /\ UNCHANGED <<counter, primaryById, primaryByNumber, workerByNumber, number>>
    BY ConstantsAssumption DEF RegistriesInv, Types, CreateAtWorker, primaryVars
<1>2. \A v \in Workers, b \in Apis :
          workerById'[v][b] = IF v = w /\ b = a THEN c ELSE workerById[v][b]
    BY <1>1 DEF CreateAtWorker, WorkerTypes
<1>3. ASSUME NEW v \in Workers, NEW b \in Apis, NEW n \in Numbers, workerByNumber[v][n] = b
      PROVE  workerById'[v][b] = workerById[v][b]
  <2>1. workerById[v][b] # NoEntry
      BY <1>1, <1>3, ConstantsAssumption DEF RoutesLead
  <2> QED BY <1>1, <1>2, <2>1
<1>4. RoutesAgree'
    BY <1>1, <1>3 DEF RoutesAgree
<1>5. ASSUME NEW v \in Workers, NEW n \in Numbers, workerByNumber[v][n] # NoApi
      PROVE  workerById'[v][workerByNumber[v][n]] # NoEntry
  <2>1. workerByNumber[v][n] \in Apis
      BY <1>1, <1>5 DEF WorkerTypes
  <2> QED BY <1>1, <1>3, <1>5, <2>1 DEF RoutesLead
<1> QED BY <1>1, <1>4, <1>5 DEF RoutesLead

\* An announcement that matches adds the route the primary has.
LEMMA RoutesAnnouncement ==
    ASSUME RegistriesInv, NEW w \in Workers, HandleAnnouncement(w)
    PROVE  RoutesAgree' /\ RoutesLead'
<1>1. /\ RoutesAgree /\ RoutesLead /\ WorkerTypes /\ Types /\ Announced
      /\ UNCHANGED <<counter, primaryById, primaryByNumber, workerById>>
    BY DEF RegistriesInv, Types, HandleAnnouncement, primaryVars
<1>2. PICK m \in MessageDown :
          /\ m \in Elements(toWorker[w]) /\ m.type = "handshake"
          /\ m.api \in Apis /\ m.number \in Numbers
          /\ Ignored(w, m) \/ Mismatch(w, m) \/ Match(w, m)
    BY <1>1, AnnouncementEffect
<1>3. CASE Ignored(w, m) \/ Mismatch(w, m)
    BY <1>1, <1>3 DEF Ignored, Mismatch, RoutesAgree, RoutesLead
<1>4. CASE Match(w, m)
  <2>1. /\ primaryById[m.api] # NoEntry /\ m.number = primaryById[m.api].number
        /\ m.mode = primaryById[m.api].config.mode
      BY <1>1, <1>2 DEF Announced
  <2>2. primaryByNumber[m.number] = m.api
      BY <1>1, <1>2, <2>1 DEF RoutesAgree
  <2>3. \A v \in Workers, n \in Numbers :
            workerByNumber'[v][n] = IF v = w /\ n = m.number THEN m.api ELSE workerByNumber[v][n]
      BY <1>1, <1>2, <1>4 DEF Match, WorkerTypes
  <2>4. \A v \in Workers, b \in Apis :
            number'[v][b] = IF v = w /\ b = m.api THEN m.number ELSE number[v][b]
      BY <1>1, <1>2, <1>4 DEF Match, WorkerTypes
  <2>5. ASSUME NEW v \in Workers, NEW b \in Apis, NEW n \in Numbers, workerByNumber'[v][n] = b
        PROVE  /\ number'[v][b] = n /\ primaryByNumber[n] = b
               /\ workerById[v][b].mode = primaryById[b].config.mode
    <3>1. CASE v = w /\ n = m.number
      <4>1. b = m.api
          BY <2>3, <2>5, <3>1
      <4>2. number'[v][b] = n
          BY <1>2, <2>4, <3>1, <4>1
      <4>3. workerById[w][m.api].mode = primaryById[m.api].config.mode
          BY <1>4, <2>1 DEF Match
      <4> QED BY <2>2, <3>1, <4>1, <4>2, <4>3
    <3>2. CASE ~(v = w /\ n = m.number)
      <4>1. /\ number[v][b] = n /\ primaryByNumber[n] = b
            /\ workerById[v][b].mode = primaryById[b].config.mode
          BY <1>1, <2>3, <2>5, <3>2 DEF RoutesAgree
      <4>2. ~(v = w /\ b = m.api)
          BY <1>1, <2>1, <3>2, <4>1 DEF RoutesAgree
      <4> QED BY <2>4, <4>1, <4>2
    <3> QED BY <3>1, <3>2
  <2>6. RoutesAgree'
      BY <1>1, <2>5 DEF RoutesAgree
  <2>7. RoutesLead'
      BY <1>1, <1>2, <1>4, <2>3 DEF RoutesLead, Match
  <2> QED BY <2>6, <2>7
<1> QED BY <1>2, <1>3, <1>4

\* Every step keeps the routes.
LEMMA RoutesStep ==
    ASSUME RegistriesInv, [Next]_vars
    PROVE  RoutesAgree' /\ RoutesLead'
<1>1. CASE \E a \in Apis, c \in PrimaryConfigs : Create(a, c)
    BY <1>1, RoutesCreate
<1>2. CASE \E w \in Workers, a \in Apis, c \in WorkerConfigs : CreateAtWorker(w, a, c)
    BY <1>2, RoutesCreateAtWorker
<1>3. CASE \E w \in Workers : HandleAnnouncement(w)
    BY <1>3, RoutesAnnouncement
<1>4. CASE /\ UNCHANGED <<primaryById, primaryByNumber>>
           /\ UNCHANGED counter \/ Generate
           /\ UNCHANGED <<workerById, workerByNumber, number, complete>>
  <2>1. RoutesAgree /\ RoutesLead /\ PrimaryTypes
      BY DEF RegistriesInv, Types
  <2>2. counter' >= counter /\ counter' \in Int
      BY <1>4, <2>1, GenerateEffect, ConstantsAssumption DEF PrimaryTypes, Numbers
  <2>3. ASSUME NEW n \in Numbers, n > counter' PROVE primaryByNumber[n] = NoApi
      BY <2>1, <2>2, <2>3 DEF RoutesAgree, PrimaryTypes, Numbers
  <2> QED BY <1>4, <2>1, <2>3 DEF RoutesAgree, RoutesLead
<1> QED BY <1>1, <1>2, <1>3, <1>4, PrimaryFrame, WorkerFrame

-----------------------------------------------------------------------------
(***************************************************************************)
(* The announcements on their way.                                         *)
(***************************************************************************)

\* What is on its way to a worker is an announcement or a grant.
LEMMA DownTyped ==
    ASSUME ChannelTypes, NEW w \in Workers
    PROVE  Elements(toWorker[w]) \subseteq MessageDown
<1>1. toWorker[w] \in Seq(MessageDown)
    BY DEF ChannelTypes
<1> QED BY <1>1, ElementsTyped

\* A published entry never changes.
LEMMA EntriesStand ==
    ASSUME RegistriesInv, [Next]_vars, NEW a \in Apis, primaryById[a] # NoEntry
    PROVE  primaryById'[a] = primaryById[a]
<1>1. CASE \E b \in Apis, c \in PrimaryConfigs : Create(b, c)
  <2>1. PICK b \in Apis, c \in PrimaryConfigs : Create(b, c)
      BY <1>1
  <2>2. primaryById[b] = NoEntry /\ \A d \in Apis : d # b => primaryById'[d] = primaryById[d]
      BY <2>1, CreateEffect
  <2> QED BY <2>2
<1>2. CASE UNCHANGED primaryById
    BY <1>2
<1> QED BY <1>1, <1>2, PrimaryFrame

\* An announcement that agrees with the primary's registry.
Correct(m) ==
    m.type = "handshake" =>
        /\ primaryById[m.api] # NoEntry
        /\ m.number = primaryById[m.api].number
        /\ m.mode = primaryById[m.api].config.mode

\* A new announcement is made of the registry's entry.
LEMMA NewIsCorrect ==
    ASSUME RegistriesInv, [Next]_vars, NEW v \in Workers,
           NEW m \in Elements(toWorker'[v]), m \notin Elements(toWorker[v])
    PROVE  Correct(m)'
<1> USE DEF primaryVars, workerVars, vars
<1>1. Types /\ ChannelTypes
    BY DEF RegistriesInv, Types
<1>2. ASSUME NEW a \in Apis, NEW c \in PrimaryConfigs, Create(a, c) PROVE Correct(m)'
  <2>1. /\ c.mode \in Mode /\ counter' \in Numbers /\ Announce(a, c.mode, counter')
        /\ primaryById'[a] = [config |-> ConfigOf(c), number |-> counter']
        /\ primaryById'[a] # NoEntry /\ primaryById'[a].config.mode = c.mode
      BY <1>2, CreateEffect
  <2>2. m = Announcement(a, c.mode, counter')
      BY <1>1, <2>1, AnnounceDown
  <2>3. m.api = a /\ m.mode = c.mode /\ m.number = counter'
      BY <2>2 DEF Announcement
  <2>4. primaryById'[a].number = counter'
      BY <2>1
  <2> QED BY <2>1, <2>3, <2>4 DEF Correct
<1>3. ASSUME NEW w \in Workers, AnswerAsk(w) PROVE Correct(m)'
  <2> DEFINE a == Head(toPrimary[w]).api
  <2>1. a \in Apis
      BY <1>1, <1>3, Heads, MessageFields DEF AnswerAsk, FromWorker
  <2>2. CASE primaryById[a] # NoEntry
    <3>1. primaryById[a] \in Entry
        BY <1>1, <2>1, <2>2 DEF Types, PrimaryTypes
    <3>2. Announcement(a, primaryById[a].config.mode, primaryById[a].number) \in MessageDown
        BY <2>1, <3>1, MessageForms DEF Entry
    <3>3. Send(w, Announcement(a, primaryById[a].config.mode, primaryById[a].number))
        BY <1>3, <2>2 DEF AnswerAsk
    <3>4. m = Announcement(a, primaryById[a].config.mode, primaryById[a].number)
        BY <1>1, <3>2, <3>3, SendDown
    <3>5. UNCHANGED primaryById
        BY <1>3 DEF AnswerAsk
    <3>6. /\ m.api = a /\ m.mode = primaryById[a].config.mode /\ m.number = primaryById[a].number
        BY <3>4 DEF Announcement
    <3> QED BY <2>2, <3>5, <3>6 DEF Correct
  <2>3. CASE primaryById[a] = NoEntry
      BY <1>3, <2>3 DEF AnswerAsk
  <2> QED BY <2>2, <2>3
<1>4. ASSUME NEW w \in Workers, HandleAcquire(w) PROVE Correct(m)'
  <2> DEFINE n == Head(toPrimary[w]).number
  <2>1. n \in Numbers
      BY <1>1, <1>4, Heads, MessageFields DEF HandleAcquire, FromWorker
  <2>2. Send(w, Hot("grant", n)) \/ UNCHANGED toWorker
      BY <1>4 DEF HandleAcquire
  <2>3. m = Hot("grant", n)
      BY <1>1, <2>1, <2>2, MessageForms, SendDown
  <2>4. m.type = "grant"
      BY <2>3 DEF Hot
  <2> QED BY <2>4 DEF Correct
<1>5. ASSUME NEW w \in Workers, WorkerReads(w) PROVE FALSE
  <2>1. toWorker[w] # <<>> /\ toWorker' = [toWorker EXCEPT ![w] = Tail(@)]
      BY <1>5 DEF WorkerReads, HandleAnnouncement, HandleGrant, FromPrimary
  <2> QED BY <1>1, <2>1, ReadDown
<1>6. ASSUME NEW w \in Workers, Exits(w) PROVE FALSE
  <2>1. toWorker'[v] = toWorker[v] \/ toWorker'[v] = <<>>
      BY <1>1, <1>6 DEF Exits, ChannelTypes
  <2> QED BY <2>1, ElementsEmpty
<1>7. CASE UNCHANGED toWorker
    BY <1>7
<1>8. ASSUME NEW a \in Apis, NEW c \in PrimaryConfigs, ReturnExisting(a, c) \/ AllocationFails(a, c)
      PROVE  UNCHANGED toWorker
    BY <1>8 DEF ReturnExisting, AllocationFails
<1>9. ASSUME NEW w \in Workers, NEW a \in Apis,
             \/ \E c \in WorkerConfigs : ReturnExistingAtWorker(w, a, c) \/ CreateAtWorker(w, a, c)
             \/ Run(w, a) \/ PermitTimeout(w, a) \/ CallSettles(w, a)
      PROVE  UNCHANGED toWorker
    BY <1>9 DEF ReturnExistingAtWorker, CreateAtWorker, Run, PermitTimeout, CallSettles
<1>10. ASSUME NEW w \in Workers, HandleRelease(w) \/ Fork(w) \/ ExitEvent(w)
       PROVE  UNCHANGED toWorker
    BY <1>10 DEF HandleRelease, Fork, ExitEvent
<1> QED BY <1>2, <1>3, <1>4, <1>5, <1>6, <1>7, <1>8, <1>9, <1>10 DEF Next, PrimaryReads

\* Every step keeps the announcements correct.
LEMMA AnnouncedStep ==
    ASSUME RegistriesInv, [Next]_vars
    PROVE  Announced'
<1> SUFFICES ASSUME NEW v \in Workers, NEW m \in Elements(toWorker'[v])
             PROVE  Correct(m)'
    BY DEF Announced, Correct
<1>1. CASE m \in Elements(toWorker[v])
  <2>1. m \in MessageDown /\ Correct(m)
      BY <1>1, DownTyped DEF RegistriesInv, Types, Announced, Correct
  <2>2. CASE m.type = "handshake"
    <3>1. m.api \in Apis /\ primaryById[m.api] # NoEntry
        BY <2>1, <2>2, MessageFields DEF Correct
    <3>2. primaryById'[m.api] = primaryById[m.api]
        BY <3>1, EntriesStand
    <3> QED BY <2>1, <3>2 DEF Correct
  <2>3. CASE m.type # "handshake"
      BY <2>3 DEF Correct
  <2> QED BY <2>2, <2>3
<1>2. CASE m \notin Elements(toWorker[v])
    BY <1>2, NewIsCorrect
<1> QED BY <1>1, <1>2

-----------------------------------------------------------------------------
(***************************************************************************)
(* The permits.                                                            *)
(***************************************************************************)

\* A published semaphore stays one.
LEMMA SemaphoreStands ==
    ASSUME RegistriesInv, [Next]_vars, NEW n \in Numbers, Semaphore(n)
    PROVE  Semaphore(n)'
<1> DEFINE a == primaryByNumber[n]
<1>1. a \in Apis
    BY DEF RegistriesInv, Types, PrimaryTypes, Semaphore
<1>2. primaryById[a] # NoEntry /\ primaryById[a].number = n
    BY <1>1 DEF RegistriesInv, RoutesAgree
<1>3. primaryById'[a] = primaryById[a]
    BY <1>1, <1>2, EntriesStand
<1>4. primaryByNumber'[n] = a
    BY <1>1, <1>2, <1>3, RoutesStep DEF RoutesAgree
<1> QED BY <1>3, <1>4 DEF Semaphore

\* Permits and processes change in five steps.
LEMMA PermitFrame ==
    ASSUME [Next]_vars
    PROVE  \/ \E w \in Workers : HandleAcquire(w) \/ HandleRelease(w)
           \/ \E w \in Workers : Fork(w) \/ Exits(w) \/ ExitEvent(w)
           \/ UNCHANGED <<leased, proc>>
<1> USE DEF vars
<1>1. ASSUME NEW a \in Apis, NEW c \in PrimaryConfigs,
             ReturnExisting(a, c) \/ AllocationFails(a, c) \/ Create(a, c)
      PROVE  UNCHANGED <<leased, proc>>
    BY <1>1 DEF ReturnExisting, AllocationFails, Create
<1>2. ASSUME NEW w \in Workers, NEW a \in Apis,
             \/ \E c \in WorkerConfigs : ReturnExistingAtWorker(w, a, c) \/ CreateAtWorker(w, a, c)
             \/ Run(w, a) \/ PermitTimeout(w, a) \/ CallSettles(w, a)
      PROVE  UNCHANGED <<leased, proc>>
    BY <1>2 DEF ReturnExistingAtWorker, CreateAtWorker, Run, PermitTimeout, CallSettles
<1>3. ASSUME NEW w \in Workers, AnswerAsk(w) \/ WorkerReads(w)
      PROVE  UNCHANGED <<leased, proc>>
    BY <1>3 DEF WorkerReads, AnswerAsk, HandleAnnouncement, HandleGrant
<1> QED BY <1>1, <1>2, <1>3 DEF Next, PrimaryReads

\* Every step leases from semaphores only, and to no worker whose exit was handled.
LEMMA LeasesStep ==
    ASSUME RegistriesInv, [Next]_vars
    PROVE  LeasedBySemaphores' /\ ReapedHoldsNothing'
<1>1. LeasedBySemaphores /\ ReapedHoldsNothing /\ Types
    BY DEF RegistriesInv
<1>2. ASSUME NEW w \in Workers, HandleAcquire(w)
      PROVE  LeasedBySemaphores' /\ ReapedHoldsNothing'
  <2> DEFINE k == Head(toPrimary[w]).number
  <2>1. UNCHANGED proc
      BY <1>2 DEF HandleAcquire
  <2>2. ASSUME NEW n \in Numbers, NEW v \in Workers, <<n, v>> \in leased'
        PROVE  Semaphore(n) /\ proc[v] # "reaped"
    <3>1. CASE <<n, v>> \in leased
        BY <1>1, <3>1 DEF LeasedBySemaphores, ReapedHoldsNothing
    <3>2. CASE <<n, v>> \notin leased
      <4>1. n = k /\ v = w /\ Semaphore(k) /\ proc[w] # "reaped"
          BY <1>2, <2>2, <3>2 DEF HandleAcquire
      <4> QED BY <4>1
    <3> QED BY <3>1, <3>2
  <2> QED BY <2>1, <2>2, SemaphoreStands DEF LeasedBySemaphores, ReapedHoldsNothing
<1>3. ASSUME NEW w \in Workers, HandleRelease(w)
      PROVE  LeasedBySemaphores' /\ ReapedHoldsNothing'
  <2>1. leased' \subseteq leased /\ UNCHANGED proc
      BY <1>3 DEF HandleRelease
  <2> QED BY <1>1, <2>1, SemaphoreStands DEF LeasedBySemaphores, ReapedHoldsNothing
<1>4. ASSUME NEW w \in Workers, ExitEvent(w)
      PROVE  LeasedBySemaphores' /\ ReapedHoldsNothing'
  <2>1. /\ leased' = leased \ {<<n, w>> : n \in {n \in Numbers : Semaphore(n)}}
        /\ proc' = [proc EXCEPT ![w] = "reaped"]
      BY <1>4 DEF ExitEvent
  <2>2. LeasedBySemaphores'
      BY <1>1, <2>1, SemaphoreStands DEF LeasedBySemaphores
  <2>3. ASSUME NEW n \in Numbers, NEW v \in Workers, proc'[v] = "reaped" PROVE <<n, v>> \notin leased'
    <3>1. CASE v = w
        BY <1>1, <2>1, <3>1 DEF LeasedBySemaphores
    <3>2. CASE v # w
      <4>1. proc[v] = "reaped"
          BY <1>1, <2>1, <2>3, <3>2 DEF Types, WorkerTypes
      <4> QED BY <1>1, <2>1, <4>1 DEF ReapedHoldsNothing
    <3> QED BY <3>1, <3>2
  <2> QED BY <2>2, <2>3 DEF ReapedHoldsNothing
<1>5. ASSUME NEW w \in Workers, Fork(w) \/ Exits(w)
      PROVE  LeasedBySemaphores' /\ ReapedHoldsNothing'
  <2>1. UNCHANGED leased /\ \A v \in Workers : proc'[v] = "reaped" => proc[v] = "reaped"
      BY <1>1, <1>5 DEF Fork, Exits, Types, WorkerTypes
  <2> QED BY <1>1, <2>1, SemaphoreStands DEF LeasedBySemaphores, ReapedHoldsNothing
<1>6. CASE UNCHANGED <<leased, proc>>
    BY <1>1, <1>6, SemaphoreStands DEF LeasedBySemaphores, ReapedHoldsNothing
<1> QED BY <1>2, <1>3, <1>4, <1>5, <1>6, PermitFrame

-----------------------------------------------------------------------------
(***************************************************************************)
(* The limiters of the workers and what the factories return.              *)
(***************************************************************************)

\* Only a worker that is up makes a limiter.
LEMMA AbsentStep ==
    ASSUME RegistriesInv, [Next]_vars
    PROVE  AbsentIsEmpty'
<1>1. AbsentIsEmpty /\ WorkerTypes
    BY DEF RegistriesInv, Types
<1>2. ASSUME NEW v \in Workers, proc'[v] = "absent"
      PROVE  proc[v] = "absent"
  <2>1. ASSUME NEW w \in Workers, Fork(w) \/ Exits(w) \/ ExitEvent(w)
        PROVE  proc[v] = "absent"
      BY <1>1, <1>2, <2>1 DEF Fork, Exits, ExitEvent, WorkerTypes
  <2>2. ASSUME NEW w \in Workers, HandleAcquire(w) \/ HandleRelease(w)
        PROVE  UNCHANGED proc
      BY <2>2 DEF HandleAcquire, HandleRelease
  <2> QED BY <1>2, <2>1, <2>2, PermitFrame
<1>3. ASSUME NEW v \in Workers, NEW b \in Apis, workerById'[v][b] # workerById[v][b]
      PROVE  proc[v] # "absent"
  <2>1. ASSUME NEW w \in Workers, NEW a \in Apis, NEW c \in WorkerConfigs, CreateAtWorker(w, a, c)
        PROVE  proc[v] # "absent"
    <3>1. workerById' = [workerById EXCEPT ![w][a] = c] /\ proc[w] = "up"
        BY <2>1 DEF CreateAtWorker, Up
    <3>2. v = w
        BY <1>1, <1>3, <3>1 DEF WorkerTypes
    <3> QED BY <3>1, <3>2
  <2>2. ASSUME NEW w \in Workers, HandleAnnouncement(w) PROVE UNCHANGED workerById
      BY <2>2 DEF HandleAnnouncement
  <2> QED BY <1>3, <2>1, <2>2, WorkerFrame
<1> QED BY <1>1, <1>2, <1>3 DEF AbsentIsEmpty

\* What the factories return stands in the registries.
LEMMA HandlesStep ==
    ASSUME RegistriesInv, [Next]_vars
    PROVE  HandlesStand'
<1> USE DEF primaryVars, workerVars, vars
<1>1. HandlesStand /\ Types /\ PrimaryTypes /\ WorkerTypes
    BY DEF RegistriesInv, Types
<1>2. ASSUME NEW h \in primaryHandles'
      PROVE  /\ h[1] \in Apis /\ primaryById'[h[1]] \in Entry
             /\ primaryById'[h[1]] = [config |-> h[2], number |-> h[3]]
  <2>1. CASE h \in primaryHandles
    <3>1. /\ h[1] \in Apis /\ primaryById[h[1]] \in Entry
          /\ primaryById[h[1]] = [config |-> h[2], number |-> h[3]]
        BY <1>1, <2>1 DEF HandlesStand
    <3>2. primaryById'[h[1]] = primaryById[h[1]]
        BY <3>1, EntriesStand, EntriesThere
    <3> QED BY <3>1, <3>2
  <2>2. ASSUME NEW a \in Apis, NEW c \in PrimaryConfigs, ReturnExisting(a, c), h \notin primaryHandles
        PROVE  /\ h[1] \in Apis /\ primaryById'[h[1]] \in Entry
               /\ primaryById'[h[1]] = [config |-> h[2], number |-> h[3]]
    <3>1. /\ h = <<a, ConfigOf(c), primaryById[a].number>> /\ primaryById[a].config = ConfigOf(c)
          /\ primaryById[a] # NoEntry /\ UNCHANGED primaryById
        BY <2>2 DEF ReturnExisting, Conflicts
    <3>2. h[1] = a /\ h[2] = ConfigOf(c) /\ h[3] = primaryById[a].number
        BY <3>1
    <3>3. primaryById[a] \in Entry
        BY <1>1, <3>1 DEF PrimaryTypes
    <3>4. primaryById[a] = [config |-> primaryById[a].config, number |-> primaryById[a].number]
        BY <3>3 DEF Entry
    <3> QED BY <3>1, <3>2, <3>3, <3>4
  <2>3. ASSUME NEW a \in Apis, NEW c \in PrimaryConfigs, Create(a, c), h \notin primaryHandles
        PROVE  /\ h[1] \in Apis /\ primaryById'[h[1]] \in Entry
               /\ primaryById'[h[1]] = [config |-> h[2], number |-> h[3]]
    <3>1. h = <<a, ConfigOf(c), counter'>>
        BY <2>3 DEF Create
    <3>2. h[1] = a /\ h[2] = ConfigOf(c) /\ h[3] = counter'
        BY <3>1
    <3> QED BY <2>3, <3>2, CreateEffect
  <2>4. ASSUME NEW w \in Workers, NEW a \in Apis,
               \/ \E c \in WorkerConfigs : ReturnExistingAtWorker(w, a, c) \/ CreateAtWorker(w, a, c)
               \/ Run(w, a) \/ PermitTimeout(w, a) \/ CallSettles(w, a)
        PROVE  UNCHANGED primaryHandles
      BY <2>4 DEF ReturnExistingAtWorker, CreateAtWorker, Run, PermitTimeout, CallSettles
  <2>5. ASSUME NEW w \in Workers, PrimaryReads(w) \/ WorkerReads(w) \/ Fork(w) \/ Exits(w) \/ ExitEvent(w)
        PROVE  UNCHANGED primaryHandles
      BY <2>5 DEF PrimaryReads, WorkerReads, AnswerAsk, HandleAcquire, HandleRelease,
                  HandleAnnouncement, HandleGrant, Fork, Exits, ExitEvent
  <2>6. ASSUME NEW a \in Apis, NEW c \in PrimaryConfigs, AllocationFails(a, c)
        PROVE  UNCHANGED primaryHandles
      BY <2>6 DEF AllocationFails
  <2> QED BY <1>2, <2>1, <2>2, <2>3, <2>4, <2>5, <2>6 DEF Next
<1>3. ASSUME NEW h \in workerHandles'
      PROVE  /\ h[1] \in Workers /\ h[2] \in Apis /\ workerById'[h[1]][h[2]] # NoEntry
             /\ workerById'[h[1]][h[2]] = h[3] /\ h[3] = h[4]
  <2>1. ASSUME NEW w \in Workers, NEW a \in Apis, NEW c \in WorkerConfigs,
               ReturnExistingAtWorker(w, a, c)
        PROVE  /\ h[1] \in Workers /\ h[2] \in Apis /\ workerById'[h[1]][h[2]] # NoEntry
               /\ workerById'[h[1]][h[2]] = h[3] /\ h[3] = h[4]
    <3>1. UNCHANGED workerById /\ workerById[w][a] # NoEntry
        BY <2>1 DEF ReturnExistingAtWorker
    <3>2. CASE h \in workerHandles
        BY <1>1, <3>1, <3>2 DEF HandlesStand
    <3>3. CASE h \notin workerHandles
      <4>1. h = <<w, a, c, workerById[w][a]>> /\ workerById[w][a] = c
          BY <1>3, <2>1, <3>3 DEF ReturnExistingAtWorker
      <4> QED BY <3>1, <4>1
    <3> QED BY <3>2, <3>3
  <2>2. ASSUME NEW w \in Workers, NEW a \in Apis, NEW c \in WorkerConfigs, CreateAtWorker(w, a, c)
        PROVE  /\ h[1] \in Workers /\ h[2] \in Apis /\ workerById'[h[1]][h[2]] # NoEntry
               /\ workerById'[h[1]][h[2]] = h[3] /\ h[3] = h[4]
    <3>1. /\ workerById[w][a] = NoEntry /\ c # NoEntry
          /\ \A v \in Workers, b \in Apis :
                workerById'[v][b] = IF v = w /\ b = a THEN c ELSE workerById[v][b]
        BY <1>1, <2>2, ConstantsAssumption DEF CreateAtWorker, WorkerTypes
    <3>2. CASE h \in workerHandles
        BY <1>1, <3>1, <3>2 DEF HandlesStand
    <3>3. CASE h \notin workerHandles
      <4>1. h = <<w, a, c, c>>
          BY <1>3, <2>2, <3>3 DEF CreateAtWorker
      <4> QED BY <3>1, <4>1
    <3> QED BY <3>2, <3>3
  <2>3. ASSUME UNCHANGED <<workerHandles, workerById>>
        PROVE  /\ h[1] \in Workers /\ h[2] \in Apis /\ workerById'[h[1]][h[2]] # NoEntry
               /\ workerById'[h[1]][h[2]] = h[3] /\ h[3] = h[4]
      BY <1>1, <1>3, <2>3 DEF HandlesStand
  <2>4. ASSUME NEW w \in Workers, NEW a \in Apis,
               Run(w, a) \/ PermitTimeout(w, a) \/ CallSettles(w, a)
        PROVE  UNCHANGED <<workerHandles, workerById>>
      BY <2>4 DEF Run, PermitTimeout, CallSettles
  <2>5. ASSUME NEW w \in Workers, PrimaryReads(w) \/ WorkerReads(w) \/ Fork(w) \/ Exits(w) \/ ExitEvent(w)
        PROVE  UNCHANGED <<workerHandles, workerById>>
      BY <2>5 DEF PrimaryReads, WorkerReads, AnswerAsk, HandleAcquire, HandleRelease,
                  HandleAnnouncement, HandleGrant, Fork, Exits, ExitEvent
  <2>6. ASSUME NEW a \in Apis, NEW c \in PrimaryConfigs,
               ReturnExisting(a, c) \/ AllocationFails(a, c) \/ Create(a, c)
        PROVE  UNCHANGED <<workerHandles, workerById>>
      BY <2>6 DEF ReturnExisting, AllocationFails, Create
  <2> QED BY <2>1, <2>2, <2>3, <2>4, <2>5, <2>6 DEF Next
<1> QED BY <1>2, <1>3 DEF HandlesStand

-----------------------------------------------------------------------------
(***************************************************************************)
(* The rendezvous of a worker's limiter with the primary's.                *)
(***************************************************************************)

\* Both limiters exist and the worker's has no verdict.
Waiting(w, a) ==
    Up(w) /\ workerById[w][a] # NoEntry /\ primaryById[a] # NoEntry /\ ~complete[w][a]

\* The question of the worker, or an announcement to it.
OnItsWay(w, a) ==
    \/ Ask(a) \in Elements(toPrimary[w])
    \/ \E m \in Elements(toWorker[w]) : m.type = "handshake" /\ m.api = a

\* A worker's messages stay in its channel until the primary reads them.
LEMMA UpFrame ==
    ASSUME Types, [Next]_vars, NEW w \in Workers, ~PrimaryReads(w)
    PROVE  Elements(toPrimary[w]) \subseteq Elements(toPrimary'[w])
<1> USE DEF vars
<1>1. ChannelTypes
    BY DEF Types
<1>2. ASSUME NEW v \in Workers, PrimaryReads(v) PROVE toPrimary'[w] = toPrimary[w]
  <2>1. toPrimary[v] # <<>> /\ toPrimary' = [toPrimary EXCEPT ![v] = Tail(@)]
      BY <1>2 DEF PrimaryReads, AnswerAsk, HandleAcquire, HandleRelease, FromWorker
  <2> QED BY <1>1, <1>2, <2>1, ReadUp
<1>3. ASSUME NEW v \in Workers, NEW a \in Apis, NEW c \in WorkerConfigs, CreateAtWorker(v, a, c)
      PROVE  Elements(toPrimary[w]) \subseteq Elements(toPrimary'[w])
    BY <1>1, <1>3, MessageForms, SendUp DEF CreateAtWorker
<1>4. ASSUME NEW v \in Workers, NEW a \in Apis, Run(v, a)
      PROVE  Elements(toPrimary[w]) \subseteq Elements(toPrimary'[w])
  <2>1. number[v][a] \in Numbers
      BY <1>4, ConstantsAssumption DEF Run, Types, WorkerTypes, Numbers
  <2> QED BY <1>1, <1>4, <2>1, MessageForms, SendUp DEF Run
<1>5. ASSUME NEW v \in Workers, NEW a \in Apis, CallSettles(v, a)
      PROVE  Elements(toPrimary[w]) \subseteq Elements(toPrimary'[w])
    BY <1>5, ReleaseUp DEF CallSettles
<1>6. ASSUME NEW v \in Workers, HandleGrant(v)
      PROVE  Elements(toPrimary[w]) \subseteq Elements(toPrimary'[w])
  <2> DEFINE k == Head(toWorker[v]).number  a == workerByNumber[v][k]
  <2>1. k \in Numbers
      BY <1>1, <1>6, Heads, MessageFields DEF HandleGrant, FromPrimary
  <2>2. a = NoApi \/ a \in Apis
      BY <2>1 DEF Types, WorkerTypes
  <2>3. UNCHANGED toPrimary \/ (a \in Apis /\ Release(v, a))
      BY <1>6, <2>2 DEF HandleGrant
  <2> QED BY <2>3, ReleaseUp
<1>7. ASSUME NEW v \in Workers, NEW a \in Apis, NEW c \in WorkerConfigs,
             ReturnExistingAtWorker(v, a, c)
      PROVE  UNCHANGED toPrimary
    BY <1>7 DEF ReturnExistingAtWorker
<1>8. ASSUME NEW v \in Workers, NEW a \in Apis, PermitTimeout(v, a) PROVE UNCHANGED toPrimary
    BY <1>8 DEF PermitTimeout
<1>9. ASSUME NEW a \in Apis, NEW c \in PrimaryConfigs,
             ReturnExisting(a, c) \/ AllocationFails(a, c) \/ Create(a, c)
      PROVE  UNCHANGED toPrimary
    BY <1>9 DEF ReturnExisting, AllocationFails, Create
<1>10. ASSUME NEW v \in Workers, HandleAnnouncement(v) \/ Fork(v) \/ Exits(v) \/ ExitEvent(v)
       PROVE  UNCHANGED toPrimary
    BY <1>10 DEF HandleAnnouncement, Fork, Exits, ExitEvent
<1> QED BY <1>2, <1>3, <1>4, <1>5, <1>6, <1>7, <1>8, <1>9, <1>10 DEF Next, WorkerReads

\* The primary's messages stay in a channel until the worker reads them or ends.
LEMMA DownFrame ==
    ASSUME RegistriesInv, [Next]_vars, NEW w \in Workers, ~WorkerReads(w), ~Exits(w)
    PROVE  Elements(toWorker[w]) \subseteq Elements(toWorker'[w])
<1> USE DEF vars
<1>1. Types /\ ChannelTypes
    BY DEF RegistriesInv, Types
<1>2. ASSUME NEW a \in Apis, NEW c \in PrimaryConfigs, Create(a, c)
      PROVE  Elements(toWorker[w]) \subseteq Elements(toWorker'[w])
    BY <1>1, <1>2, CreateEffect, AnnounceDown
<1>3. ASSUME NEW v \in Workers, AnswerAsk(v)
      PROVE  Elements(toWorker[w]) \subseteq Elements(toWorker'[w])
  <2> DEFINE a == Head(toPrimary[v]).api
  <2>1. a \in Apis
      BY <1>1, <1>3, Heads, MessageFields DEF AnswerAsk, FromWorker
  <2>2. CASE primaryById[a] # NoEntry
    <3>1. primaryById[a] \in Entry
        BY <1>1, <2>1, <2>2 DEF Types, PrimaryTypes
    <3>2. Announcement(a, primaryById[a].config.mode, primaryById[a].number) \in MessageDown
        BY <2>1, <3>1, MessageForms DEF Entry
    <3> QED BY <1>1, <1>3, <2>2, <3>2, SendDown DEF AnswerAsk
  <2>3. CASE primaryById[a] = NoEntry
      BY <1>3, <2>3 DEF AnswerAsk
  <2> QED BY <2>2, <2>3
<1>4. ASSUME NEW v \in Workers, HandleAcquire(v)
      PROVE  Elements(toWorker[w]) \subseteq Elements(toWorker'[w])
  <2> DEFINE n == Head(toPrimary[v]).number
  <2>1. n \in Numbers
      BY <1>1, <1>4, Heads, MessageFields DEF HandleAcquire, FromWorker
  <2>2. Send(v, Hot("grant", n)) \/ UNCHANGED toWorker
      BY <1>4 DEF HandleAcquire
  <2> QED BY <1>1, <2>1, <2>2, MessageForms, SendDown
<1>5. ASSUME NEW v \in Workers, WorkerReads(v) PROVE toWorker'[w] = toWorker[w]
  <2>1. toWorker[v] # <<>> /\ toWorker' = [toWorker EXCEPT ![v] = Tail(@)]
      BY <1>5 DEF WorkerReads, HandleAnnouncement, HandleGrant, FromPrimary
  <2> QED BY <1>1, <1>5, <2>1, ReadDown
<1>6. ASSUME NEW v \in Workers, Exits(v) PROVE toWorker'[w] = toWorker[w]
    BY <1>1, <1>6 DEF Exits, ChannelTypes
<1>7. ASSUME NEW a \in Apis, NEW c \in PrimaryConfigs, ReturnExisting(a, c) \/ AllocationFails(a, c)
      PROVE  UNCHANGED toWorker
    BY <1>7 DEF ReturnExisting, AllocationFails
<1>8. ASSUME NEW v \in Workers, NEW a \in Apis,
             \/ \E c \in WorkerConfigs : ReturnExistingAtWorker(v, a, c) \/ CreateAtWorker(v, a, c)
             \/ Run(v, a) \/ PermitTimeout(v, a) \/ CallSettles(v, a)
      PROVE  UNCHANGED toWorker
    BY <1>8 DEF ReturnExistingAtWorker, CreateAtWorker, Run, PermitTimeout, CallSettles
<1>9. ASSUME NEW v \in Workers, HandleRelease(v) \/ Fork(v) \/ ExitEvent(v)
      PROVE  UNCHANGED toWorker
    BY <1>9 DEF HandleRelease, Fork, ExitEvent
<1> QED BY <1>2, <1>3, <1>4, <1>5, <1>6, <1>7, <1>8, <1>9 DEF Next, PrimaryReads

\* Who waits has waited before, or one of the two limiters is new.
LEMMA WaitingBefore ==
    ASSUME RegistriesInv, [Next]_vars, NEW w \in Workers, NEW a \in Apis, Waiting(w, a)'
    PROVE  \/ Waiting(w, a)
           \/ Up(w) /\ \E c \in PrimaryConfigs : Create(a, c)
           \/ \E c \in WorkerConfigs : CreateAtWorker(w, a, c)
<1>1. WorkerTypes /\ AbsentIsEmpty /\ Types
    BY DEF RegistriesInv, Types
<1>2. CASE \E c \in WorkerConfigs : CreateAtWorker(w, a, c)
    BY <1>2
<1>3. CASE ~\E c \in WorkerConfigs : CreateAtWorker(w, a, c)
  <2>1. workerById'[w][a] = workerById[w][a] /\ ~complete[w][a]
    <3>1. ASSUME NEW v \in Workers, NEW b \in Apis, NEW c \in WorkerConfigs, CreateAtWorker(v, b, c)
          PROVE  workerById'[w][a] = workerById[w][a] /\ complete' = complete
      <4>1. v # w \/ b # a
          BY <1>3, <3>1
      <4> QED BY <1>1, <3>1, <4>1 DEF CreateAtWorker, WorkerTypes
    <3>2. ASSUME NEW v \in Workers, HandleAnnouncement(v)
          PROVE  workerById' = workerById /\ (complete[w][a] => complete'[w][a])
      <4>1. PICK m \in MessageDown :
                m.api \in Apis /\ (Ignored(v, m) \/ Mismatch(v, m) \/ Match(v, m))
          BY <1>1, <3>2, AnnouncementEffect
      <4>2. UNCHANGED complete \/ complete' = [complete EXCEPT ![v][m.api] = TRUE]
          BY <4>1 DEF Ignored, Mismatch, Match
      <4>3. CASE UNCHANGED complete
          BY <3>2, <4>3 DEF HandleAnnouncement
      <4>4. CASE complete' = [complete EXCEPT ![v][m.api] = TRUE]
        <5>1. complete'[v] = [complete[v] EXCEPT ![m.api] = TRUE]
            BY <1>1, <4>4 DEF WorkerTypes
        <5>2. v # w => complete'[w] = complete[w]
            BY <1>1, <4>4 DEF WorkerTypes
        <5>3. v = w /\ m.api = a => complete'[w][a] = TRUE
            BY <1>1, <5>1 DEF WorkerTypes
        <5>4. v = w /\ m.api # a => complete'[w][a] = complete[w][a]
            BY <1>1, <5>1 DEF WorkerTypes
        <5> QED BY <3>2, <5>2, <5>3, <5>4 DEF HandleAnnouncement
      <4> QED BY <4>2, <4>3, <4>4
    <3> QED BY <3>1, <3>2, WorkerFrame DEF Waiting
  <2>2. Up(w)
    <3>1. ASSUME NEW v \in Workers, Fork(v) \/ Exits(v) \/ ExitEvent(v)
          PROVE  Up(w) \/ proc[w] = "absent"
        BY <1>1, <3>1 DEF Waiting, Up, Fork, Exits, ExitEvent, WorkerTypes
    <3>2. ASSUME NEW v \in Workers, HandleAcquire(v) \/ HandleRelease(v) PROVE UNCHANGED proc
        BY <3>2 DEF HandleAcquire, HandleRelease
    <3>3. Up(w) \/ proc[w] = "absent"
        BY <3>1, <3>2, PermitFrame DEF Waiting, Up
    <3> QED BY <1>1, <2>1, <3>3 DEF AbsentIsEmpty, Waiting
  <2>3. primaryById[a] # NoEntry \/ \E c \in PrimaryConfigs : Create(a, c)
    <3>1. ASSUME NEW b \in Apis, NEW c \in PrimaryConfigs, Create(b, c), b # a
          PROVE  primaryById'[a] = primaryById[a]
        BY <3>1, CreateEffect
    <3> QED BY <3>1, PrimaryFrame DEF Waiting
  <2> QED BY <2>1, <2>2, <2>3 DEF Waiting
<1> QED BY <1>2, <1>3

\* A question that is read is answered while the worker waits.
LEMMA QuestionAnswered ==
    ASSUME RegistriesInv, NEW w \in Workers, NEW a \in Apis, Waiting(w, a),
           Ask(a) \in Elements(toPrimary[w]), PrimaryReads(w)
    PROVE  OnItsWay(w, a)'
<1> DEFINE m == Head(toPrimary[w])
<1>1. Types /\ ChannelTypes
    BY DEF RegistriesInv, Types
<1>2. toPrimary[w] # <<>> /\ toPrimary' = [toPrimary EXCEPT ![w] = Tail(@)]
    BY DEF PrimaryReads, AnswerAsk, HandleAcquire, HandleRelease, FromWorker
<1>3. CASE m # Ask(a)
  <2>1. Elements(toPrimary[w]) = Elements(toPrimary'[w]) \cup {m}
      BY <1>1, <1>2, ReadUp
  <2>2. Ask(a) \in Elements(toPrimary'[w])
      BY <1>3, <2>1
  <2>3. Ask(a)' = Ask(a)
      BY DEF Ask
  <2> QED BY <2>2, <2>3 DEF OnItsWay
<1>4. CASE m = Ask(a)
  <2>1. m.type = "ask" /\ m.api = a
      BY <1>4 DEF Ask
  <2>2. AnswerAsk(w)
      BY <2>1 DEF PrimaryReads, HandleAcquire, HandleRelease, FromWorker
  <2>3. primaryById[a] \in Entry /\ primaryById[a] # NoEntry /\ Up(w)
      BY <1>1 DEF Types, PrimaryTypes, Waiting
  <2> DEFINE x == Announcement(a, primaryById[a].config.mode, primaryById[a].number)
  <2>4. x \in MessageDown
      BY <2>3, MessageForms DEF Entry
  <2>5. Send(w, x)
      BY <2>1, <2>2, <2>3 DEF AnswerAsk
  <2>6. x \in Elements(toWorker'[w])
      BY <1>1, <2>3, <2>4, <2>5, SendDown
  <2>7. x.type = "handshake" /\ x.api = a
      BY DEF Announcement
  <2> QED BY <2>6, <2>7 DEF OnItsWay
<1> QED BY <1>3, <1>4

\* An announcement that is read is the verdict of the limiter it is for.
LEMMA AnnouncementRead ==
    ASSUME RegistriesInv, NEW w \in Workers, NEW a \in Apis, Waiting(w, a), Waiting(w, a)',
           NEW m \in Elements(toWorker[w]), m.type = "handshake", m.api = a, WorkerReads(w)
    PROVE  OnItsWay(w, a)'
<1> DEFINE x == Head(toWorker[w])
<1>1. Types /\ ChannelTypes /\ WorkerTypes
    BY DEF RegistriesInv, Types
<1>2. toWorker[w] # <<>> /\ toWorker' = [toWorker EXCEPT ![w] = Tail(@)]
    BY DEF WorkerReads, HandleAnnouncement, HandleGrant, FromPrimary
<1>3. CASE m # x
  <2>1. m \in Elements(toWorker'[w])
      BY <1>1, <1>2, <1>3, ReadDown
  <2> QED BY <2>1 DEF OnItsWay
<1>4. CASE m = x
  <2>1. HandleAnnouncement(w)
      BY <1>4 DEF WorkerReads, HandleGrant, FromPrimary
  <2>2. Ignored(w, x) \/ Mismatch(w, x) \/ Match(w, x)
      BY <1>1, <2>1, AnnouncementEffect
  <2>3. complete'[w][a]
      BY <1>1, <1>4, <2>2 DEF Ignored, Mismatch, Match, Waiting, WorkerTypes
  <2> QED BY <2>3 DEF Waiting
<1> QED BY <1>3, <1>4

\* Every step leaves something on its way to whoever waits.
LEMMA RendezvousStep ==
    ASSUME RegistriesInv, [Next]_vars
    PROVE  NoMissedRendezvous'
<1>1. Types /\ ChannelTypes
    BY DEF RegistriesInv, Types
<1>2. ASSUME NEW w \in Workers, NEW a \in Apis, Waiting(w, a)'
      PROVE  OnItsWay(w, a)'
  <2>1. ASSUME NEW c \in PrimaryConfigs, Create(a, c), Up(w) PROVE OnItsWay(w, a)'
    <3>1. Announcement(a, c.mode, counter') \in Elements(toWorker'[w])
        BY <1>1, <2>1, CreateEffect, AnnounceDown
    <3>2. /\ Announcement(a, c.mode, counter').type = "handshake"
          /\ Announcement(a, c.mode, counter').api = a
        BY DEF Announcement
    <3> QED BY <3>1, <3>2 DEF OnItsWay
  <2>2. ASSUME NEW c \in WorkerConfigs, CreateAtWorker(w, a, c) PROVE OnItsWay(w, a)'
    <3>1. Ask(a) \in Elements(toPrimary'[w])
        BY <1>1, <2>2, MessageForms, SendUp DEF CreateAtWorker
    <3>2. Ask(a)' = Ask(a)
        BY DEF Ask
    <3> QED BY <3>1, <3>2 DEF OnItsWay
  <2>3. CASE Waiting(w, a)
    <3>1. OnItsWay(w, a)
        BY <2>3 DEF RegistriesInv, NoMissedRendezvous, Waiting, OnItsWay, Elements
    <3>2. CASE Ask(a) \in Elements(toPrimary[w])
      <4>1. CASE PrimaryReads(w)
          BY <2>3, <3>2, <4>1, QuestionAnswered
      <4>2. CASE ~PrimaryReads(w)
          BY <1>1, <3>2, <4>2, UpFrame DEF OnItsWay
      <4> QED BY <4>1, <4>2
    <3>3. ASSUME NEW m \in Elements(toWorker[w]), m.type = "handshake", m.api = a
          PROVE  OnItsWay(w, a)'
      <4>1. CASE WorkerReads(w)
          BY <1>2, <2>3, <3>3, <4>1, AnnouncementRead
      <4>2. CASE Exits(w)
        <5>1. proc'[w] # "up"
            BY <1>1, <4>2 DEF Exits, Types, WorkerTypes
        <5> QED BY <1>2, <5>1 DEF Waiting, Up
      <4>3. CASE ~WorkerReads(w) /\ ~Exits(w)
          BY <3>3, <4>3, DownFrame DEF OnItsWay
      <4> QED BY <4>1, <4>2, <4>3
    <3> QED BY <3>1, <3>2, <3>3 DEF OnItsWay
  <2> QED BY <1>2, <2>1, <2>2, <2>3, WaitingBefore
<1> QED BY <1>2 DEF NoMissedRendezvous, Waiting, OnItsWay, Elements

-----------------------------------------------------------------------------
(***************************************************************************)
(* Where a call's permit is.  A call has one number, asks once, and what   *)
(* travels about it is there at most once; so nothing but the call's own   *)
(* end gives its permit back.                                              *)
(***************************************************************************)

\* A worker knows the number of a limiter from the primary, once and for all.
NumbersKnown ==
    \A w \in Workers, a \in Apis :
        number[w][a] # 0 => complete[w][a] /\ primaryByNumber[number[w][a]] = a

\* Only a limiter with a number is called.
CallsKnown == \A w \in Workers, a \in Apis : call[w][a] # "none" => number[w][a] # 0

Acquires(w, n) == Hot("acquire", n) \in Elements(toPrimary[w])
Releases(w, n) == Hot("release", n) \in Elements(toPrimary[w])
Grants(w, n) == Hot("grant", n) \in Elements(toWorker[w])

\* What travels between a worker and a limiter is about a call of its.
PermitsOwned ==
    \A w \in Workers, n \in Numbers :
        Acquires(w, n) \/ Releases(w, n) \/ Grants(w, n) =>
            \E a \in Apis : number[w][a] = n /\ call[w][a] # "none"

Ended(w) == proc[w] \in {"exited", "reaped"}

\* A call that asks has one request or one grant on its way, a call that runs
\* has neither; from the grant on a semaphore's permit is leased.
OnePermit(w, a, n) ==
    /\ call[w][a] = "asking" =>
          /\ ~Releases(w, n) /\ ~(Acquires(w, n) /\ Grants(w, n))
          /\ OnceIn(Hot("acquire", n), toPrimary[w]) /\ OnceIn(Hot("grant", n), toWorker[w])
    /\ call[w][a] = "running" => ~Releases(w, n) /\ ~Acquires(w, n) /\ ~Grants(w, n)
    /\ /\ Semaphore(n) /\ ~Ended(w)
       /\ call[w][a] = "running" \/ (call[w][a] = "asking" /\ Grants(w, n))
       => <<n, w>> \in leased

PermitsInv ==
    /\ NumbersKnown /\ CallsKnown /\ PermitsOwned
    /\ \A w \in Workers, a \in Apis : call[w][a] # "none" => OnePermit(w, a, number[w][a])

\* Messages of different kinds, or about different limiters, are different.
LEMMA HotForms ==
    /\ \A o, p, n, k : Hot(o, n) = Hot(p, k) => o = p /\ n = k
    /\ \A n, a : Hot("acquire", n) # Ask(a) /\ Hot("release", n) # Ask(a)
    /\ \A n, a, mode, k : Hot("grant", n) # Announcement(a, mode, k)
    /\ \A m \in MessageUp : m.type = "acquire" => m = Hot("acquire", m.number)
    /\ \A m \in MessageUp : m.type = "release" => m = Hot("release", m.number)
    /\ \A m \in MessageDown : m.type = "grant" => m = Hot("grant", m.number)
<1>1. \A o, n : Hot(o, n).type = o /\ Hot(o, n).number = n
    BY DEF Hot
<1>2. \A a : Ask(a).type = "ask"
    BY DEF Ask
<1>3. \A a, mode, k : Announcement(a, mode, k).type = "handshake"
    BY DEF Announcement
<1>4. \A m \in MessageUp : m.type = "acquire" => m = Hot("acquire", m.number)
    BY DEF MessageUp, Hot
<1>5. \A m \in MessageUp : m.type = "release" => m = Hot("release", m.number)
    BY DEF MessageUp, Hot
<1>6. \A m \in MessageDown : m.type = "grant" => m = Hot("grant", m.number)
    BY DEF MessageDown, Hot
<1>7. "acquire" # "ask" /\ "release" # "ask" /\ "grant" # "handshake"
    OBVIOUS
<1> QED BY <1>1, <1>2, <1>3, <1>4, <1>5, <1>6, <1>7

\* A message sent up adds nothing about any other.
LEMMA FadesUp ==
    ASSUME ChannelTypes, NEW v \in Workers, NEW m \in MessageUp,
           toPrimary' = [toPrimary EXCEPT ![v] = Append(@, m)],
           NEW w \in Workers, NEW e, v # w \/ m # e
    PROVE  Fades(e, toPrimary[w], toPrimary'[w])
<1>1. toPrimary[w] \in Seq(MessageUp)
    BY DEF ChannelTypes
<1>2. CASE v # w
  <2>1. toPrimary'[w] = toPrimary[w]
      BY <1>2 DEF ChannelTypes
  <2> QED BY <2>1, FadesSame
<1>3. CASE v = w /\ m # e
  <2>1. toPrimary'[w] = Append(toPrimary[w], m)
      BY <1>3 DEF ChannelTypes
  <2>2. Fades(e, toPrimary[w], Append(toPrimary[w], m))
      BY <1>1, <1>3, FadesAppend
  <2> QED BY <2>1, <2>2
<1> QED BY <1>2, <1>3

\* Reading a channel adds nothing to it.
LEMMA FadesReadUp ==
    ASSUME ChannelTypes, NEW v \in Workers, toPrimary[v] # <<>>,
           toPrimary' = [toPrimary EXCEPT ![v] = Tail(@)],
           NEW w \in Workers, NEW e
    PROVE  Fades(e, toPrimary[w], toPrimary'[w])
<1>1. toPrimary[w] \in Seq(MessageUp)
    BY DEF ChannelTypes
<1>2. CASE v # w
  <2>1. toPrimary'[w] = toPrimary[w]
      BY <1>2 DEF ChannelTypes
  <2> QED BY <2>1, FadesSame
<1>3. CASE v = w
  <2>1. toPrimary'[w] = Tail(toPrimary[w])
      BY <1>3 DEF ChannelTypes
  <2>2. Fades(e, toPrimary[w], Tail(toPrimary[w]))
      BY <1>1, <1>3, FadesTail
  <2> QED BY <2>1, <2>2
<1> QED BY <1>2, <1>3

\* Nor does it in the other direction.
LEMMA FadesReadDown ==
    ASSUME ChannelTypes, NEW v \in Workers, toWorker[v] # <<>>,
           toWorker' = [toWorker EXCEPT ![v] = Tail(@)],
           NEW w \in Workers, NEW e
    PROVE  Fades(e, toWorker[w], toWorker'[w])
<1>1. toWorker[w] \in Seq(MessageDown)
    BY DEF ChannelTypes
<1>2. CASE v # w
  <2>1. toWorker'[w] = toWorker[w]
      BY <1>2 DEF ChannelTypes
  <2> QED BY <2>1, FadesSame
<1>3. CASE v = w
  <2>1. toWorker'[w] = Tail(toWorker[w])
      BY <1>3 DEF ChannelTypes
  <2>2. Fades(e, toWorker[w], Tail(toWorker[w]))
      BY <1>1, <1>3, FadesTail
  <2> QED BY <2>1, <2>2
<1> QED BY <1>2, <1>3

\* A message sent down adds nothing about any other.
LEMMA FadesDown ==
    ASSUME ChannelTypes, NEW v \in Workers, NEW m \in MessageDown, Send(v, m),
           NEW w \in Workers, NEW e, v # w \/ m # e
    PROVE  Fades(e, toWorker[w], toWorker'[w])
<1>1. toWorker[w] \in Seq(MessageDown)
    BY DEF ChannelTypes
<1>2. CASE toWorker'[w] = toWorker[w]
    BY <1>2, FadesSame
<1>3. CASE toWorker'[w] = Append(toWorker[w], m) /\ m # e
  <2>1. Fades(e, toWorker[w], Append(toWorker[w], m))
      BY <1>1, <1>3, FadesAppend
  <2> QED BY <1>3, <2>1
<1> QED BY <1>2, <1>3 DEF ChannelTypes, Send

\* An announcement adds nothing about permits.
LEMMA FadesAnnounce ==
    ASSUME ChannelTypes, NEW a \in Apis, NEW mode \in Mode, NEW k \in Numbers,
           Announce(a, mode, k), NEW w \in Workers, NEW e, e # Announcement(a, mode, k)
    PROVE  Fades(e, toWorker[w], toWorker'[w])
<1> DEFINE m == Announcement(a, mode, k)
<1>1. toWorker[w] \in Seq(MessageDown) /\ m \in MessageDown
    BY MessageForms DEF ChannelTypes
<1>2. toWorker'[w] = IF Up(w) THEN Append(toWorker[w], m) ELSE toWorker[w]
    BY DEF Announce
<1> HIDE DEF m
<1>3. Fades(e, toWorker[w], Append(toWorker[w], m))
  <2>1. e # m
      BY DEF m
  <2> QED BY <1>1, <2>1, FadesAppend
<1> QED BY <1>2, <1>3, FadesSame

\* Worker w gives the permit of its limiter for a back.
Returns(w, a) ==
    \/ CallSettles(w, a)
    \/ /\ HandleGrant(w) /\ workerByNumber[w][Head(toWorker[w]).number] = a
       /\ call[w][a] # "asking" /\ UNCHANGED call

\* A release that is sent is the worker's, of that limiter.
LEMMA ReleaseFades ==
    ASSUME Types, NEW v \in Workers, NEW a \in Apis, Release(v, a),
           NEW w \in Workers, NEW n \in Numbers
    PROVE  /\ Fades(Hot("acquire", n), toPrimary[w], toPrimary'[w])
           /\ Fades(Hot("release", n), toPrimary[w], toPrimary'[w]) \/ (v = w /\ number[w][a] = n)
<1>1. CASE UNCHANGED toPrimary
    BY <1>1, FadesSame
<1>2. CASE toPrimary' = [toPrimary EXCEPT ![v] = Append(@, Hot("release", number[v][a]))]
  <2>1. PICK k \in 0..MaxNumber : k = number[v][a]
      BY DEF Types, WorkerTypes
  <2>2. Hot("release", k) \in MessageUp /\ Hot("release", k) # Hot("acquire", n)
      BY MessageForms, HotForms
  <2>3. ChannelTypes /\ toPrimary' = [toPrimary EXCEPT ![v] = Append(@, Hot("release", k))]
      BY <1>2, <2>1 DEF Types
  <2>4. Fades(Hot("acquire", n), toPrimary[w], toPrimary'[w])
      BY <2>2, <2>3, FadesUp
  <2>5. CASE v # w \/ k # n
    <3>1. v # w \/ Hot("release", k) # Hot("release", n)
        BY <2>5, HotForms
    <3> QED BY <2>2, <2>3, <2>4, <3>1, FadesUp
  <2>6. CASE v = w /\ k = n
      BY <2>1, <2>4, <2>6
  <2> QED BY <2>5, <2>6
<1> QED BY <1>1, <1>2 DEF Release

\* A request is sent by a call that starts, a release by one that ends or by one
\* that did not wait for its grant.
LEMMA UpStep ==
    ASSUME RegistriesInv, [Next]_vars, NEW w \in Workers, NEW n \in Numbers
    PROVE  /\ \/ Fades(Hot("acquire", n), toPrimary[w], toPrimary'[w])
              \/ \E a \in Apis : Run(w, a) /\ number[w][a] = n
           /\ \/ Fades(Hot("release", n), toPrimary[w], toPrimary'[w])
              \/ \E a \in Apis : Returns(w, a) /\ number[w][a] = n
<1> USE DEF vars
<1>0. Types /\ ChannelTypes
    BY DEF RegistriesInv, Types
<1>1. CASE UNCHANGED toPrimary
    BY <1>1, FadesSame
<1>2. ASSUME NEW v \in Workers, NEW a \in Apis, NEW c \in WorkerConfigs, CreateAtWorker(v, a, c)
      PROVE  /\ Fades(Hot("acquire", n), toPrimary[w], toPrimary'[w])
             /\ Fades(Hot("release", n), toPrimary[w], toPrimary'[w])
  <2>1. /\ toPrimary' = [toPrimary EXCEPT ![v] = Append(@, Ask(a))] /\ Ask(a) \in MessageUp
        /\ Ask(a) # Hot("acquire", n) /\ Ask(a) # Hot("release", n)
      BY <1>2, MessageForms, HotForms DEF CreateAtWorker
  <2> QED BY <1>0, <2>1, FadesUp
<1>3. ASSUME NEW v \in Workers, NEW a \in Apis, Run(v, a)
      PROVE  /\ Fades(Hot("acquire", n), toPrimary[w], toPrimary'[w]) \/ (v = w /\ number[w][a] = n)
             /\ Fades(Hot("release", n), toPrimary[w], toPrimary'[w])
  <2>1. PICK k \in Numbers : k = number[v][a]
      BY <1>0, <1>3, ConstantsAssumption DEF Run, Types, WorkerTypes, Numbers
  <2>2. /\ toPrimary' = [toPrimary EXCEPT ![v] = Append(@, Hot("acquire", k))]
        /\ Hot("acquire", k) \in MessageUp /\ Hot("acquire", k) # Hot("release", n)
      BY <1>3, <2>1, MessageForms, HotForms DEF Run
  <2>3. Fades(Hot("release", n), toPrimary[w], toPrimary'[w])
      BY <1>0, <2>2, FadesUp
  <2>4. CASE v # w \/ k # n
    <3>1. v # w \/ Hot("acquire", k) # Hot("acquire", n)
        BY <2>4, HotForms
    <3> QED BY <1>0, <2>2, <2>3, <3>1, FadesUp
  <2>5. CASE v = w /\ k = n
      BY <2>1, <2>3, <2>5
  <2> QED BY <2>4, <2>5
<1>4. ASSUME NEW v \in Workers, NEW a \in Apis, CallSettles(v, a)
      PROVE  /\ Fades(Hot("acquire", n), toPrimary[w], toPrimary'[w])
             /\ \/ Fades(Hot("release", n), toPrimary[w], toPrimary'[w])
                \/ Returns(w, a) /\ number[w][a] = n
  <2>1. Release(v, a)
      BY <1>4 DEF CallSettles
  <2>2. v = w => Returns(w, a)
      BY <1>4 DEF Returns
  <2> QED BY <1>0, <2>1, <2>2, ReleaseFades
<1>5. ASSUME NEW v \in Workers, PrimaryReads(v)
      PROVE  /\ Fades(Hot("acquire", n), toPrimary[w], toPrimary'[w])
             /\ Fades(Hot("release", n), toPrimary[w], toPrimary'[w])
  <2>1. toPrimary[v] # <<>> /\ toPrimary' = [toPrimary EXCEPT ![v] = Tail(@)]
      BY <1>5 DEF PrimaryReads, AnswerAsk, HandleAcquire, HandleRelease, FromWorker
  <2> QED BY <1>0, <2>1, FadesReadUp
<1>6. ASSUME NEW v \in Workers, HandleGrant(v), ~UNCHANGED toPrimary
      PROVE  /\ Fades(Hot("acquire", n), toPrimary[w], toPrimary'[w])
             /\ \/ Fades(Hot("release", n), toPrimary[w], toPrimary'[w])
                \/ \E a \in Apis : Returns(w, a) /\ number[w][a] = n
  <2>1. PICK a : a = workerByNumber[v][Head(toWorker[v]).number]
      OBVIOUS
  <2>2. a # NoApi /\ call[v][a] # "asking" /\ Release(v, a) /\ UNCHANGED call
      BY <1>6, <2>1 DEF HandleGrant
  <2>3. a \in Apis
    <3>1. Head(toWorker[v]).number \in Numbers
        BY <1>0, <1>6, Heads, MessageFields DEF HandleGrant, FromPrimary
    <3> QED BY <1>0, <2>1, <2>2, <3>1 DEF Types, WorkerTypes
  <2>4. v = w => Returns(w, a)
      BY <1>6, <2>1, <2>2 DEF Returns
  <2> QED BY <1>0, <2>2, <2>3, <2>4, ReleaseFades
<1>7. ASSUME NEW a \in Apis, NEW c \in PrimaryConfigs,
             ReturnExisting(a, c) \/ AllocationFails(a, c) \/ Create(a, c)
      PROVE  UNCHANGED toPrimary
    BY <1>7 DEF ReturnExisting, AllocationFails, Create
<1>8. ASSUME NEW v \in Workers, HandleAnnouncement(v) \/ Fork(v) \/ Exits(v) \/ ExitEvent(v)
      PROVE  UNCHANGED toPrimary
    BY <1>8 DEF HandleAnnouncement, Fork, Exits, ExitEvent
<1>9. ASSUME NEW v \in Workers, NEW a \in Apis, PermitTimeout(v, a) \/ \E c \in WorkerConfigs : ReturnExistingAtWorker(v, a, c)
      PROVE  UNCHANGED toPrimary
    BY <1>9 DEF PermitTimeout, ReturnExistingAtWorker
<1> QED BY <1>1, <1>2, <1>3, <1>4, <1>5, <1>6, <1>7, <1>8, <1>9 DEF Next, WorkerReads

\* The primary grants when it reads a request, and a semaphore leases then.
LEMMA DownStep ==
    ASSUME RegistriesInv, [Next]_vars, NEW w \in Workers, NEW n \in Numbers
    PROVE  \/ Fades(Hot("grant", n), toWorker[w], toWorker'[w])
           \/ /\ HandleAcquire(w) /\ Head(toPrimary[w]) = Hot("acquire", n)
              /\ toWorker'[w] = Append(toWorker[w], Hot("grant", n))
              /\ Semaphore(n) => <<n, w>> \in leased'
<1> USE DEF vars
<1>0. Types /\ ChannelTypes
    BY DEF RegistriesInv, Types
<1>1. CASE UNCHANGED toWorker
    BY <1>1, FadesSame
<1>2. ASSUME NEW a \in Apis, NEW c \in PrimaryConfigs, Create(a, c)
      PROVE  Fades(Hot("grant", n), toWorker[w], toWorker'[w])
  <2>1. PICK mode \in Mode, k \in Numbers : Announce(a, mode, k)
      BY <1>2, CreateEffect
  <2>2. Hot("grant", n) # Announcement(a, mode, k)
      BY HotForms
  <2> QED BY <1>0, <2>1, <2>2, FadesAnnounce
<1>3. ASSUME NEW v \in Workers, AnswerAsk(v), ~UNCHANGED toWorker
      PROVE  Fades(Hot("grant", n), toWorker[w], toWorker'[w])
  <2>1. PICK a : a = Head(toPrimary[v]).api
      OBVIOUS
  <2>2. a \in Apis
      BY <1>0, <1>3, <2>1, Heads, MessageFields DEF AnswerAsk, FromWorker
  <2>3. primaryById[a] # NoEntry /\ Send(v, Announcement(a, primaryById[a].config.mode, primaryById[a].number))
      BY <1>3, <2>1 DEF AnswerAsk
  <2>4. primaryById[a] \in Entry
      BY <1>0, <2>2, <2>3 DEF Types, PrimaryTypes
  <2>5. PICK m \in MessageDown : Send(v, m) /\ m # Hot("grant", n)
      BY <2>2, <2>3, <2>4, MessageForms, HotForms DEF Entry
  <2> QED BY <1>0, <2>5, FadesDown
<1>4. ASSUME NEW v \in Workers, HandleAcquire(v), ~UNCHANGED toWorker
      PROVE  \/ Fades(Hot("grant", n), toWorker[w], toWorker'[w])
             \/ /\ HandleAcquire(w) /\ Head(toPrimary[w]) = Hot("acquire", n)
                /\ toWorker'[w] = Append(toWorker[w], Hot("grant", n))
                /\ Semaphore(n) => <<n, w>> \in leased'
  <2>1. PICK k \in Numbers : k = Head(toPrimary[v]).number /\ Head(toPrimary[v]) = Hot("acquire", k)
    <3>1. toPrimary[v] # <<>> /\ Head(toPrimary[v]).type = "acquire"
        BY <1>4 DEF HandleAcquire, FromWorker
    <3>2. Head(toPrimary[v]) \in MessageUp
        BY <1>0, <3>1, Heads
    <3> QED BY <3>1, <3>2, MessageFields, HotForms
  <2>2. Send(v, Hot("grant", k)) /\ leased' = leased \cup (IF Semaphore(k) THEN {<<k, v>>} ELSE {})
      BY <1>4, <2>1 DEF HandleAcquire
  <2>3. Hot("grant", k) \in MessageDown
      BY MessageForms
  <2>4. CASE v # w \/ k # n
    <3>1. v # w \/ Hot("grant", k) # Hot("grant", n)
        BY <2>4, HotForms
    <3> QED BY <1>0, <2>2, <2>3, <3>1, FadesDown
  <2>5. CASE v = w /\ k = n
    <3>1. toWorker'[w] = toWorker[w] \/ toWorker'[w] = Append(toWorker[w], Hot("grant", n))
        BY <1>0, <2>2, <2>5 DEF Send, ChannelTypes
    <3> QED BY <1>4, <2>1, <2>2, <2>5, <3>1, FadesSame
  <2> QED BY <2>4, <2>5
<1>5. ASSUME NEW v \in Workers, WorkerReads(v)
      PROVE  Fades(Hot("grant", n), toWorker[w], toWorker'[w])
  <2>1. toWorker[v] # <<>> /\ toWorker' = [toWorker EXCEPT ![v] = Tail(@)]
      BY <1>5 DEF WorkerReads, HandleAnnouncement, HandleGrant, FromPrimary
  <2> QED BY <1>0, <2>1, FadesReadDown
<1>6. ASSUME NEW v \in Workers, Exits(v)
      PROVE  Fades(Hot("grant", n), toWorker[w], toWorker'[w])
  <2>1. toWorker'[w] = toWorker[w] \/ toWorker'[w] = <<>>
      BY <1>0, <1>6 DEF Exits, ChannelTypes
  <2> QED BY <2>1, FadesSame
<1>7. ASSUME NEW a \in Apis, NEW c \in PrimaryConfigs, ReturnExisting(a, c) \/ AllocationFails(a, c)
      PROVE  UNCHANGED toWorker
    BY <1>7 DEF ReturnExisting, AllocationFails
<1>8. ASSUME NEW v \in Workers, NEW a \in Apis,
             \/ \E c \in WorkerConfigs : ReturnExistingAtWorker(v, a, c) \/ CreateAtWorker(v, a, c)
             \/ Run(v, a) \/ PermitTimeout(v, a) \/ CallSettles(v, a)
      PROVE  UNCHANGED toWorker
    BY <1>8 DEF ReturnExistingAtWorker, CreateAtWorker, Run, PermitTimeout, CallSettles
<1>9. ASSUME NEW v \in Workers, HandleRelease(v) \/ Fork(v) \/ ExitEvent(v)
      PROVE  UNCHANGED toWorker
    BY <1>9 DEF HandleRelease, Fork, ExitEvent
<1> QED BY <1>1, <1>2, <1>3, <1>4, <1>5, <1>6, <1>7, <1>8, <1>9 DEF Next, PrimaryReads

\* A permit is given back by its release, or by the end of the worker.
LEMMA LeaseStep ==
    ASSUME RegistriesInv, [Next]_vars, NEW w \in Workers, NEW n \in Numbers,
           <<n, w>> \in leased, ~Ended(w)
    PROVE  <<n, w>> \in leased' \/ (HandleRelease(w) /\ Head(toPrimary[w]) = Hot("release", n))
<1>0. Types /\ ChannelTypes
    BY DEF RegistriesInv, Types
<1>1. ASSUME NEW v \in Workers, HandleRelease(v), <<n, w>> \notin leased'
      PROVE  HandleRelease(w) /\ Head(toPrimary[w]) = Hot("release", n)
  <2>1. v = w /\ Head(toPrimary[v]).number = n
      BY <1>1 DEF HandleRelease
  <2>2. toPrimary[v] # <<>> /\ Head(toPrimary[v]).type = "release"
      BY <1>1 DEF HandleRelease, FromWorker
  <2>3. Head(toPrimary[v]) \in MessageUp
      BY <1>0, <2>2, Heads
  <2> QED BY <1>1, <2>1, <2>2, <2>3, HotForms
<1>2. ASSUME NEW v \in Workers, ExitEvent(v) PROVE <<n, w>> \in leased'
  <2>1. v # w
      BY <1>2 DEF ExitEvent, Ended
  <2> QED BY <1>2, <2>1 DEF ExitEvent
<1>3. ASSUME NEW v \in Workers, HandleAcquire(v) \/ Fork(v) \/ Exits(v) PROVE <<n, w>> \in leased'
    BY <1>3 DEF HandleAcquire, Fork, Exits
<1> QED BY <1>1, <1>2, <1>3, PermitFrame

\* A worker that has ended stays ended.
LEMMA EndStep ==
    ASSUME RegistriesInv, [Next]_vars, NEW w \in Workers, Ended(w)
    PROVE  Ended(w)'
<1>0. WorkerTypes
    BY DEF RegistriesInv, Types
<1>1. ASSUME NEW v \in Workers, Fork(v) \/ Exits(v) \/ ExitEvent(v) PROVE Ended(w)'
    BY <1>0, <1>1 DEF Fork, Exits, ExitEvent, Up, Ended, WorkerTypes
<1>2. ASSUME NEW v \in Workers, HandleAcquire(v) \/ HandleRelease(v) PROVE UNCHANGED proc
    BY <1>2 DEF HandleAcquire, HandleRelease
<1> QED BY <1>1, <1>2, PermitFrame DEF Ended

\* The head of the worker's channel grants what the call of a asks for.
Granted(w, a) ==
    /\ HandleGrant(w) /\ workerByNumber[w][Head(toWorker[w]).number] = a
    /\ call[w][a] = "asking" /\ call'[w][a] = "running" /\ UNCHANGED toPrimary

\* How a call goes on.
LEMMA CallStep ==
    ASSUME RegistriesInv, [Next]_vars, NEW w \in Workers, NEW a \in Apis
    PROVE  \/ call'[w][a] = call[w][a]
           \/ Run(w, a) /\ call[w][a] = "none" /\ call'[w][a] = "asking"
           \/ call[w][a] # "none" /\ call'[w][a] = "over"
           \/ Granted(w, a)
<1> USE DEF vars
<1>0. WorkerTypes /\ Types
    BY DEF RegistriesInv, Types
<1>1. ASSUME NEW v \in Workers, NEW b \in Apis, NEW s, call' = [call EXCEPT ![v][b] = s]
      PROVE  call'[w][a] = IF v = w /\ b = a THEN s ELSE call[w][a]
    BY <1>0, <1>1 DEF WorkerTypes
<1>2. ASSUME NEW v \in Workers, NEW b \in Apis, Run(v, b)
      PROVE  \/ call'[w][a] = call[w][a]
             \/ Run(w, a) /\ call[w][a] = "none" /\ call'[w][a] = "asking"
  <2>1. call[v][b] = "none" /\ call'[w][a] = IF v = w /\ b = a THEN "asking" ELSE call[w][a]
      BY <1>1, <1>2 DEF Run
  <2> QED BY <1>2, <2>1
<1>3. ASSUME NEW v \in Workers, NEW b \in Apis, PermitTimeout(v, b) \/ CallSettles(v, b)
      PROVE  \/ call'[w][a] = call[w][a]
             \/ call[w][a] # "none" /\ call'[w][a] = "over"
    BY <1>1, <1>3 DEF PermitTimeout, CallSettles
<1>4. ASSUME NEW v \in Workers, HandleGrant(v), call' # call
      PROVE  call'[w][a] = call[w][a] \/ Granted(w, a)
  <2>1. PICK b : b = workerByNumber[v][Head(toWorker[v]).number]
      OBVIOUS
  <2>2. b # NoApi /\ call[v][b] = "asking" /\ call' = [call EXCEPT ![v][b] = "running"] /\ UNCHANGED toPrimary
      BY <1>4, <2>1 DEF HandleGrant
  <2>3. b \in Apis
    <3>1. Head(toWorker[v]).number \in Numbers
        BY <1>0, <1>4, Heads, MessageFields DEF HandleGrant, FromPrimary, Types
    <3> QED BY <1>0, <2>1, <2>2, <3>1 DEF WorkerTypes
  <2> QED BY <1>1, <1>4, <2>1, <2>2, <2>3 DEF Granted
<1>5. ASSUME NEW b \in Apis, NEW c \in PrimaryConfigs,
             ReturnExisting(b, c) \/ AllocationFails(b, c) \/ Create(b, c)
      PROVE  UNCHANGED call
    BY <1>5 DEF ReturnExisting, AllocationFails, Create
<1>6. ASSUME NEW v \in Workers, NEW b \in Apis, NEW c \in WorkerConfigs,
             ReturnExistingAtWorker(v, b, c) \/ CreateAtWorker(v, b, c)
      PROVE  UNCHANGED call
    BY <1>6 DEF ReturnExistingAtWorker, CreateAtWorker
<1>7. ASSUME NEW v \in Workers,
             PrimaryReads(v) \/ HandleAnnouncement(v) \/ Fork(v) \/ Exits(v) \/ ExitEvent(v)
      PROVE  UNCHANGED call
    BY <1>7 DEF PrimaryReads, AnswerAsk, HandleAcquire, HandleRelease, HandleAnnouncement, Fork, Exits, ExitEvent
<1> QED BY <1>2, <1>3, <1>4, <1>5, <1>6, <1>7 DEF Next, WorkerReads

\* A published number keeps leading to its limiter.
LEMMA NumberStands ==
    ASSUME RegistriesInv, [Next]_vars, NEW n \in Numbers, NEW a \in Apis, primaryByNumber[n] = a
    PROVE  primaryByNumber'[n] = a /\ primaryById'[a] = primaryById[a]
<1>1. primaryById[a] # NoEntry /\ primaryById[a].number = n
    BY DEF RegistriesInv, RoutesAgree
<1>2. primaryById'[a] = primaryById[a]
    BY <1>1, EntriesStand
<1> QED BY <1>1, <1>2, RoutesStep DEF RoutesAgree

\* Two limiters of a worker have different numbers, and the worker's route of a
\* number leads to the limiter that has it.
LEMMA NumbersDiffer ==
    ASSUME NumbersKnown, RegistriesInv, NEW w \in Workers, NEW a \in Apis, NEW b \in Apis
    PROVE  /\ number[w][a] # 0 /\ number[w][a] = number[w][b] => a = b
           /\ \A n \in Numbers : number[w][a] = n /\ workerByNumber[w][n] = b => a = b
           /\ number[w][a] # 0 => number[w][a] \in Numbers
<1>1. WorkerTypes /\ RoutesAgree
    BY DEF RegistriesInv, Types
<1>2. number[w][a] # 0 => number[w][a] \in Numbers
    BY <1>1, ConstantsAssumption DEF WorkerTypes, Numbers
<1>3. \A n \in Numbers : n # 0
    BY DEF Numbers
<1>4. ASSUME number[w][a] # 0, number[w][a] = number[w][b] PROVE a = b
    BY <1>4 DEF NumbersKnown
<1>5. ASSUME NEW n \in Numbers, number[w][a] = n, workerByNumber[w][n] = b PROVE a = b
  <2>1. number[w][b] = n
      BY <1>1, <1>5 DEF RoutesAgree
  <2> QED BY <1>3, <1>4, <1>5, <2>1
<1> QED BY <1>2, <1>4, <1>5

\* The number of a limiter, once known, never changes; a new one is published.
LEMMA NumberStep ==
    ASSUME NumbersKnown, RegistriesInv, [Next]_vars, NEW w \in Workers, NEW a \in Apis
    PROVE  \/ number'[w][a] = number[w][a] /\ (complete[w][a] => complete'[w][a])
           \/ /\ number[w][a] = 0 /\ complete'[w][a]
              /\ number'[w][a] \in Numbers /\ primaryByNumber[number'[w][a]] = a
<1>1. /\ RoutesAgree /\ WorkerTypes /\ Types /\ Announced
    BY DEF RegistriesInv, Types
<1>2. ASSUME NEW v \in Workers, NEW b \in Apis, NEW c \in WorkerConfigs, CreateAtWorker(v, b, c)
      PROVE  UNCHANGED <<number, complete>>
    BY <1>2 DEF CreateAtWorker
<1>3. ASSUME NEW v \in Workers, HandleAnnouncement(v)
      PROVE  \/ number'[w][a] = number[w][a] /\ (complete[w][a] => complete'[w][a])
             \/ /\ number[w][a] = 0 /\ complete'[w][a]
                /\ number'[w][a] \in Numbers /\ primaryByNumber[number'[w][a]] = a
  <2>1. PICK m \in MessageDown :
            /\ m \in Elements(toWorker[v]) /\ m.type = "handshake"
            /\ m.api \in Apis /\ m.number \in Numbers
            /\ Ignored(v, m) \/ Mismatch(v, m) \/ Match(v, m)
      BY <1>1, <1>3, AnnouncementEffect
  <2>2. CASE Ignored(v, m)
      BY <2>2 DEF Ignored
  <2>3. ASSUME complete' = [complete EXCEPT ![v][m.api] = TRUE]
        PROVE  complete'[w][a] = IF v = w /\ m.api = a THEN TRUE ELSE complete[w][a]
      BY <1>1, <2>1, <2>3 DEF WorkerTypes
  <2>4. CASE Mismatch(v, m)
      BY <2>3, <2>4 DEF Mismatch
  <2>5. CASE Match(v, m)
    <3>1. number'[w][a] = IF v = w /\ m.api = a THEN m.number ELSE number[w][a]
        BY <1>1, <2>1, <2>5 DEF Match, WorkerTypes
    <3>2. complete'[w][a] = IF v = w /\ m.api = a THEN TRUE ELSE complete[w][a]
        BY <2>3, <2>5 DEF Match
    <3>3. CASE ~(v = w /\ m.api = a)
        BY <3>1, <3>2, <3>3
    <3>4. CASE v = w /\ m.api = a
      <4>1. number[w][a] = 0
          BY <2>5, <3>4 DEF Match, NumbersKnown
      <4>2. primaryById[a] # NoEntry /\ m.number = primaryById[a].number
          BY <1>1, <2>1, <3>4 DEF Announced
      <4>3. primaryByNumber[m.number] = a
          BY <1>1, <2>1, <4>2 DEF RoutesAgree
      <4> QED BY <2>1, <3>1, <3>2, <3>4, <4>1, <4>3
    <3> QED BY <3>3, <3>4
  <2> QED BY <2>1, <2>2, <2>4, <2>5
<1> QED BY <1>2, <1>3, WorkerFrame

\* Every step keeps what is known of numbers and calls.
LEMMA KnownStep ==
    ASSUME NumbersKnown, CallsKnown, RegistriesInv, [Next]_vars
    PROVE  /\ NumbersKnown' /\ CallsKnown'
           /\ \A w \in Workers, a \in Apis :
                  call[w][a] # "none" => number'[w][a] = number[w][a]
<1>1. ASSUME NEW w \in Workers, NEW a \in Apis, number'[w][a] # 0
      PROVE  complete'[w][a] /\ primaryByNumber'[number'[w][a]] = a
  <2>1. PICK n : n = number'[w][a]
      OBVIOUS
  <2>2. complete'[w][a] /\ n \in Numbers /\ primaryByNumber[n] = a
      BY <1>1, <2>1, NumberStep, NumbersDiffer DEF NumbersKnown
  <2>3. primaryByNumber'[n] = a
      BY <2>2, NumberStands
  <2> QED BY <2>1, <2>2, <2>3
<1>2. ASSUME NEW w \in Workers, NEW a \in Apis, number[w][a] # 0
      PROVE  number'[w][a] = number[w][a]
    BY <1>2, NumberStep
<1>3. ASSUME NEW w \in Workers, NEW a \in Apis, call'[w][a] # "none"
      PROVE  number[w][a] # 0
  <2>1. Run(w, a) => number[w][a] # 0
      BY DEF Run
  <2>2. call[w][a] # "none" \/ Run(w, a)
      BY <1>3, CallStep DEF Granted
  <2> QED BY <2>1, <2>2 DEF CallsKnown
<1> QED BY <1>1, <1>2, <1>3 DEF NumbersKnown, CallsKnown

\* A grant at the head of a channel is for a call of the limiter it is routed to.
LEMMA GrantOwned ==
    ASSUME PermitsInv, RegistriesInv, NEW w \in Workers, HandleGrant(w), NEW a \in Apis,
           workerByNumber[w][Head(toWorker[w]).number] = a
    PROVE  /\ call[w][a] # "none" /\ Grants(w, number[w][a])
           /\ Head(toWorker[w]) = Hot("grant", number[w][a])
<1>1. Types /\ ChannelTypes /\ RoutesAgree
    BY DEF RegistriesInv, Types
<1>2. /\ Head(toWorker[w]) \in MessageDown /\ Head(toWorker[w]) \in Elements(toWorker[w])
      /\ Head(toWorker[w]).type = "grant"
    BY <1>1, Heads DEF HandleGrant, FromPrimary
<1>3. PICK k \in Numbers : Head(toWorker[w]) = Hot("grant", k) /\ k = Head(toWorker[w]).number
    BY <1>2, MessageFields, HotForms
<1>4. number[w][a] = k
    BY <1>1, <1>3 DEF RoutesAgree
<1>5. Grants(w, k)
    BY <1>2, <1>3 DEF Grants
<1>6. PICK b \in Apis : number[w][b] = k /\ call[w][b] # "none"
    BY <1>5 DEF PermitsInv, PermitsOwned
<1>7. k # 0
    BY DEF Numbers
<1>8. a = b
    BY <1>4, <1>6, <1>7, NumbersDiffer DEF PermitsInv
<1> QED BY <1>3, <1>4, <1>5, <1>6, <1>8

\* A request at the head of a channel is there.
LEMMA HeadThere ==
    ASSUME ChannelTypes, NEW w \in Workers, NEW n, NEW op, toPrimary[w] # <<>>,
           Head(toPrimary[w]) = Hot(op, n)
    PROVE  Hot(op, n) \in Elements(toPrimary[w])
BY Heads

\* Every step keeps what travels about a call of the worker's.
LEMMA OwnedStep ==
    ASSUME PermitsInv, RegistriesInv, [Next]_vars
    PROVE  PermitsOwned'
<1>0. NumbersKnown /\ CallsKnown /\ PermitsOwned /\ Types /\ ChannelTypes
    BY DEF PermitsInv, RegistriesInv, Types
<1>1. ASSUME NEW w \in Workers, NEW n \in Numbers, NEW a \in Apis,
             number[w][a] = n, call[w][a] # "none"
      PROVE  number'[w][a] = n /\ call'[w][a] # "none"
  <2>1. number'[w][a] = number[w][a]
      BY <1>0, <1>1, KnownStep
  <2>2. call'[w][a] # "none"
      BY <1>1, CallStep DEF Granted
  <2> QED BY <1>1, <2>1, <2>2
<1>2. ASSUME NEW w \in Workers, NEW n \in Numbers, Acquires(w, n)'
      PROVE  \E a \in Apis : number'[w][a] = n /\ call'[w][a] # "none"
  <2>1. Hot("acquire", n) \in Elements(toPrimary'[w])
      BY <1>2 DEF Acquires, Hot
  <2>2. CASE Fades(Hot("acquire", n), toPrimary[w], toPrimary'[w])
    <3>1. Acquires(w, n)
        BY <2>1, <2>2 DEF Fades, Acquires
    <3> QED BY <1>0, <1>1, <3>1 DEF PermitsOwned
  <2>3. ASSUME NEW a \in Apis, Run(w, a), number[w][a] = n
        PROVE  number'[w][a] = n /\ call'[w][a] # "none"
    <3>1. UNCHANGED number /\ call' = [call EXCEPT ![w][a] = "asking"]
        BY <2>3 DEF Run, workerVars
    <3> QED BY <1>0, <2>3, <3>1 DEF Types, WorkerTypes
  <2> QED BY <2>2, <2>3, UpStep
<1>3. ASSUME NEW w \in Workers, NEW n \in Numbers, Releases(w, n)'
      PROVE  \E a \in Apis : number'[w][a] = n /\ call'[w][a] # "none"
  <2>1. Hot("release", n) \in Elements(toPrimary'[w])
      BY <1>3 DEF Releases, Hot
  <2>2. CASE Fades(Hot("release", n), toPrimary[w], toPrimary'[w])
    <3>1. Releases(w, n)
        BY <2>1, <2>2 DEF Fades, Releases
    <3> QED BY <1>0, <1>1, <3>1 DEF PermitsOwned
  <2>3. ASSUME NEW a \in Apis, Returns(w, a), number[w][a] = n
        PROVE  number'[w][a] = n /\ call'[w][a] # "none"
    <3>1. call[w][a] # "none"
        BY <2>3, GrantOwned DEF Returns, CallSettles
    <3> QED BY <1>1, <2>3, <3>1
  <2> QED BY <2>2, <2>3, UpStep
<1>4. ASSUME NEW w \in Workers, NEW n \in Numbers, Grants(w, n)'
      PROVE  \E a \in Apis : number'[w][a] = n /\ call'[w][a] # "none"
  <2>1. Hot("grant", n) \in Elements(toWorker'[w])
      BY <1>4 DEF Grants, Hot
  <2>2. CASE Fades(Hot("grant", n), toWorker[w], toWorker'[w])
    <3>1. Grants(w, n)
        BY <2>1, <2>2 DEF Fades, Grants
    <3> QED BY <1>0, <1>1, <3>1 DEF PermitsOwned
  <2>3. CASE HandleAcquire(w) /\ Head(toPrimary[w]) = Hot("acquire", n)
    <3>1. Acquires(w, n)
        BY <1>0, <2>3, HeadThere DEF HandleAcquire, FromWorker, Acquires
    <3> QED BY <1>0, <1>1, <3>1 DEF PermitsOwned
  <2> QED BY <2>2, <2>3, DownStep
<1> QED BY <1>2, <1>3, <1>4 DEF PermitsOwned

\* A call that starts has nothing on its way but its request.
LEMMA RunStarts ==
    ASSUME PermitsInv, RegistriesInv, [Next]_vars, NEW w \in Workers, NEW a \in Apis,
           Run(w, a), NEW n \in Numbers, n = number[w][a]
    PROVE  call'[w][a] = "asking" /\ OnePermit(w, a, n)'
<1>0. NumbersKnown /\ CallsKnown /\ PermitsOwned /\ Types /\ ChannelTypes
    BY DEF PermitsInv, RegistriesInv, Types
<1>1. /\ call[w][a] = "none" /\ call' = [call EXCEPT ![w][a] = "asking"]
      /\ toPrimary' = [toPrimary EXCEPT ![w] = Append(@, Hot("acquire", n))] /\ UNCHANGED toWorker
    BY DEF Run
<1>2. ~Acquires(w, n) /\ ~Releases(w, n) /\ ~Grants(w, n)
  <2>1. ASSUME Acquires(w, n) \/ Releases(w, n) \/ Grants(w, n) PROVE FALSE
    <3>1. PICK b \in Apis : number[w][b] = n /\ call[w][b] # "none"
        BY <1>0, <2>1 DEF PermitsOwned
    <3>2. n # 0
        BY DEF Numbers
    <3>3. a = b
        BY <1>0, <3>1, <3>2, NumbersDiffer
    <3> QED BY <1>1, <3>1, <3>3
  <2> QED BY <2>1
<1>3. /\ Hot("acquire", n) \notin Elements(toPrimary[w]) /\ Hot("release", n) \notin Elements(toPrimary[w])
      /\ Hot("grant", n) \notin Elements(toWorker[w])
    BY <1>2 DEF Acquires, Releases, Grants
<1>4. /\ toPrimary[w] \in Seq(MessageUp) /\ Hot("acquire", n) \in MessageUp
      /\ toPrimary'[w] = Append(toPrimary[w], Hot("acquire", n))
    BY <1>0, <1>1, MessageForms DEF ChannelTypes
<1>5. OnceIn(Hot("acquire", n), toPrimary'[w])
  <2>1. OnceIn(Hot("acquire", n), toPrimary[w])
      BY <1>3 DEF OnceIn, Elements
  <2> QED BY <1>3, <1>4, <2>1, OnceAppend
<1>6. Hot("release", n) \notin Elements(toPrimary'[w])
  <2>1. Elements(toPrimary'[w]) = Elements(toPrimary[w]) \cup {Hot("acquire", n)}
      BY <1>4, ElementsAppend
  <2> QED BY <1>3, <2>1, HotForms
<1>7. Hot("grant", n) \notin Elements(toWorker'[w]) /\ OnceIn(Hot("grant", n), toWorker'[w])
    BY <1>1, <1>3 DEF OnceIn, Elements
<1>8. call'[w][a] = "asking"
    BY <1>0, <1>1 DEF Types, WorkerTypes
<1>9. ~Releases(w, n)' /\ ~Grants(w, n)'
    BY <1>6, <1>7 DEF Releases, Grants, Hot
<1>10. OnceIn(Hot("acquire", n), toPrimary[w])' /\ OnceIn(Hot("grant", n), toWorker[w])'
    BY <1>5, <1>7 DEF Hot, OnceIn
<1> QED BY <1>8, <1>9, <1>10 DEF OnePermit

\* A call that is granted its permit has used its one grant.
LEMMA GrantUsed ==
    ASSUME PermitsInv, RegistriesInv, [Next]_vars, NEW w \in Workers, NEW a \in Apis,
           Granted(w, a), NEW n \in Numbers, n = number[w][a]
    PROVE  OnePermit(w, a, n)'
<1>0. NumbersKnown /\ CallsKnown /\ PermitsOwned /\ Types /\ ChannelTypes
    BY DEF PermitsInv, RegistriesInv, Types
<1>1. Grants(w, n) /\ Head(toWorker[w]) = Hot("grant", n)
    BY GrantOwned DEF Granted
<1>2. /\ call[w][a] = "asking" /\ call'[w][a] = "running"
      /\ UNCHANGED <<toPrimary, leased, proc, primaryById, primaryByNumber>>
    BY DEF Granted, HandleGrant, primaryVars
<1>3. OnePermit(w, a, n)
    BY <1>2 DEF PermitsInv
<1>4. /\ ~Releases(w, n) /\ ~Acquires(w, n) /\ OnceIn(Hot("grant", n), toWorker[w])
      /\ Semaphore(n) /\ ~Ended(w) => <<n, w>> \in leased
    BY <1>1, <1>2, <1>3 DEF OnePermit
<1>5. toWorker[w] # <<>> /\ toWorker[w] \in Seq(MessageDown) /\ toWorker'[w] = Tail(toWorker[w])
    BY <1>0 DEF Granted, HandleGrant, FromPrimary, ChannelTypes
<1>6. Hot("grant", n) \notin Elements(toWorker'[w])
    BY <1>1, <1>4, <1>5, OnceTail
<1>7. ~Releases(w, n)' /\ ~Acquires(w, n)' /\ ~Grants(w, n)'
    BY <1>2, <1>4, <1>6 DEF Releases, Acquires, Grants, Hot
<1>8. Semaphore(n)' /\ ~Ended(w)' => <<n, w>> \in leased'
    BY <1>2, <1>4 DEF Semaphore, Ended
<1> QED BY <1>2, <1>7, <1>8 DEF OnePermit

\* While a call asks or runs, only its own steps send about its permit.
LEMMA OthersFade ==
    ASSUME PermitsInv, RegistriesInv, [Next]_vars, NEW w \in Workers, NEW a \in Apis,
           call'[w][a] = call[w][a], call[w][a] \in {"asking", "running"},
           NEW n \in Numbers, n = number[w][a]
    PROVE  /\ Fades(Hot("acquire", n), toPrimary[w], toPrimary'[w])
           /\ Fades(Hot("release", n), toPrimary[w], toPrimary'[w])
<1>0. NumbersKnown /\ Types /\ n # 0
    BY DEF PermitsInv, RegistriesInv, Numbers
<1>1. ASSUME NEW b \in Apis, number[w][b] = n PROVE b = a
    BY <1>0, <1>1, NumbersDiffer
<1>2. ASSUME NEW b \in Apis, Run(w, b), number[w][b] = n PROVE FALSE
    BY <1>1, <1>2 DEF Run
<1>3. ASSUME NEW b \in Apis, Returns(w, b), number[w][b] = n PROVE FALSE
  <2>1. b = a
      BY <1>1, <1>3
  <2>2. CASE CallSettles(w, a)
    <3>1. call'[w][a] = "over"
        BY <1>0, <2>2 DEF CallSettles, Types, WorkerTypes
    <3> QED BY <3>1
  <2>3. CASE /\ HandleGrant(w) /\ workerByNumber[w][Head(toWorker[w]).number] = a
             /\ call[w][a] # "asking"
    <3>1. call[w][a] = "running" /\ Grants(w, n)
        BY <2>3, GrantOwned
    <3>2. OnePermit(w, a, n)
        BY <3>1 DEF PermitsInv
    <3> QED BY <3>1, <3>2 DEF OnePermit
  <2> QED BY <1>3, <2>1, <2>2, <2>3 DEF Returns
<1> QED BY <1>2, <1>3, UpStep

\* A call that goes on asking or running keeps its one permit.
LEMMA PermitKept ==
    ASSUME PermitsInv, RegistriesInv, [Next]_vars, NEW w \in Workers, NEW a \in Apis,
           call'[w][a] = call[w][a], call[w][a] \in {"asking", "running"},
           NEW n \in Numbers, n = number[w][a]
    PROVE  OnePermit(w, a, n)'
<1>0. NumbersKnown /\ CallsKnown /\ PermitsOwned /\ Types /\ ChannelTypes /\ OnePermit(w, a, n)
    BY DEF PermitsInv, RegistriesInv, Types
<1>1. /\ Fades(Hot("acquire", n), toPrimary[w], toPrimary'[w])
      /\ Fades(Hot("release", n), toPrimary[w], toPrimary'[w])
    BY OthersFade
<1>2. ~Releases(w, n)
    BY <1>0 DEF OnePermit
<1>3. Hot("release", n) \notin Elements(toPrimary'[w])
    BY <1>1, <1>2 DEF Fades, Releases
<1>4. ~Releases(w, n)'
    BY <1>3 DEF Releases, Hot
<1>5. (Semaphore(n)' => Semaphore(n)) /\ (~Ended(w)' => ~Ended(w))
  <2>1. primaryByNumber[n] = a
      BY <1>0 DEF NumbersKnown, Numbers
  <2>2. primaryByNumber'[n] = a /\ primaryById'[a] = primaryById[a]
      BY <2>1, NumberStands
  <2>3. a # NoApi
      BY ConstantsAssumption
  <2> QED BY <2>1, <2>2, <2>3, EndStep DEF Semaphore
<1>6. ASSUME <<n, w>> \in leased, ~Ended(w) PROVE <<n, w>> \in leased'
  <2>1. CASE HandleRelease(w) /\ Head(toPrimary[w]) = Hot("release", n)
      BY <1>0, <1>2, <2>1, HeadThere DEF HandleRelease, FromWorker, Releases
  <2> QED BY <1>6, <2>1, LeaseStep
<1>7. CASE Fades(Hot("grant", n), toWorker[w], toWorker'[w])
  <2>1. (Acquires(w, n)' => Acquires(w, n)) /\ (Grants(w, n)' => Grants(w, n))
      BY <1>1, <1>7 DEF Acquires, Grants, Fades, Hot
  <2>2. /\ OnceIn(Hot("acquire", n), toPrimary[w]) => OnceIn(Hot("acquire", n), toPrimary[w])'
        /\ OnceIn(Hot("grant", n), toWorker[w]) => OnceIn(Hot("grant", n), toWorker[w])'
      BY <1>1, <1>7 DEF Fades, OnceIn, Hot
  <2> QED BY <1>0, <1>4, <1>5, <1>6, <2>1, <2>2 DEF OnePermit
<1>8. CASE /\ HandleAcquire(w) /\ Head(toPrimary[w]) = Hot("acquire", n)
           /\ toWorker'[w] = Append(toWorker[w], Hot("grant", n))
           /\ Semaphore(n) => <<n, w>> \in leased'
  <2>1. /\ toPrimary[w] # <<>> /\ toPrimary[w] \in Seq(MessageUp)
        /\ toPrimary'[w] = Tail(toPrimary[w])
      BY <1>0, <1>8 DEF HandleAcquire, FromWorker, ChannelTypes
  <2>2. Acquires(w, n)
      BY <1>0, <1>8, <2>1, HeadThere DEF Acquires
  <2>3. /\ call[w][a] = "asking" /\ ~Grants(w, n)
        /\ OnceIn(Hot("acquire", n), toPrimary[w]) /\ OnceIn(Hot("grant", n), toWorker[w])
      BY <1>0, <2>2 DEF OnePermit
  <2>4. Hot("acquire", n) \notin Elements(toPrimary'[w]) /\ OnceIn(Hot("acquire", n), toPrimary'[w])
      BY <1>8, <2>1, <2>3, OnceTail
  <2>5. OnceIn(Hot("grant", n), toWorker'[w])
    <3>1. toWorker[w] \in Seq(MessageDown) /\ Hot("grant", n) \in MessageDown
        BY <1>0, MessageForms DEF ChannelTypes
    <3>2. Hot("grant", n) \notin Elements(toWorker[w])
        BY <2>3 DEF Grants
    <3> QED BY <1>8, <2>3, <3>1, <3>2, OnceAppend
  <2>6. ~Acquires(w, n)'
      BY <2>4 DEF Acquires, Hot
  <2>7. OnceIn(Hot("acquire", n), toPrimary[w])' /\ OnceIn(Hot("grant", n), toWorker[w])'
      BY <2>4, <2>5 DEF OnceIn, Hot
  <2>8. call'[w][a] = "asking"
      BY <2>3
  <2> QED BY <1>4, <1>5, <1>8, <2>6, <2>7, <2>8 DEF OnePermit
<1> QED BY <1>7, <1>8, DownStep

\* Every step keeps the permits where they belong.
LEMMA PermitsStep ==
    ASSUME PermitsInv, RegistriesInv, [Next]_vars
    PROVE  PermitsInv'
<1>1. NumbersKnown' /\ CallsKnown' /\ PermitsOwned'
    BY KnownStep, OwnedStep DEF PermitsInv
<1>2. ASSUME NEW w \in Workers, NEW a \in Apis, call'[w][a] # "none"
      PROVE  OnePermit(w, a, number[w][a])'
  <2>1. PICK n : n = number[w][a]
      OBVIOUS
  <2>2. call[w][a] # "none" \/ Run(w, a)
      BY <1>2, CallStep DEF Granted
  <2>3. n # 0
      BY <2>1, <2>2 DEF PermitsInv, CallsKnown, Run
  <2>4. n \in Numbers /\ number'[w][a] = n
      BY <2>1, <2>3, NumbersDiffer, NumberStep DEF PermitsInv
  <2>5. OnePermit(w, a, n)'
    <3>1. CASE call'[w][a] = call[w][a] /\ call[w][a] \in {"asking", "running"}
        BY <2>1, <2>4, <3>1, PermitKept
    <3>2. CASE Run(w, a)
        BY <2>1, <2>4, <3>2, RunStarts
    <3>3. CASE Granted(w, a)
        BY <2>1, <2>4, <3>3, GrantUsed
    <3>4. CASE call'[w][a] \notin {"asking", "running"}
        BY <3>4 DEF OnePermit
    <3> QED BY <3>1, <3>2, <3>3, <3>4, CallStep
  <2> QED BY <2>4, <2>5
<1> QED BY <1>1, <1>2 DEF PermitsInv

\* At the start no number is known, nothing travels.
LEMMA PermitsInit == Init => PermitsInv
<1> SUFFICES ASSUME Init PROVE PermitsInv
    OBVIOUS
<1>1. \A w \in Workers, a \in Apis : number[w][a] = 0 /\ call[w][a] = "none"
    BY DEF Init
<1>2. \A w \in Workers : Elements(toWorker[w]) = {} /\ Elements(toPrimary[w]) = {}
    BY ElementsEmpty DEF Init
<1>3. PermitsOwned
    BY <1>2 DEF PermitsOwned, Acquires, Releases, Grants
<1> QED BY <1>1, <1>3 DEF PermitsInv, NumbersKnown, CallsKnown

-----------------------------------------------------------------------------
(***************************************************************************)
(* The theorems.                                                           *)
(***************************************************************************)

\* The invariant that the others follow from.
THEOREM Invariance == Spec => []RegistriesInv
<1>1. RegistriesInv /\ [Next]_vars => RegistriesInv'
    BY TypesStep, AnnouncedStep, RoutesStep, LeasesStep, AbsentStep, HandlesStep, RendezvousStep
       DEF RegistriesInv
<1> QED BY InitInv, <1>1, PTL DEF Spec

\* The registries of every process have their types, and hold valid arguments
\* only: whatever the application gives a factory, index.js:69 and :125.
THEOREM TypeCorrect == Spec => []TypeOK
<1>1. RegistriesInv => TypeOK
  <2> SUFFICES ASSUME RegistriesInv PROVE TypeOK
      OBVIOUS
  <2>1. PrimaryTypes /\ WorkerTypes
      BY DEF RegistriesInv, Types
  <2>2. ASSUME NEW a \in Apis, primaryById[a] # NoEntry
        PROVE  /\ primaryById[a].config.mode \in Mode /\ primaryById[a].config.max \in Nat \ {0}
               /\ primaryById[a].number \in Numbers
    <3>1. primaryById[a] \in Entry
        BY <2>1, <2>2 DEF PrimaryTypes
    <3> QED BY <3>1 DEF Entry, Arguments
  <2>3. ASSUME NEW w \in Workers, NEW a \in Apis, workerById[w][a] # NoEntry
        PROVE  workerById[w][a].mode \in Mode /\ workerById[w][a].timeout \in Nat \ {0}
    <3>1. workerById[w][a] \in WorkerEntry
        BY <2>1, <2>3 DEF WorkerTypes
    <3> QED BY <3>1, ConstantsAssumption DEF WorkerEntry, ValidAtWorker, ArgumentsAtWorker
  <2> QED BY <2>1, <2>2, <2>3 DEF TypeOK, PrimaryTypes, WorkerTypes
<1> QED BY Invariance, <1>1, PTL

\* A message is routed to the limiter it was meant for, whichever process made
\* its limiter first: BasePrimaryLimiter.js:162-174, BaseWorkerLimiter.js:347-374.
THEOREM Routes == Spec => []RoutesAgree
<1>1. RegistriesInv => RoutesAgree
    BY DEF RegistriesInv
<1> QED BY Invariance, <1>1, PTL

\* Nobody holds a limiter that another configuration has replaced or that is not
\* routed to: index.js:70-80 and :126-135.
THEOREM OneLimiter == Spec => []OneLimiterPerApi
<1>1. RegistriesInv => OneLimiterPerApi
    BY DEF RegistriesInv, HandlesStand, OneLimiterPerApi
<1> QED BY Invariance, <1>1, PTL

\* The exit of a worker takes its permits back from every limiter there is, and
\* none is leased to it later: primaryLimiterRegistry.js:79-85.
THEOREM ExitReaches == Spec => []ReapedHoldsNothing
<1>1. RegistriesInv => ReapedHoldsNothing
    BY DEF RegistriesInv
<1> QED BY Invariance, <1>1, PTL

\* In any order of fork, creation and publication, with any number of workers and
\* limiters, a worker's limiter without a verdict has a message to wait for:
\* BaseWorkerLimiter.js:127, BasePrimaryLimiter.js:209 and :225.
THEOREM Rendezvous == Spec => []NoMissedRendezvous
<1>1. RegistriesInv => NoMissedRendezvous
    BY DEF RegistriesInv
<1> QED BY Invariance, <1>1, PTL

\* A call runs under a permit of its own limiter, for any number of limiters,
\* workers and calls, in any interleaving of grants, timeouts, releases and
\* exits: primaryLimiterRegistry.js:63-69, workerLimiterRegistry.js:58-65.
THEOREM PermitsHeld == Spec => []RunsUnderItsPermit
<1>1. PermitsInv /\ RegistriesInv /\ [Next]_vars => PermitsInv'
    BY PermitsStep
<1>2. PermitsInv /\ RegistriesInv => RunsUnderItsPermit
  <2> SUFFICES ASSUME PermitsInv, RegistriesInv, NEW w \in Workers, NEW a \in Apis,
                      Up(w), call[w][a] = "running", primaryById[a].config.mode = "semaphore"
               PROVE  <<primaryById[a].number, w>> \in leased
      BY DEF RunsUnderItsPermit
  <2>1. PICK n : n = number[w][a]
      OBVIOUS
  <2>2. n \in Numbers /\ primaryByNumber[n] = a /\ OnePermit(w, a, n)
      BY <2>1, NumbersDiffer DEF PermitsInv, CallsKnown, NumbersKnown
  <2>3. primaryById[a].number = n
      BY <2>2 DEF RegistriesInv, RoutesAgree
  <2>4. Semaphore(n) /\ ~Ended(w)
      BY <2>2, ConstantsAssumption DEF Semaphore, Ended, Up
  <2> QED BY <2>2, <2>3, <2>4 DEF OnePermit
<1> QED BY PermitsInit, <1>1, <1>2, Invariance, PTL DEF Spec
=============================================================================
