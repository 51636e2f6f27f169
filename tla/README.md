# Verification of cluster-rate-limiter

TLA+ specifications of the library's rate limiters, model-checked with TLC and,
for the parts that matter most, proved with TLAPS. The reference is the code
under `src/`; paths and line numbers below are relative to it.

## 1. The system

The library coordinates a rate limit over the workers of one `node:cluster`.
The primary process holds the only arbiter of a limit. Every worker has a
limiter object of the same provider id whose `run(fn)` asks the primary for a
permit over the IPC channel and calls `fn` when it is granted.

| Component | State | Operations | What makes it correct |
|---|---|---|---|
| **Semaphore limiter, primary** `rateLimiter/primary/PrimarySemaphoreLimiter.js` | `remainingTokens`, leases per worker, queue of requests, loop lock, send callbacks and retry timers | ACQUIRE, RELEASE, grant loop, failed or repeated or throwing grants, worker exit | tokens are never lost or made; at most N calls in flight; nobody queues while a token is free; exits reclaim exactly once |
| **Semaphore limiter, worker** `rateLimiter/worker/WorkerSemaphoreLimiter.js`, `BaseWorkerLimiter.js` | pending requests, request id counter, permit timers, release retries | `run`, GRANT, permit timeout, release with its retries | a permit that comes too late goes back; no permit is lost in silence |
| **Duration limiter, primary** `rateLimiter/primary/PrimaryDurationLimiter.js` | timestamp log, queue, lock of an asynchronous loop, timers | ACQUIRE, grant loop that sleeps inside its lock, refund, retries, exit | at most N slots in any window; the log stays sorted and within its capacity; nobody is forgotten while the loop sleeps |
| **Duration limiter, worker** `rateLimiter/worker/WorkerDurationLimiter.js` | pending requests | `run`, GRANT, timeout | at most N calls started in any window |
| **Handshake (cold path)** `BaseWorkerLimiter.js`, `BasePrimaryLimiter.js` | current promise and its trackers, timers, flags of the verdict | publish, announce, ask, answer, time out, fail, `ready()` | nobody passes without a match; the verdict, once there, stands; nobody hangs |
| **Grant log** `lib/Float64SortedQueue.js` | ring buffer of timestamps | enqueue, dequeue, peek, removeBefore, clear | a bounded sorted sequence |
| **Request queues** `lib/Int32Queue.js` | growing ring buffer | enqueue (grow), dequeue, clear | a FIFO queue |
| **Protocol, routers** `shared/ipc-protocol.js`, the two `registry/*.js` | routes per limiter | dispatch of messages and of exits to the limiters | a message reaches the limiter it is for, an exit reaches them all |
| **Registries, factories** `index.js`, `registry/*.js` | limiters by provider id and by number, the number counter | create, return the existing one, refuse conflicting arguments, announce, roll back | one limiter per id, the maps of both sides agree, no limiter waits for an announcement nobody sends |
| **Events** `events/*.js` | listener buckets, emissions in progress | on, once, off, clear, emit, safe error | once is once, errors do not recurse, an emission reaches everybody and ends |
| **Validators, errors, types, packaging** | none | | arguments are checked before anything else happens |

**Interactions.** A worker and the primary share nothing but their channel:
ACQUIRE and RELEASE one way, GRANT the other, plus the two messages of the
handshake. `cluster` tells the primary of exits. Within a process everything
runs on one JavaScript thread; concurrency comes from the processes, from the
timers, and from the error callbacks of `send`, which come later than the call.

**What is hard.** A GRANT crosses the worker's timeout. A send fails later, and
is tried again later still, while its worker exits. Exit events overtake or
follow messages. The semaphore's loop is re-entered from a refund inside it; the
duration's loop keeps its lock over an `await`. Refunds drop the *oldest*
timestamp, not their own. Attempts of the handshake overlap, and the error
callback of one touches the trackers of another. Announcements, forks and the
creation of limiters happen in any order. Listeners run inside the emission
they may change. Request ids come round. `PROJECT.json` lists these
hazards with their lines and the properties that would notice.

## 2. Modules

### The semaphore limiter

```
ClusterIpc <- PrimarySemaphoreLimiter \
           <- WorkerSemaphoreLimiter   -> SemaphoreSystem -> SemaphoreSystemInv
                                                              |-> SemaphoreSystemProofs
                                          PermitPool ---------|-> SemaphoreRefinementProofs
                                                              '-> MCSemaphoreSystem
```

* `ClusterIpc` is external: what the code relies on in `node:cluster`. A worker
  is up, disconnected (it runs on without a channel), exited, or reaped (the
  primary has run the callback that flips `isDead()` and emits `exit`). Each
  channel direction is FIFO. Messages a dead worker wrote are still read, also
  after its exit event. What travels to it is lost.
* `PrimarySemaphoreLimiter`: `queue` stands for the two parallel queues,
  `leased` for `clusterPendingRequests`, `remaining` for `remainingTokens`,
  `granting` for the lock. Each callback of the primary is one action. The
  grant loop is one action per iteration because workers run meanwhile; no other
  callback of the primary can, hence the guard `~granting`. A throwing send gives
  its token back inside the iteration and finds the lock held.
* `WorkerSemaphoreLimiter`: `call` says how far each `run()` has come. A release
  is sent, or fails later and sets a 50 ms timer, or is given up and reported.
  The error callback of a failed release does nothing but set its timer, so both are
  one pending entry of `releaseTimers`.
* `SemaphoreSystem` composes them and states the properties. `SequenceElements`
  has the elements of a channel and what `Append` and `Tail` do to them.
* `PermitPool` is the promise to the callers of `run()`: a pool of permits
  without processes or messages. `SemaphoreSystem` implements it with
  `leases <- leased`, `active <- InFlight`, `started <- Started`.

### The duration limiter

* `PrimaryDurationLimiter`: a discrete clock; `log` is the timestamp log as a
  sequence. `loop` says where the asynchronous loop stands: `idle` (lock free),
  `sleep` (its timer runs, other callbacks may run), `dispatch` (it goes on in
  the next microtask; a callback of the same turn may still come first, a timer
  may not), `spin` (the clock stands exactly at the expiry of the oldest
  timestamp, where `removeBefore` is strict and the wait is zero: the thread turns
  without yielding until the clock moves).
* `DurationSystem` adds the worker (the call starts when its GRANT arrives,
  unless its permit has timed out; an ACQUIRE that cannot be sent rejects it),
  the delivery time of a GRANT and the clock.
* `DurationSystemInv` holds the inductive invariant, `DurationProofs` proves the
  safety properties of the limiter, the window of the calls that start included.

### The handshake

* `Handshake`: one worker's limiter and the primary's, same mode or not. Every
  attempt makes a promise; promise 0 is the one made when the announcement comes
  while no attempt is open. `current`, `trackers`, `timers` are the code's fields;
  `Call`, `Resume`, `Retry` and `GiveUp` are `run()` between the awaits of
  `ready()`.
* `HandshakeProofs` proves its safety properties and counts its attempts and messages.

### Many limiters: factories, registries, routers

* `LimiterRegistries`: the two maps of the primary and of each worker, what the
  factories have returned (`primaryHandles`, `workerHandles`), the number a
  worker's limiter has learnt, and the messages, with the api or the number the
  routers look up. A limiter is reduced to what routing needs: a semaphore
  leases a permit to whoever asks and takes it back on RELEASE or exit, a duration
  limiter just answers; the limiters' own modules say the rest. A worker may be
  forked before or after the primary publishes, and creates its limiters when it
  likes. `MCLimiterRegistries` gives the arguments and two applications: one worker
  with both apis, and two workers that share one. `LimiterRegistriesProofs` proves
  its safety properties.

### Listeners

* `EventListeners`: `on` and `once` are the buckets of `failure`
  (`grantPermitFailure` at the primary, `releasePermitFailure` at a worker) and of
  `error`; `stack` is the emissions in progress, each with what is left of its
  snapshot and the listener that runs. User code registers and removes listeners
  while no emission runs or from inside a listener, which then returns, throws, or
  returns a promise that rejects in a later microtask. A frame's `cause` is the
  event whose listener failed, if that is what the emission reports. An error that
  `process.emitWarning` cannot print leaves all emissions (`Escape`); `unprintable`
  is a history variable that counts these errors. `EventListenersProofs` proves its
  safety properties.

### Request ids

* `RequestIdWrap`: one worker of a semaphore with an id space so small that ids
  come round. An id is taken again only when nothing but a running call can
  still hold it (`OnlyHeldByACall`): with 2^31 ids anything else has long
  timed out or arrived.

### The data structures

* `Float64SortedQueue` (ring buffer, binary search by a recursive function of the
  pair of bounds) and its abstraction `SortedLog`; `Int32Queue` (ring buffer with
  growth) and its abstraction `FifoQueue`. The limiters' modules use the
  abstractions' sequences. `MCQueues` instantiates both; a behaviour uses one of
  them. `QueueProofs` proves both refinements.

Operators whose comment begins with "Mutant of" are deliberately wrong versions of the
definition that follows them. No specification uses them; substituted for that
definition they show that the property they are meant for can fail.

## 3. Runs

| Configuration | Question | Instance |
|---|---|---|
| `SemaphoreSafety` | The limit, the conservation of tokens, no idle token, no token of a reaped worker, no silent leak, no revoked permit, `PermitPool`, and the inductive invariant of the proofs | 2 workers, 2 calls each, 1 token, 1 retry, every fault |
| `SemaphoreLiveness` | All tokens come back, every queued request leaves the queue | 2 workers, 2 calls each, 1 token, exits and failing or throwing grants |
| `DurationSafety` | Slots kept and calls *started* in a window, the log's order and capacity, an entry for each slot kept, no forgotten request | 2 workers, 2 calls each, 2 slots, window 1 + 2, GRANTs that travel up to the jitter buffer (2), timers that fire late, exits, failing and throwing grants, timeouts, no retry |
| `DurationServed` | Every queued request is served; the inductive invariant when grants are repeated and refunds come late | 2 workers, 2 calls each, 1 slot, 1 retry, exits, failing and throwing grants, ACQUIREs that cannot be sent |
| `DurationRetriedStarts` | *fails*: finding 1 | 2 workers, 1 slot, 3 retries of one unit each |
| `DurationRefundWhileAsleep` | *fails*: finding 2 | 2 workers, 1 slot |
| `HandshakeVerdict` | Hot path only after a match, the verdict stands, every `run()` leaves the handshake | 3 `run()` calls, every fault but a throwing send |
| `HandshakeThrow` | *fails*: finding 3 | 3 `run()` calls, a throwing send |
| `Queues` | The rings implement `SortedLog` and `FifoQueue` | 3 slots and 6 timestamps; from 2 slots through two doublings to 8 |
| `Registries` | One limiter per api with the arguments given, the maps of both sides agree, a call runs under a permit of its own api, an exit reaches every limiter, no announcement is missed, every limiter gets its verdict | 2 workers, 2 apis, both modes, conflicting and invalid arguments, a log that cannot be allocated, exits |
| `Events` | No `once()` runs twice or is lost, no error listener runs because one failed, nobody of a snapshot is passed over, emissions end | 2 listeners on both events, 1 promise that rejects later, 1 error that cannot be printed |
| `RequestIdWrap` | *fails*: finding 4 | 1 worker, 2 ids, 2 tokens, 4 calls |

**Why the bounds are enough.** With one token and four requests there is always
somebody to pass a wrongly freed token to, and somebody to starve. Two workers
give one that exits and one that must not notice; the second call of each
exercises fresh ids and the order within a channel. One retry distinguishes
"again" from "for the last time". A retry limit of 0 for releases still has the
two outcomes (timer at attempt 0, report at attempt 1). For the window, 4 calls
against 2 slots let a refund drop the entry of another request; with one slot and
a retry that takes longer than the window (`DurationServed`) a refund comes after
its own entry has expired and a later call has taken the slot. The clock runs past
the end of the first window, where entries expire and slots are taken again. The
ring buffers wrap around at every offset; three slots have a middle for the
binary search. Two apis in one worker are what a wrong route needs; two workers
at one api are what a wrong exit needs. Numbers are generated up to 3, which leaves
one to be lost in a constructor that fails. Two listeners are one that runs and one
it adds or removes, and the same function can be in four buckets.
The bounds are `MaxCalls`, `AcquireBy` and `MaxTime` (the clock
stops), `MaxCapacity` (the last growth), `MaxNumber`, `MaxRejections`,
`MaxUnprintable` and the number of `Callers`. They let a
system finish, so runs other than those of the data structures and the
listeners do not check deadlock; the liveness properties say instead that nothing is stuck.

**Time.** A unit is a fraction of the 50 ms of the jitter buffer and of the retry
delay (the buffer is 1 unit, in `DurationSafety` 2), and a window is a few units:
only comparisons between these matter. The coarse clock makes the strict
comparison of `removeBefore` worth a whole unit, which is why `DurationSafety`
takes a buffer of 2: there the property fails as soon as the buffer is left out. With
`Prompt = TRUE` an event loop runs what is due before the clock moves; with
`FALSE` timers and callbacks may be arbitrarily late. Latency is the longest
travel of a GRANT.

**Fairness.** Weak fairness of every callback that is due at the primary; of
delivery, settlement of the caller function, and release timers at a live worker;
in the duration model also of the clock; in the handshake of the worker's timers,
microtasks and error callbacks. An event loop never drops what is due, which is
what weak fairness says. That a caller function settles is the library's own
contract (an unsettled function holds its permit for good). Nothing makes a
worker call `run()`, time out or exit, and nothing makes the primary publish. In
`LimiterRegistries` both event loops read what was sent, a worker's once it
has its first limiter and with it a listener. In `EventListeners` an emission goes
on, and a listener's code ends; nothing makes listeners stop registering others. Liveness
of the semaphore is checked without a worker's own sends failing: a release that is
given up leaks its token and is reported (`BaseWorkerLimiter.js:264`), which is
what `NoSilentLeak` says; with that the tokens do not all return until the worker exits.

## 4. Findings

1. **A retried GRANT starts its call outside the window it is counted in**
   (`PrimaryDurationLimiter.js:151`). A failed GRANT is sent again after 50 ms, up
   to three times, under its first timestamp, while the jitter buffer is 50 ms
   (`:55`). A call granted one window after that timestamp starts less than a
   window after the retried one. `README.md:109` promises at most N calls *started*
   in any trailing window. Run `DurationRetriedStarts`.
2. **A refund during the loop's sleep is not instant** (`PrimaryDurationLimiter.js:131`).
   `#refundSlot` calls `#grantPendingRequests`, which returns because the sleeping
   loop holds the lock; it sleeps on until the expiry of a timestamp that is
   gone. The comment at `:126` says the slot is refunded instantly. Requests are
   late, not lost. Run `DurationRefundWhileAsleep`.
3. **A throwing `process.send` in the handshake leaves its trackers behind**
   (`BaseWorkerLimiter.js:314`). The promise rejects, but the trackers stay until
   the 2000 ms timer. An announcement that comes meanwhile "resolves" the rejected
   promise; the handshake is complete, no new attempt starts, and every `run()` of
   that worker rejects. Run `HandshakeThrow`.
4. **A request id that comes round loses a token**
   (`BaseWorkerLimiter.js:192`). After `MAX_SMI` the next id is `MIN_SMI`, whatever call
   still runs under it. The primary takes a token for the second grant of that id,
   but the `Set` of leases has it already; two RELEASEs find one entry, and an exit
   returns one token per entry. `README.md:258` says capacity is freed when the
   worker is reaped. It takes 2^31 calls of one worker while one call runs. Run
   `RequestIdWrap`.
Also seen, and not stated as findings:

* When the error callback of a handshake attempt comes after that attempt's
  2000 ms, it clears the trackers of a later attempt, whose promise then waits for
  its own timeout although the announcement arrived. Nobody hangs and the verdict
  stands: `HandshakeVerdict` includes such callbacks.
* `process.emitWarning` throws when an error's message is not a string, `String()`
  when a thrown object has no string form (`triggerEvent.js:28`, `:54`). When a
  listener throws such an error with nobody listening to `error`, or an error listener
  does, the exception leaves the emission: the rest of the snapshot is not run, and its
  `once()` listeners, cleared before, are lost, although `triggerEvent.js:84` says
  all are executed safely. `OnceRunsOnce` and `AllListenersRun` allow for it
  (`Unreported`) and say that no other step does this.
* The rollback of `_kPublish` (`BasePrimaryLimiter.js:171`) would delete the route of
  the limiter whose number collides. It never runs: numbers are fresh
  (`RoutesAgree`), and announcing catches its own errors.

## 5. Proofs

The theorems hold for every set of workers, number of calls, tokens, retries
and every set of faults, under the named assumptions of the modules (natural
numbers, `MaxConcurrent` positive, a known kind of fault).

* **`SemaphoreSystemProofs`.** None of the safety properties is inductive: that a
  call in flight is leased depends on no GRANT being in the channel twice, on no
  RELEASE being there while the call runs, and on retries of an exited worker
  being harmless. `IInv` says at which stage of its life each request is:
  its ACQUIRE travels, it is queued, its GRANT travels or is about to be sent
  again, its call runs, its RELEASE travels. The stages exclude each other and
  each message is there at most once (`AtMostOnce`, `Stages`); ids are fresh
  (`FreshIds`); the loop is where the books say (`Accounts`). There is one lemma
  per action, and lemmas on what the shared helpers (`DecrementWorkerUsage`, `HandleWorkerExit`, ...) do.
  From `Invariance` follow `TypeCorrect`, `LimitsConcurrency`, `ConservesTokens`,
  `ReclaimsOnExit` and `NoLostWakeup`. A second part takes the worker's side in:
  given `IInv`, a lease of a connected worker stays accounted for on both sides. A
  GRANT that is handled starts the call or begins its return, a call that ends begins
  its return, and each attempt to return a token leaves a RELEASE in the channel, a
  timer for the next attempt, or a report (`NothingLeaksInSilence`).
* **`SemaphoreRefinementProofs`.** Under `IInv` every step of the system is a step
  of `PermitPool` or leaves its variables alone (`Refinement`); a step that takes
  a lease away never hits a call in flight (`NoRevocation`).
* **`HandshakeProofs`.** For any finite set of `run()` calls and any faults. That
  only a match opens the hot path (`OnlyMatchesPass`) follows from `MatchInv`: a
  promise resolves, and a caller goes on, only once the handshake is complete and the
  modes match, and a complete handshake has registered its route exactly when they
  match; no fault disturbs any of that. That the verdict stands
  (`VerdictIsKept`) needs a `process.send` that does not throw (with one that does it
  is false, finding 3): then the trackers belong to the promise `ready()` awaits,
  that promise is pending while an attempt is open, and an attempt is the
  constructor's or a distinct caller's, so attempts have numbers enough.
  `TypeCorrect` needs no assumption on the faults: `CountsInv` says that every
  question belongs to an attempt and every announcement answers a question, but for
  the one of the publication, which is why its bound is one less as long as nothing
  is published. That every `run()` leaves the handshake is model-checked without
  the throwing send.
* **`DurationProofs`.** For any finite set of workers, any limit, duration, jitter
  buffer, retries and faults, late timers included. `GrantWindow` is not inductive:
  a refund drops the *oldest* entry of the log, not its own, so that the log is
  soon not the slots' timestamps any more. `Backed` says what is left of that: for
  every time in the window, the slots kept since then are no more than the entries
  that are left when the ones before that time are taken off. A refund of a slot
  older than every entry keeps it, since the slot itself was counted. From `Backed`
  and the log's bound, a slot that is taken overruns no window that reaches up to
  now, and no other window changes. `StartWindow` follows for limiters whose
  GRANTs are not sent twice (`NoGrantIsRetried`; finding 1 is what happens
  otherwise) and travel no longer than the jitter buffer (`Latency <= Jitter`),
  for then (`Punctual`) the starts of a window took their slots in one window of
  the log. `removeBefore` is a cut where the sorted entries reach its argument
  (`CutAt`).
* **`LimiterRegistriesProofs`.** For any workers, apis and applications, any
  arguments, valid or not, and any number of limiters (the assumptions say that
  arguments are records of their type, and that `NoEntry` and `NoApi` are neither
  entries nor apis). `RegistriesInv` adds to the properties what makes them
  inductive: an announcement on its way carries the number and mode of the
  primary's entry (`Announced`), without which a worker would take over a wrong
  route; a worker's route leads to a limiter there is (`RoutesLead`); only published
  semaphores lease (`LeasedBySemaphores`), so that the loop of the exit event misses
  no lease; a worker that is not forked has no limiter (`AbsentIsEmpty`), so that
  a fork makes nobody wait. Entries never change once published (`EntriesStand`).
  For `NoMissedRendezvous` a step either lets a limiter begin to wait, and then sends
  something itself, or takes a message away: a question that is read is answered, an
  announcement that is read ends the waiting. `Routes`, `OneLimiter`,
  `ExitReaches`, `Rendezvous` and `TypeCorrect` follow.

  `PermitsHeld` (a call runs under a permit that the primary's limiter of the same
  api has leased to its worker) follows from a second invariant, `PermitsInv`: a
  number that a worker, a message or a route knows was handed out to one api
  (`NumbersKnown`, `CallsKnown`); a message is about a call (`PermitsOwned`), which
  has its ACQUIRE or its GRANT once on its way as long as it asks, nothing on its way
  as long as it runs, and its lease from the GRANT on (`OnePermit`). What a channel
  holds is followed through sends and reads by the lemmas of `SequenceElements`
  (`OnceIn`; `Fades`: nothing about this call came in).
* **`EventListenersProofs`.** For any finite set of listeners, any number of later
  rejections and of errors that cannot be printed. Emissions nest at most twice, an
  `error` inside a `failure` (`Nested`): the error of an error listener is not emitted
  again (`SafeFrame`). Then there is at most one snapshot per event, and a listener
  waits in the snapshot, in the bucket or, if it registers itself again while it waits,
  in both. An emission moves the whole bucket to the snapshot, a call takes one listener
  out of it, and an exception leaves at most one snapshot of an event behind
  (`Followed`, shown for every action). `NoRecursion` is an invariant; `OnceExactly`
  and `NobodySkipped` are action properties.
* **`QueueProofs`.** For any capacities, timestamps and values. `Ring` is the sequence that a
  buffer, a head and a size stand for; lemmas say what an element written at the
  tail, a head that moves and an unrolled copy do to it (`RingAppend`, `RingCut`,
  `RingUnrolled`), through the remainder of the indices. `QueueInv` and `LogInv` tie
  tail to head and size, and say that the log is sorted. `QueueRefinesFifo`
  follows step by step. For `LogRefinesSortedLog` the binary search has to return
  the number of entries below the target, for every log. The search is a
  recursive function on the pairs of its bounds. `SearchExists` gives it in closed
  form, so that the recursive definition means something; `SearchFinds` proves that
  it finds the cut without induction over data: among the ranges that
  fail there would be a smallest one, and its next probe leads to a smaller (`Least`).

Every invariant and every safety action property that a passing run checks is thus
also proved. Only model-checked is liveness (`AllTokensReturn`,
`EveryRequestIsDispatched`, `EveryRequestIsServed`, `EveryRunLeavesTheHandshake`,
`EveryLimiterIsReached`, `EmissionEnds`): fairness and `ENABLED` are beyond the
prover. The refinement of the queues by the limiters' modules is a matter of
substitution, not of a theorem: those modules are written with the sequences of
`SortedLog` and `FifoQueue`.

## 6. What is not modelled

* Messages that are not the library's: the signature and length checks drop them
  without a change of state. The checks of the process's role, of the id string
  and of the shape of internal arguments, likewise.
* The listeners' reports inside the limiters' own modules: they appear only where a
  property needs them (`reported`).
* A bucket's order of insertion: listeners of one `Set` run in any order.
* Request ids are fresh numbers everywhere but in `RequestIdWrap`.
* Timers of more than 24.8 days, and timers that fire early: the code asks
  the clock again after each sleep.
* Limiters are never destroyed; the code has no operation for it.
* Errors, type declarations, packaging: no state.

## 7. Plan

1. *Done.* Every component of section 1 modelled and checked; every safety property
   of the runs proved, the two refinements of the data structures and that of the
   pool of permits included.
2. Bounds that the liveness properties rest on, as safety theorems: that a failed
   GRANT or RELEASE is tried no more often than its limit, and that what is queued
   keeps its order in both limiters.
3. An abstract window limiter, with the duration limiter's slots shown to implement it.
