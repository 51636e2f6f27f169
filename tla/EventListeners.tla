------------------------- MODULE EventListeners -------------------------
(***************************************************************************)
(* The listeners of one limiter: the buckets of EventListenerRegistry.js   *)
(* and the emissions of triggerEvent.js, with the user code that registers *)
(* and removes listeners while an emission runs, throws, or returns a      *)
(* promise that rejects. "failure" is grantPermitFailure at the primary    *)
(* and releasePermitFailure at a worker. A Set's order of insertion is     *)
(* left out: listeners of one bucket run in any order.                     *)
(***************************************************************************)
EXTENDS Naturals, Sequences, FiniteSets

CONSTANTS
    Listener,
    NoOne,            \* not a listener
    MaxRejections,    \* bound: promises that are still to reject
    MaxUnprintable    \* bound: errors that cannot be printed

ASSUME ListenersAssumption ==
    IsFiniteSet(Listener) /\ NoOne \notin Listener /\ MaxRejections \in Nat /\ MaxUnprintable \in Nat

Event == {"failure", "error"}

VARIABLES
    on, once,      \* the two Sets of each bucket
    stack,         \* emissions in progress, the innermost last
    rejections,    \* promises returned by listeners of an event, still to reject
    unprintable    \* history: listeners' errors that process.emitWarning cannot print

vars == <<on, once, stack, rejections, unprintable>>

(* An emission in progress: what is left of its snapshot, the listener that
   runs, and the event whose listener failed, if that is what it reports. *)
Frame == [event : Event, cause : Event \cup {"library"},
          on : SUBSET Listener, once : SUBSET Listener, running : Listener \cup {NoOne}]

Init ==
    /\ on = [e \in Event |-> {}]
    /\ once = on
    /\ stack = <<>>
    /\ rejections = [e \in Event |-> 0]
    /\ unprintable = 0

Top == stack[Len(stack)]

Below == SubSeq(stack, 1, Len(stack) - 1)

SetTop(frame) == Append(Below, frame)

Listening(e) == on[e] \cup once[e] # {}

(* User code runs between emissions and inside the listener that runs. *)
UserCode == stack # <<>> => Top.running # NoOne

------------------------------------------------------------------------------
(* The registry's operations. *)

(* Mutant of On: the emission iterates over the live Set and meets what is added to it. *)
On_LiveSet(e, l) ==
    /\ UserCode
    /\ on' = [on EXCEPT ![e] = @ \cup {l}]
    /\ stack' = [i \in DOMAIN stack |->
                   IF stack[i].event = e /\ l \notin on[e]
                   THEN [stack[i] EXCEPT !.on = @ \cup {l}] ELSE stack[i]]
    /\ UNCHANGED <<once, rejections, unprintable>>

On(e, l) ==
    /\ UserCode
    /\ on' = [on EXCEPT ![e] = @ \cup {l}]
    /\ UNCHANGED <<once, stack, rejections, unprintable>>

Once(e, l) ==
    /\ UserCode
    /\ once' = [once EXCEPT ![e] = @ \cup {l}]
    /\ UNCHANGED <<on, stack, rejections, unprintable>>

Off(e, l) ==
    /\ UserCode
    /\ on' = [on EXCEPT ![e] = @ \ {l}]
    /\ once' = [once EXCEPT ![e] = @ \ {l}]
    /\ UNCHANGED <<stack, rejections, unprintable>>

(* Mutant of ClearListeners: the buckets are dropped, not emptied. *)
ClearListeners_DropBuckets ==
    /\ UserCode
    /\ on' = [e \in {} |-> {}]
    /\ once' = [e \in {} |-> {}]
    /\ UNCHANGED <<stack, rejections, unprintable>>

ClearListeners ==
    /\ UserCode
    /\ on' = [e \in Event |-> {}]
    /\ once' = [e \in Event |-> {}]
    /\ UNCHANGED <<stack, rejections, unprintable>>

------------------------------------------------------------------------------
(* Emissions. Each takes a snapshot of both Sets and empties once before it runs anything. *)

Snapshot(e, cause) == [event |-> e, cause |-> cause, on |-> on[e], once |-> once[e], running |-> NoOne]

(* Mutant of Emit: once is not emptied. *)
Emit_KeepOnce(e, cause, below) ==
    /\ stack' = Append(below, Snapshot(e, cause))
    /\ UNCHANGED once

Emit(e, cause, below) ==
    /\ stack' = Append(below, Snapshot(e, cause))
    /\ once' = [once EXCEPT ![e] = {}]

(* An exception that nobody catches leaves every emission in progress: the
   rest of their snapshots is never run, and no bucket holds it any more. *)
Escape == stack' = <<>>

(* process.emitWarning throws on an error it cannot print: String() of an
   object without a prototype, an Error whose message is not a string. *)
Warn(below, printable) ==
    /\ IF printable THEN stack' = below ELSE Escape
    /\ UNCHANGED once

EmitSafeError(cause, below, printable) ==
    IF Listening("error") THEN Emit("error", cause, below) ELSE Warn(below, printable)

(* What a listener throws, or its promise rejects with. *)
Failure(printable) ==
    \/ printable /\ UNCHANGED unprintable
    \/ /\ ~printable
       /\ unprintable < MaxUnprintable
       /\ unprintable' = unprintable + 1

(* _kTriggerGrantFailureEvent and reportError: an Error of the library, which
   goes to the error listeners when nobody listens to the event. *)
TriggerEvent ==
    /\ stack = <<>>
    /\ IF Listening("failure") THEN Emit("failure", "library", stack)
       ELSE EmitSafeError("library", stack, TRUE)
    /\ UNCHANGED <<on, rejections, unprintable>>

(* A failure of the handshake goes to the error listeners directly. *)
HandshakeError ==
    /\ stack = <<>>
    /\ EmitSafeError("library", stack, TRUE)
    /\ UNCHANGED <<on, rejections, unprintable>>

(* The next listener: those of on first, then those of once. *)
Call ==
    /\ stack # <<>> /\ Top.running = NoOne
    /\ \/ \E l \in Top.on : stack' = SetTop([Top EXCEPT !.running = l, !.on = @ \ {l}])
       \/ /\ Top.on = {}
          /\ \E l \in Top.once : stack' = SetTop([Top EXCEPT !.running = l, !.once = @ \ {l}])
    /\ UNCHANGED <<on, once, rejections, unprintable>>

Running == stack # <<>> /\ Top.running # NoOne

Idle == [Top EXCEPT !.running = NoOne]

Returns ==
    /\ Running
    /\ stack' = SetTop(Idle)
    /\ UNCHANGED <<on, once, rejections, unprintable>>

(* The listener's promise will reject; nobody awaits it. *)
ReturnsPromise ==
    /\ Running
    /\ rejections["failure"] + rejections["error"] < MaxRejections
    /\ rejections' = [rejections EXCEPT ![Top.event] = @ + 1]
    /\ stack' = SetTop(Idle)
    /\ UNCHANGED <<on, once, unprintable>>

(* Mutant of Throws: an error listener runs without a try, and what it throws leaves the emission. *)
Throws_Uncaught ==
    /\ Running
    /\ \E printable \in BOOLEAN :
         /\ Failure(printable)
         /\ IF Top.event = "failure" THEN EmitSafeError("failure", SetTop(Idle), printable)
            ELSE Escape /\ UNCHANGED once
    /\ UNCHANGED <<on, rejections>>

(* An event's listener throws to the error listeners, an error listener into a warning. *)
Throws ==
    /\ Running
    /\ \E printable \in BOOLEAN :
         /\ Failure(printable)
         /\ IF Top.event = "failure" THEN EmitSafeError("failure", SetTop(Idle), printable)
            ELSE Warn(SetTop(Idle), printable)
    /\ UNCHANGED <<on, rejections>>

(* Mutant of Rejects: the rejection of an error listener goes to the error listeners. *)
Rejects_Recursive(e) ==
    /\ stack = <<>>
    /\ rejections[e] > 0
    /\ rejections' = [rejections EXCEPT ![e] = @ - 1]
    /\ \E printable \in BOOLEAN : Failure(printable) /\ EmitSafeError(e, stack, printable)
    /\ UNCHANGED on

(* The catch() of a rejected promise is a microtask: it runs when the stack is empty. *)
Rejects(e) ==
    /\ stack = <<>>
    /\ rejections[e] > 0
    /\ rejections' = [rejections EXCEPT ![e] = @ - 1]
    /\ \E printable \in BOOLEAN :
         /\ Failure(printable)
         /\ IF e = "failure" THEN EmitSafeError("failure", stack, printable) ELSE Warn(stack, printable)
    /\ UNCHANGED on

Ends ==
    /\ stack # <<>> /\ Top.running = NoOne
    /\ Top.on \cup Top.once = {}
    /\ stack' = Below
    /\ UNCHANGED <<on, once, rejections, unprintable>>

ListenerEnds == Returns \/ ReturnsPromise \/ Throws

Next ==
    \/ \E e \in Event, l \in Listener : On(e, l) \/ Once(e, l) \/ Off(e, l)
    \/ ClearListeners
    \/ TriggerEvent \/ HandshakeError
    \/ Call \/ ListenerEnds \/ Ends
    \/ \E e \in Event : Rejects(e)

(* The engine goes on with its stack; that a listener's code ends is the user's part. *)
Fairness == WF_vars(Call \/ Ends) /\ WF_vars(ListenerEnds)

Spec == Init /\ [][Next]_vars /\ Fairness

------------------------------------------------------------------------------
(* Every variable has its type. Code: the buckets of BasePrimaryLimiter.js:87. *)
TypeOK ==
    /\ on \in [Event -> SUBSET Listener]
    /\ once \in [Event -> SUBSET Listener]
    /\ \A i \in DOMAIN stack : stack[i] \in Frame
    /\ rejections \in [Event -> 0..MaxRejections]
    /\ unprintable \in 0..MaxUnprintable

(* How often a once() listener still waits: in the snapshots and in the bucket. *)
Waits(e, l) ==
    Cardinality({i \in DOMAIN stack : stack[i].event = e /\ l \in stack[i].once})
        + (IF l \in once[e] THEN 1 ELSE 0)

(* The one report that cannot be made: of an error that cannot be printed, thrown
   by an error listener or while nobody listens to "error". *)
Unreported == unprintable' > unprintable /\ (Top.event = "error" \/ ~Listening("error"))

(* What waits changes when user code edits the bucket, when it is called, and
   when the exception of a failed report abandons its emission. *)
WaitsForItsCall(e, l) ==
    \/ UNCHANGED stack
    \/ Waits(e, l)' = Waits(e, l)
    \/ /\ Waits(e, l)' = Waits(e, l) - 1
       /\ \/ Top.event = e /\ Top.running = NoOne /\ Top'.running = l
          \/ Unreported

(* A once() registration waits, in the bucket or in a snapshot, until it is
   called or removed, and is not called again: no emission leaves it in the
   bucket or puts it back, also when listeners register themselves again while
   they run. Only a failed report loses one, at most one of a listener and
   event. Code: the snapshot and the clear before execution,
   triggerEvent.js:35-38 and :103-110. *)
OnceRunsOnce == [][\A e \in Event, l \in Listener : WaitsForItsCall(e, l)]_vars

(* A failure of an error listener never reaches the error listeners, whether it
   throws inside its emission or its promise rejects after it: no emission
   reports one, no two emissions of "error" are in progress at once, and none
   nests deeper. Code: "Prevent recursive loops", triggerEvent.js:44 and :53. *)
ErrorsDoNotRecurse ==
    /\ Len(stack) <= 2
    /\ Cardinality({i \in DOMAIN stack : stack[i].event = "error"}) <= 1
    /\ \A i \in DOMAIN stack : stack[i].cause # "error"

(* The listeners an emission has yet to call, one of both Sets twice. *)
Left(s, i) ==
    IF i \in DOMAIN s THEN ({"on"} \X s[i].on) \cup ({"once"} \X s[i].once) ELSE {}

(* A listener leaves a snapshot only to be called, and none comes in. *)
PassesOverNobody ==
    \A i \in DOMAIN stack :
        \/ Left(stack', i) = Left(stack, i)
        \/ \E x \in Left(stack, i) :
              /\ Left(stack', i) = Left(stack, i) \ {x}
              /\ i \in DOMAIN stack' /\ stack'[i].running = x[2]
        \/ Unreported

(* The listeners of an emission are called one by one, whatever they register,
   remove, throw and emit meanwhile. The one exception is a failed report.
   Code: the snapshots and the two try of triggerEvent.js:39-62 and :72-81. *)
AllListenersRun == [][PassesOverNobody]_vars

(* Every emission ends, also when its listeners keep adding listeners.
   Code: "prevent infinite loops if listeners mutate the sets", triggerEvent.js:22. *)
EmissionEnds == stack # <<>> ~> stack = <<>>
=============================================================================
