------------------------- MODULE EventListenersProofs -------------------------
(***************************************************************************)
(* The emissions of one limiter, for any listeners: no once() is run       *)
(* twice, no error listener runs because one failed, and a listener of the *)
(* snapshot is passed over only by an error that cannot be printed.        *)
(***************************************************************************)
EXTENDS EventListeners, FiniteSetTheorems, SequenceTheorems, TLAPS

\* An emission that does not report the failure of an error listener.
SafeFrame == {f \in Frame : f.cause # "error"}

\* The variables have their types; stack is a sequence.
Types ==
    /\ on \in [Event -> SUBSET Listener]
    /\ once \in [Event -> SUBSET Listener]
    /\ stack \in Seq(SafeFrame)
    /\ rejections \in [Event -> 0..MaxRejections]
    /\ unprintable \in Nat /\ unprintable <= MaxUnprintable

\* No emission, one, or one of an error under that of a failure.
Nested(s) ==
    \/ s = <<>>
    \/ \E f \in SafeFrame : s = <<f>>
    \/ \E f, g \in SafeFrame : s = <<f, g>> /\ f.event = "failure" /\ g.event = "error"

\* The once() listeners that wait in the snapshots of an event's emissions.
Snapped(s, e) == {l \in Listener : \E i \in DOMAIN s : s[i].event = e /\ l \in s[i].once}

\* A listener waits in a snapshot or in the bucket, and may do both.
Waiting(snapped, bucket, l) == (IF l \in snapped THEN 1 ELSE 0) + (IF l \in bucket THEN 1 ELSE 0)

\* How often a listener of an event waits, in the snapshots and in the bucket.
Count(s, o, e, l) == Waiting(Snapped(s, e), o[e], l)

\* What a step does to it: nothing, an edit of the bucket, a call or a loss.
Followed(e, l) ==
    \/ Count(stack', once', e, l) = Count(stack, once, e, l)
    \/ UNCHANGED stack
    \/ /\ Count(stack', once', e, l) = Count(stack, once, e, l) - 1
       /\ \/ Top.event = e /\ Top.running = NoOne /\ Top'.running = l
          \/ Unreported

AllFollowed == \A e \in Event, l \in Listener : Followed(e, l)

ListenersInv == Types /\ Nested(stack)

-----------------------------------------------------------------------------
(***************************************************************************)
(* The stack of emissions.                                                 *)
(***************************************************************************)

\* An emission on top of another.
LEMMA AppendPair ==
    ASSUME NEW f \in SafeFrame, NEW h \in SafeFrame
    PROVE  Append(<<f>>, h) = <<f, h>> /\ <<f, h>> \in Seq(SafeFrame)
<1>1. <<f>> \in Seq(SafeFrame) /\ Len(<<f>>) = 1 /\ <<f>>[1] = f
    OBVIOUS
<1> DEFINE s == Append(<<f>>, h)
<1>2. s \in Seq(SafeFrame) /\ Len(s) = 2 /\ s[1] = f /\ s[2] = h
    BY <1>1
<1> HIDE DEF s
<1>3. s = <<f, h>>
    BY <1>2
<1> QED BY <1>2, <1>3 DEF s

\* What the innermost emission is, and what replacing it leaves.
LEMMA StackForms ==
    ASSUME NEW f \in SafeFrame, NEW g \in SafeFrame, NEW h \in SafeFrame
    PROVE  /\ stack = <<f>> => Top = f /\ Below = <<>> /\ SetTop(h) = <<h>>
           /\ stack = <<f, g>> => Top = g /\ Below = <<f>> /\ SetTop(h) = <<f, h>>
<1>1. Len(<<f>>) = 1 /\ SubSeq(<<f>>, 1, 0) = <<>> /\ Append(<<>>, h) = <<h>>
    OBVIOUS
<1>2. SubSeq(<<f, g>>, 1, 1) = <<f>>
  <2>1. <<f, g>> \in Seq(SafeFrame) /\ Len(<<f, g>>) = 2 /\ <<f, g>>[1] = f
      OBVIOUS
  <2> DEFINE s == SubSeq(<<f, g>>, 1, 1)
  <2>2. s \in Seq(SafeFrame) /\ Len(s) = 1 /\ s[1] = f
      BY <2>1, SubSeqProperties
  <2> HIDE DEF s
  <2>3. s = <<f>>
      BY <2>2
  <2> QED BY <2>3 DEF s
<1>3. Len(<<f, g>>) = 2
    OBVIOUS
<1>4. Append(<<f>>, h) = <<f, h>>
    BY AppendPair
<1>5. stack = <<f>> => Top = f /\ Below = <<>>
    BY <1>1 DEF Top, Below
<1>6. stack = <<f, g>> => Top = g /\ Below = <<f>>
    BY <1>2, <1>3 DEF Top, Below
<1> QED BY <1>1, <1>4, <1>5, <1>6 DEF SetTop

\* The snapshots of one emission.
LEMMA SnappedOne ==
    ASSUME NEW f \in SafeFrame, NEW e \in Event
    PROVE  Snapped(<<f>>, e) = IF f.event = e THEN f.once ELSE {}
<1>1. f.once \subseteq Listener
    BY DEF SafeFrame, Frame
<1>2. DOMAIN <<f>> = {1} /\ <<f>>[1] = f
    OBVIOUS
<1> QED BY <1>1, <1>2 DEF Snapped

\* The snapshots of two emissions.
LEMMA SnappedTwo ==
    ASSUME NEW f \in SafeFrame, NEW g \in SafeFrame, NEW e \in Event
    PROVE  Snapped(<<f, g>>, e) =
               (IF f.event = e THEN f.once ELSE {}) \cup (IF g.event = e THEN g.once ELSE {})
<1>1. f.once \subseteq Listener /\ g.once \subseteq Listener
    BY DEF SafeFrame, Frame
<1>2. DOMAIN <<f, g>> = {1, 2} /\ <<f, g>>[1] = f /\ <<f, g>>[2] = g
    OBVIOUS
<1> QED BY <1>1, <1>2 DEF Snapped

\* The number of an event's emissions that hold a listener, of which there is one.
LEMMA SnappedCount ==
    ASSUME NEW s, Nested(s), NEW e \in Event, NEW l \in Listener
    PROVE  Cardinality({i \in DOMAIN s : s[i].event = e /\ l \in s[i].once})
              = IF l \in Snapped(s, e) THEN 1 ELSE 0
<1> DEFINE S == {i \in DOMAIN s : s[i].event = e /\ l \in s[i].once}
<1>1. S = {} \/ \E i \in DOMAIN s : S = {i}
  <2>1. CASE s = <<>>
      BY <2>1
  <2>2. ASSUME NEW f \in SafeFrame, s = <<f>> PROVE S = {} \/ \E i \in DOMAIN s : S = {i}
    <3>1. DOMAIN s = {1}
        BY <2>2
    <3> QED BY <3>1
  <2>3. ASSUME NEW f \in SafeFrame, NEW g \in SafeFrame, s = <<f, g>>, f.event = "failure", g.event = "error"
        PROVE  S = {} \/ \E i \in DOMAIN s : S = {i}
    <3>1. DOMAIN s = {1, 2} /\ s[1].event # s[2].event
        BY <2>3
    <3> QED BY <3>1
  <2> QED BY <2>1, <2>2, <2>3 DEF Nested
<1>2. l \in Snapped(s, e) <=> S # {}
    BY DEF Snapped
<1>3. S = {} => Cardinality(S) = 0
    BY FS_EmptySet
<1>4. \A i \in DOMAIN s : S = {i} => Cardinality(S) = 1
    BY FS_Singleton
<1> HIDE DEF S
<1>5. Cardinality(S) = IF l \in Snapped(s, e) THEN 1 ELSE 0
    BY <1>1, <1>2, <1>3, <1>4
<1> QED BY <1>5 DEF S

\* Who is neither moved nor called waits as before.
LEMMA CountKept ==
    ASSUME NEW d \in Event, NEW k \in Listener,
           k \in Snapped(stack', d) <=> k \in Snapped(stack, d), once'[d] = once[d]
    PROVE  Followed(d, k)
BY DEF Count, Waiting, Followed

\* Who leaves the snapshot and not the bucket waits once less.
LEMMA CountLess ==
    ASSUME NEW d \in Event, NEW k \in Listener, k \in Snapped(stack, d),
           k \notin Snapped(stack', d), once'[d] = once[d]
    PROVE  Count(stack', once', d, k) = Count(stack, once, d, k) - 1
BY DEF Count, Waiting

-----------------------------------------------------------------------------
(***************************************************************************)
(* The invariant holds at the start.                                       *)
(***************************************************************************)

\* At the start nobody listens.
LEMMA InitInv == Init => ListenersInv
BY ListenersAssumption DEF ListenersInv, Types, Nested, Init

-----------------------------------------------------------------------------
(***************************************************************************)
(* The registry.                                                           *)
(***************************************************************************)

\* The listeners change their buckets, whichever emission is in progress.
LEMMA RegistryStep ==
    ASSUME ListenersInv,
           \/ \E e \in Event, l \in Listener : On(e, l) \/ Once(e, l) \/ Off(e, l)
           \/ ClearListeners
    PROVE  ListenersInv' /\ AllFollowed
<1>1. Types /\ Nested(stack)
    BY DEF ListenersInv
<1>2. UNCHANGED <<stack, rejections, unprintable>>
    BY DEF On, Once, Off, ClearListeners
<1>3. on' \in [Event -> SUBSET Listener] /\ once' \in [Event -> SUBSET Listener]
    BY <1>1 DEF On, Once, Off, ClearListeners, Types
<1>4. ListenersInv'
    BY <1>1, <1>2, <1>3 DEF ListenersInv, Types, Nested
<1>5. AllFollowed
    BY <1>2 DEF AllFollowed, Followed
<1> QED BY <1>4, <1>5

-----------------------------------------------------------------------------
(***************************************************************************)
(* Emissions.                                                              *)
(***************************************************************************)

\* The innermost emission is the last of the stack, and replacing it keeps the others.
LEMMA TopReplaced ==
    ASSUME Types, stack # <<>>
    PROVE  /\ Len(stack) \in DOMAIN stack /\ Top \in SafeFrame /\ Top = stack[Len(stack)]
           /\ DOMAIN Below = DOMAIN stack \ {Len(stack)}
           /\ \A i \in DOMAIN Below : Below[i] = stack[i]
           /\ \A h \in SafeFrame :
                  /\ SetTop(h) \in Seq(SafeFrame) /\ DOMAIN SetTop(h) = DOMAIN stack
                  /\ \A i \in DOMAIN stack : SetTop(h)[i] = IF i = Len(stack) THEN h ELSE stack[i]
<1>1. stack \in Seq(SafeFrame) /\ Len(stack) \in Nat \ {0} /\ DOMAIN stack = 1..Len(stack)
    BY DEF Types
<1>2. Len(stack) \in DOMAIN stack /\ Top \in SafeFrame /\ Top = stack[Len(stack)]
    BY <1>1 DEF Top
<1>3. /\ Below \in Seq(SafeFrame) /\ Len(Below) = Len(stack) - 1
      /\ \A i \in 1..(Len(stack) - 1) : Below[i] = stack[i]
    BY <1>1, SubSeqProperties DEF Below
<1>4. DOMAIN Below = 1..(Len(stack) - 1)
    BY <1>1, <1>3
<1>5. ASSUME NEW h \in SafeFrame
      PROVE  /\ SetTop(h) \in Seq(SafeFrame) /\ DOMAIN SetTop(h) = DOMAIN stack
             /\ \A i \in DOMAIN stack : SetTop(h)[i] = IF i = Len(stack) THEN h ELSE stack[i]
  <2>1. /\ SetTop(h) \in Seq(SafeFrame) /\ Len(SetTop(h)) = Len(Below) + 1
        /\ SetTop(h)[Len(Below) + 1] = h
        /\ \A i \in 1..Len(Below) : SetTop(h)[i] = Below[i]
      BY <1>3 DEF SetTop
  <2>2. Len(SetTop(h)) = Len(stack) /\ SetTop(h)[Len(stack)] = h
      BY <1>1, <1>3, <2>1
  <2>3. DOMAIN SetTop(h) = DOMAIN stack
    <3>1. DOMAIN SetTop(h) = 1..Len(SetTop(h))
        BY <2>1
    <3> QED BY <1>1, <2>2, <3>1
  <2>4. ASSUME NEW i \in DOMAIN stack, i # Len(stack) PROVE SetTop(h)[i] = stack[i]
      BY <1>1, <1>3, <2>1, <2>4
  <2> QED BY <2>1, <2>2, <2>3, <2>4
<1>6. DOMAIN Below = DOMAIN stack \ {Len(stack)} /\ \A i \in DOMAIN Below : Below[i] = stack[i]
    BY <1>1, <1>3, <1>4
<1> QED BY <1>2, <1>5, <1>6

\* The innermost emission, changed in what it has left to run.
LEMMA ReplaceTop ==
    ASSUME Types, Nested(stack), stack # <<>>, NEW h \in SafeFrame, h.event = Top.event
    PROVE  /\ Top \in SafeFrame /\ SetTop(h) \in Seq(SafeFrame) /\ Nested(SetTop(h))
           /\ Snapped(stack, Top.event) = Top.once
           /\ \A e \in Event :
                  Snapped(SetTop(h), e) = IF e = h.event THEN h.once ELSE Snapped(stack, e)
<1>1. ASSUME NEW f \in SafeFrame, stack = <<f>>
      PROVE  /\ Top = f /\ SetTop(h) = <<h>>
             /\ Snapped(stack, Top.event) = Top.once
             /\ \A e \in Event :
                    Snapped(SetTop(h), e) = IF e = h.event THEN h.once ELSE Snapped(stack, e)
  <2>1. Top = f /\ SetTop(h) = <<h>> /\ f.event \in Event
      BY <1>1, StackForms DEF SafeFrame, Frame
  <2>2. \A e \in Event : Snapped(<<h>>, e) = IF h.event = e THEN h.once ELSE {}
      BY SnappedOne
  <2>3. \A e \in Event : Snapped(<<f>>, e) = IF f.event = e THEN f.once ELSE {}
      BY SnappedOne
  <2> QED BY <1>1, <2>1, <2>2, <2>3
<1>2. ASSUME NEW f \in SafeFrame, NEW g \in SafeFrame, stack = <<f, g>>,
             f.event = "failure", g.event = "error"
      PROVE  /\ Top = g /\ SetTop(h) = <<f, h>>
             /\ Snapped(stack, Top.event) = Top.once
             /\ \A e \in Event :
                    Snapped(SetTop(h), e) = IF e = h.event THEN h.once ELSE Snapped(stack, e)
  <2>1. Top = g /\ SetTop(h) = <<f, h>>
      BY <1>2, StackForms
  <2>2. \A e \in Event :
            Snapped(<<f, g>>, e) =
                (IF f.event = e THEN f.once ELSE {}) \cup (IF g.event = e THEN g.once ELSE {})
      BY SnappedTwo
  <2>3. \A e \in Event :
            Snapped(<<f, h>>, e) =
                (IF f.event = e THEN f.once ELSE {}) \cup (IF h.event = e THEN h.once ELSE {})
      BY SnappedTwo
  <2>4. Top.event = "error" /\ h.event = "error" /\ "error" \in Event /\ "error" # "failure"
      BY <1>2, <2>1 DEF Event
  <2>5. Snapped(stack, "error") = g.once
      BY <1>2, <2>2, <2>3, <2>4
  <2>6. ASSUME NEW e \in Event
        PROVE  Snapped(<<f, h>>, e) = IF e = "error" THEN h.once ELSE Snapped(<<f, g>>, e)
      BY <1>2, <2>2, <2>3, <2>4
  <2> QED BY <1>2, <2>1, <2>4, <2>5, <2>6
<1>3. ASSUME NEW f \in SafeFrame, stack = <<f>>
      PROVE  SetTop(h) \in Seq(SafeFrame) /\ Nested(SetTop(h)) /\ Top \in SafeFrame
  <2>1. SetTop(h) = <<h>> /\ Top = f
      BY <1>1, <1>3
  <2>2. <<h>> \in Seq(SafeFrame)
      OBVIOUS
  <2> QED BY <2>1, <2>2 DEF Nested
<1>4. ASSUME NEW f \in SafeFrame, NEW g \in SafeFrame, stack = <<f, g>>,
             f.event = "failure", g.event = "error"
      PROVE  SetTop(h) \in Seq(SafeFrame) /\ Nested(SetTop(h)) /\ Top \in SafeFrame
  <2>1. SetTop(h) = <<f, h>> /\ Top = g /\ h.event = "error"
      BY <1>2, <1>4
  <2>2. <<f, h>> \in Seq(SafeFrame)
      BY AppendPair
  <2> QED BY <1>4, <2>1, <2>2 DEF Nested
<1> QED BY <1>1, <1>2, <1>3, <1>4 DEF Nested

\* A listener that ends leaves its emission as it was before the call.
LEMMA IdleTop ==
    ASSUME Types, Nested(stack), Running
    PROVE  /\ Idle \in SafeFrame /\ Idle.event = Top.event /\ Idle.once = Top.once
           /\ SetTop(Idle) \in Seq(SafeFrame) /\ Nested(SetTop(Idle))
           /\ \A e \in Event : Snapped(SetTop(Idle), e) = Snapped(stack, e)
<1>1. Top \in SafeFrame
  <2>1. \A f, g \in SafeFrame : (stack = <<f>> => Top = f) /\ (stack = <<f, g>> => Top = g)
      BY StackForms
  <2> QED BY <2>1 DEF Nested, Running
<1>2. Idle \in SafeFrame /\ Idle.event = Top.event /\ Idle.once = Top.once
    BY <1>1 DEF Idle, SafeFrame, Frame
<1> QED BY <1>2, ReplaceTop DEF Running

\* An error that cannot be printed is counted.
Counted(printable) ==
    /\ unprintable' \in Nat /\ unprintable' <= MaxUnprintable
    /\ unprintable <= unprintable'
    /\ printable \/ unprintable' = unprintable + 1

\* What a listener fails with, and what the library reports itself.
LEMMA FailureCounted ==
    ASSUME Types, NEW printable \in BOOLEAN
    PROVE  /\ Failure(printable) => Counted(printable)
           /\ UNCHANGED unprintable => Counted(TRUE)
<1>1. unprintable \in Nat /\ unprintable <= MaxUnprintable /\ MaxUnprintable \in Nat
    BY ListenersAssumption DEF Types
<1>2. UNCHANGED unprintable => unprintable' \in Nat /\ unprintable' <= MaxUnprintable /\ unprintable <= unprintable'
    BY <1>1
<1>3. unprintable < MaxUnprintable /\ unprintable' = unprintable + 1
         => unprintable' \in Nat /\ unprintable' <= MaxUnprintable /\ unprintable <= unprintable'
    BY <1>1
<1> QED BY <1>2, <1>3, Zenon DEF Failure, Counted

\* An emission takes its snapshot from the bucket, and empties it.
LEMMA EmitStep ==
    ASSUME ListenersInv, NEW e \in Event, NEW cause \in {"failure", "library"},
           NEW below, Emit(e, cause, below), NEW printable \in BOOLEAN, Counted(printable),
           \/ below = <<>>
           \/ e = "error" /\ \E f \in SafeFrame : below = <<f>> /\ f.event = "failure",
           \A d \in Event : Snapped(below, d) = Snapped(stack, d),
           UNCHANGED on, rejections' \in [Event -> 0..MaxRejections]
    PROVE  ListenersInv' /\ AllFollowed
<1> DEFINE h == Snapshot(e, cause)
<1>1. Types
    BY DEF ListenersInv
<1>2. h \in SafeFrame /\ h.event = e /\ h.once = once[e]
    BY <1>1 DEF SafeFrame, Frame, Types, Snapshot, Event
<1>3. stack' = Append(below, h)
    BY DEF Emit
<1> HIDE DEF h
<1>4. /\ stack' \in Seq(SafeFrame) /\ Nested(stack') /\ Snapped(below, e) = {}
      /\ \A d \in Event : Snapped(stack', d) = IF d = e THEN once[e] ELSE Snapped(below, d)
  <2>1. CASE below = <<>>
    <3>1. stack' = <<h>>
        BY <1>3, <2>1
    <3>2. \A d \in Event : Snapped(below, d) = {}
        BY <2>1 DEF Snapped
    <3>3. \A d \in Event : Snapped(<<h>>, d) = IF h.event = d THEN h.once ELSE {}
        BY <1>2, SnappedOne
    <3>4. stack' \in Seq(SafeFrame) /\ Nested(stack')
        BY <1>2, <3>1 DEF Nested
    <3> QED BY <1>2, <2>1, <3>1, <3>2, <3>3, <3>4
  <2>2. ASSUME NEW f \in SafeFrame, e = "error", below = <<f>>, f.event = "failure"
        PROVE  /\ stack' \in Seq(SafeFrame) /\ Nested(stack') /\ Snapped(below, e) = {}
               /\ \A d \in Event : Snapped(stack', d) = IF d = e THEN once[e] ELSE Snapped(below, d)
    <3>1. stack' = <<f, h>> /\ stack' \in Seq(SafeFrame)
        BY <1>2, <1>3, <2>2, AppendPair
    <3>2. \A d \in Event : Snapped(<<f>>, d) = IF f.event = d THEN f.once ELSE {}
        BY SnappedOne
    <3>3. \A d \in Event :
              Snapped(<<f, h>>, d) =
                  (IF f.event = d THEN f.once ELSE {}) \cup (IF h.event = d THEN h.once ELSE {})
        BY <1>2, SnappedTwo
    <3>4. Nested(stack')
        BY <1>2, <2>2, <3>1 DEF Nested
    <3>5. Snapped(below, e) = {}
        BY <2>2, <3>2
    <3>6. ASSUME NEW d \in Event
          PROVE  Snapped(stack', d) = IF d = e THEN once[e] ELSE Snapped(below, d)
        BY <1>2, <2>2, <3>1, <3>2, <3>3
    <3> QED BY <3>1, <3>4, <3>5, <3>6
  <2> QED BY <2>1, <2>2
<1>5. once' = [once EXCEPT ![e] = {}]
    BY DEF Emit
<1>6. ASSUME NEW d \in Event, NEW k \in Listener PROVE Followed(d, k)
  <2>1. CASE d = e
    <3>1. once'[d] = {} /\ Snapped(stack, d) = {} /\ Snapped(stack', d) = once[d]
        BY <1>1, <1>4, <1>5, <2>1 DEF Types
    <3> QED BY <3>1 DEF Count, Waiting, Followed
  <2>2. CASE d # e
    <3>1. once'[d] = once[d] /\ Snapped(stack', d) = Snapped(stack, d)
        BY <1>1, <1>4, <1>5, <2>2 DEF Types
    <3> QED BY <3>1, CountKept
  <2> QED BY <2>1, <2>2
<1>7. Types'
    BY <1>1, <1>4, <1>5 DEF Counted, Types
<1> QED BY <1>4, <1>6, <1>7 DEF ListenersInv, AllFollowed

\* A warning ends the emission's step or, as an exception, all emissions, of
\* which at most one holds a listener of an event.
LEMMA WarnStep ==
    ASSUME ListenersInv, NEW below \in Seq(SafeFrame), Nested(below), NEW printable \in BOOLEAN,
           Warn(below, printable), Counted(printable),
           stack = <<>> \/ Top.event = "error" \/ ~Listening("error"),
           \A d \in Event : Snapped(below, d) = Snapped(stack, d),
           UNCHANGED on, rejections' \in [Event -> 0..MaxRejections]
    PROVE  ListenersInv' /\ AllFollowed
<1>1. Types /\ UNCHANGED once
    BY DEF ListenersInv, Warn
<1>2. ASSUME stack' = below PROVE ListenersInv' /\ AllFollowed
  <2>1. Types' /\ Nested(stack')
      BY <1>1, <1>2 DEF Counted, Types
  <2>2. ASSUME NEW d \in Event, NEW k \in Listener PROVE Followed(d, k)
      BY <1>1, <1>2, CountKept
  <2> QED BY <2>1, <2>2 DEF ListenersInv, AllFollowed
<1>3. ASSUME stack' = <<>>, ~printable PROVE ListenersInv' /\ AllFollowed
  <2>1. Types' /\ Nested(stack')
      BY <1>1, <1>3 DEF Counted, Types, Nested
  <2>2. unprintable' > unprintable
    <3>1. unprintable' = unprintable + 1 /\ unprintable \in Nat
        BY <1>1, <1>3 DEF Counted, Types
    <3> QED BY <3>1
  <2>3. UNCHANGED stack \/ Unreported
      BY <1>3, <2>2 DEF Unreported
  <2>4. ASSUME NEW d \in Event, NEW k \in Listener PROVE Followed(d, k)
    <3>1. Snapped(stack', d) = {}
        BY <1>3 DEF Snapped
    <3>2. CASE k \in Snapped(stack, d)
      <4>1. Count(stack', once', d, k) = Count(stack, once, d, k) - 1
          BY <1>1, <3>1, <3>2, CountLess
      <4> QED BY <2>3, <4>1 DEF Followed
    <3>3. CASE k \notin Snapped(stack, d)
        BY <1>1, <3>1, <3>3, CountKept
    <3> QED BY <3>2, <3>3
  <2> QED BY <2>1, <2>4 DEF ListenersInv, AllFollowed
<1>4. CASE printable
    BY <1>2, <1>4 DEF Warn
<1>5. CASE ~printable
    BY <1>3, <1>5 DEF Warn, Escape
<1> QED BY <1>4, <1>5

\* A failure goes to the error listeners, or into a warning when there is none.
LEMMA SafeErrorStep ==
    ASSUME ListenersInv, NEW cause \in {"failure", "library"},
           NEW below \in Seq(SafeFrame), Nested(below), NEW printable \in BOOLEAN,
           EmitSafeError(cause, below, printable), Counted(printable),
           \A d \in Event : Snapped(below, d) = Snapped(stack, d),
           \/ below = <<>>
           \/ \E f \in SafeFrame : below = <<f>> /\ f.event = "failure",
           UNCHANGED on, rejections' \in [Event -> 0..MaxRejections]
    PROVE  ListenersInv' /\ AllFollowed
<1>1. CASE Emit("error", cause, below)
    BY <1>1, EmitStep DEF Event
<1>2. CASE ~Listening("error") /\ Warn(below, printable)
    BY <1>2, WarnStep
<1> QED BY <1>1, <1>2 DEF EmitSafeError

\* An emission starts from an empty stack.
LEMMA StartStep ==
    ASSUME ListenersInv, TriggerEvent \/ HandshakeError \/ \E e \in Event : Rejects(e)
    PROVE  ListenersInv' /\ AllFollowed
<1>1. Types /\ stack = <<>> /\ UNCHANGED on
    BY DEF ListenersInv, TriggerEvent, HandshakeError, Rejects
<1>2. stack \in Seq(SafeFrame) /\ Nested(stack)
    BY <1>1 DEF Types, Nested
<1>3. ASSUME UNCHANGED <<rejections, unprintable>>, EmitSafeError("library", stack, TRUE)
      PROVE  ListenersInv' /\ AllFollowed
  <2>1. Counted(TRUE)
      BY <1>1, <1>3, FailureCounted
  <2> QED BY <1>1, <1>2, <1>3, <2>1, SafeErrorStep DEF Types
<1>4. CASE TriggerEvent
  <2>1. CASE Listening("failure")
    <3>1. Emit("failure", "library", stack) /\ UNCHANGED <<rejections, unprintable>>
        BY <1>4, <2>1 DEF TriggerEvent
    <3>2. Counted(TRUE)
        BY <1>1, <3>1, FailureCounted
    <3> QED BY <1>1, <3>1, <3>2, EmitStep DEF Types, Event
  <2>2. CASE ~Listening("failure")
      BY <1>3, <1>4, <2>2 DEF TriggerEvent
  <2> QED BY <2>1, <2>2
<1>5. CASE HandshakeError
    BY <1>3, <1>5 DEF HandshakeError
<1>6. ASSUME NEW e \in Event, Rejects(e) PROVE ListenersInv' /\ AllFollowed
  <2>1. rejections' \in [Event -> 0..MaxRejections]
    <3>1. rejections[e] \in 0..MaxRejections /\ rejections[e] > 0
        BY <1>1, <1>6 DEF Rejects, Types
    <3>2. rejections[e] - 1 \in 0..MaxRejections
        BY <3>1, ListenersAssumption
    <3> QED BY <1>1, <1>6, <3>2 DEF Rejects, Types
  <2>2. PICK printable \in BOOLEAN :
            /\ Failure(printable)
            /\ IF e = "failure" THEN EmitSafeError("failure", stack, printable) ELSE Warn(stack, printable)
      BY <1>6 DEF Rejects
  <2>3. Counted(printable)
      BY <1>1, <2>2, FailureCounted
  <2>4. CASE e = "failure"
      BY <1>1, <1>2, <2>1, <2>2, <2>3, <2>4, SafeErrorStep
  <2>5. CASE e # "failure"
      BY <1>1, <1>2, <2>1, <2>2, <2>3, <2>5, WarnStep
  <2> QED BY <2>4, <2>5
<1> QED BY <1>4, <1>5, <1>6

\* A call takes its listener from the snapshot.
LEMMA CallStep ==
    ASSUME ListenersInv, Call
    PROVE  ListenersInv' /\ AllFollowed
<1>1. Types /\ Nested(stack) /\ stack # <<>> /\ Top.running = NoOne
    BY DEF ListenersInv, Call
<1>2. Top \in SafeFrame
    BY <1>1, TopReplaced
<1>3. UNCHANGED <<on, once, rejections, unprintable>>
    BY DEF Call
<1>4. ASSUME NEW l \in Top.on, stack' = SetTop([Top EXCEPT !.running = l, !.on = @ \ {l}])
      PROVE  ListenersInv' /\ AllFollowed
  <2> DEFINE h == [Top EXCEPT !.running = l, !.on = @ \ {l}]
  <2>1. h \in SafeFrame /\ h.event = Top.event /\ h.once = Top.once
      BY <1>2 DEF SafeFrame, Frame
  <2>2. stack' = SetTop(h)
      BY <1>4
  <2> HIDE DEF h
  <2>3. /\ stack' \in Seq(SafeFrame) /\ Nested(stack')
        /\ \A d \in Event : Snapped(stack', d) = Snapped(stack, d)
      BY <1>1, <2>1, <2>2, ReplaceTop
  <2>4. Types'
      BY <1>1, <1>3, <2>3 DEF Types
  <2>5. ASSUME NEW d \in Event, NEW k \in Listener PROVE Followed(d, k)
      BY <1>3, <2>3, CountKept
  <2> QED BY <2>3, <2>4, <2>5 DEF ListenersInv, AllFollowed
<1>5. ASSUME NEW l \in Top.once, stack' = SetTop([Top EXCEPT !.running = l, !.once = @ \ {l}])
      PROVE  ListenersInv' /\ AllFollowed
  <2> DEFINE h == [Top EXCEPT !.running = l, !.once = @ \ {l}]
  <2>1. /\ h \in SafeFrame /\ h.event = Top.event /\ h.once = Top.once \ {l}
        /\ h.running = l /\ Top.event \in Event /\ l \in Listener
      BY <1>2 DEF SafeFrame, Frame
  <2>2. stack' = SetTop(h)
      BY <1>5
  <2> HIDE DEF h
  <2>3. /\ stack' \in Seq(SafeFrame) /\ Nested(stack')
        /\ Snapped(stack, Top.event) = Top.once
        /\ \A d \in Event : Snapped(stack', d) = IF d = Top.event THEN Top.once \ {l} ELSE Snapped(stack, d)
      BY <1>1, <2>1, <2>2, ReplaceTop
  <2>4. Types'
      BY <1>1, <1>3, <2>3 DEF Types
  <2>5. Top'.running = l
    <3>1. DOMAIN stack' = DOMAIN stack /\ stack'[Len(stack)] = h
        BY <1>1, <2>1, <2>2, TopReplaced
    <3>2. Len(stack') = Len(stack)
        BY <1>1, <2>3, <3>1 DEF Types
    <3> QED BY <2>1, <3>1, <3>2 DEF Top
  <2>6. ASSUME NEW d \in Event, NEW k \in Listener PROVE Followed(d, k)
    <3>1. CASE d # Top.event
        BY <1>3, <2>3, <3>1, CountKept
    <3>2. CASE d = Top.event /\ k # l
      <4>1. Snapped(stack', d) = Snapped(stack, d) \ {l}
          BY <2>3, <3>2
      <4> QED BY <1>3, <3>2, <4>1, CountKept
    <3>3. CASE d = Top.event /\ k = l
      <4>1. Snapped(stack', d) = Snapped(stack, d) \ {k} /\ k \in Snapped(stack, d)
          BY <1>5, <2>3, <3>3
      <4>2. Count(stack', once', d, k) = Count(stack, once, d, k) - 1
          BY <1>3, <4>1, CountLess
      <4> QED BY <1>1, <2>5, <3>3, <4>2 DEF Followed
    <3> QED BY <3>1, <3>2, <3>3
  <2> QED BY <2>3, <2>4, <2>6 DEF ListenersInv, AllFollowed
<1> QED BY <1>4, <1>5 DEF Call

\* A listener returns or throws: its emission goes on, unless the exception leaves it.
LEMMA ListenerEndsStep ==
    ASSUME ListenersInv, ListenerEnds
    PROVE  ListenersInv' /\ AllFollowed
<1>1. Types /\ Nested(stack) /\ Running
    BY DEF ListenersInv, ListenerEnds, Returns, ReturnsPromise, Throws
<1>2. /\ Idle \in SafeFrame /\ Idle.event = Top.event
      /\ SetTop(Idle) \in Seq(SafeFrame) /\ Nested(SetTop(Idle))
      /\ \A d \in Event : Snapped(SetTop(Idle), d) = Snapped(stack, d)
    BY <1>1, IdleTop
<1>3. ASSUME Returns \/ ReturnsPromise PROVE ListenersInv' /\ AllFollowed
  <2>1. stack' = SetTop(Idle) /\ UNCHANGED <<on, once, unprintable>>
      BY <1>3 DEF Returns, ReturnsPromise
  <2>2. rejections' \in [Event -> 0..MaxRejections]
    <3>1. CASE Returns
        BY <1>1, <3>1 DEF Returns, Types
    <3>2. CASE ReturnsPromise
      <4>1. Top.event \in Event
          BY <1>2 DEF SafeFrame, Frame
      <4>2. rejections[Top.event] + 1 \in 0..MaxRejections
        <5>1. rejections["failure"] \in Nat /\ rejections["error"] \in Nat
            BY <1>1, ListenersAssumption DEF Types, Event
        <5>2. rejections["failure"] + rejections["error"] < MaxRejections
            BY <3>2 DEF ReturnsPromise
        <5>3. Top.event = "failure" \/ Top.event = "error"
            BY <4>1 DEF Event
        <5> QED BY <5>1, <5>2, <5>3, ListenersAssumption
      <4> QED BY <1>1, <3>2, <4>2 DEF ReturnsPromise, Types
    <3> QED BY <1>3, <3>1, <3>2
  <2>3. Types'
      BY <1>1, <1>2, <2>1, <2>2 DEF Types
  <2>4. ASSUME NEW d \in Event, NEW k \in Listener PROVE Followed(d, k)
      BY <1>2, <2>1, CountKept
  <2> QED BY <1>2, <2>1, <2>3, <2>4 DEF ListenersInv, AllFollowed
<1>4. CASE Throws
  <2>1. UNCHANGED on /\ rejections' \in [Event -> 0..MaxRejections]
      BY <1>1, <1>4 DEF Throws, Types
  <2>2. PICK printable \in BOOLEAN :
            /\ Failure(printable)
            /\ IF Top.event = "failure" THEN EmitSafeError("failure", SetTop(Idle), printable)
               ELSE Warn(SetTop(Idle), printable)
      BY <1>4 DEF Throws
  <2>5. Counted(printable)
      BY <1>1, <2>2, FailureCounted
  <2>3. CASE Top.event = "failure"
    <3>1. SetTop(Idle) = <<Idle>>
      <4>1. ASSUME NEW f \in SafeFrame, stack = <<f>> PROVE SetTop(Idle) = <<Idle>>
          BY <1>2, <4>1, StackForms
      <4>2. ASSUME NEW f \in SafeFrame, NEW g \in SafeFrame, stack = <<f, g>>, g.event = "error" PROVE FALSE
        <5>1. Top = g
            BY <4>2, StackForms
        <5> QED BY <2>3, <4>2, <5>1
      <4> QED BY <1>1, <4>1, <4>2 DEF Nested, Running
    <3> QED BY <1>2, <2>1, <2>2, <2>3, <2>5, <3>1, SafeErrorStep
  <2>4. CASE Top.event # "failure"
    <3>1. Top.event = "error"
        BY <1>2, <2>4 DEF SafeFrame, Frame, Event
    <3> QED BY <1>2, <2>1, <2>2, <2>4, <2>5, <3>1, WarnStep
  <2> QED BY <2>3, <2>4
<1> QED BY <1>3, <1>4 DEF ListenerEnds

\* Nobody waits in an emission that ends.
LEMMA EndsStep ==
    ASSUME ListenersInv, Ends
    PROVE  ListenersInv' /\ AllFollowed
<1>1. Types /\ Nested(stack) /\ stack # <<>> /\ Top.once = {} /\ stack' = Below
    BY DEF ListenersInv, Ends
<1>2. UNCHANGED <<on, once, rejections, unprintable>>
    BY DEF Ends
<1>3. /\ stack' \in Seq(SafeFrame) /\ Nested(stack')
      /\ \A d \in Event : Snapped(stack', d) = Snapped(stack, d)
  <2>1. ASSUME NEW f \in SafeFrame, stack = <<f>>
        PROVE  /\ stack' \in Seq(SafeFrame) /\ Nested(stack')
               /\ \A d \in Event : Snapped(stack', d) = Snapped(stack, d)
    <3>1. Top = f /\ stack' = <<>>
        BY <1>1, <2>1, StackForms
    <3>2. \A d \in Event : Snapped(stack', d) = {}
        BY <3>1 DEF Snapped
    <3>3. \A d \in Event : Snapped(<<f>>, d) = IF f.event = d THEN f.once ELSE {}
        BY SnappedOne
    <3>4. \A d \in Event : Snapped(stack, d) = {}
        BY <1>1, <2>1, <3>1, <3>3
    <3>5. stack' \in Seq(SafeFrame)
        BY <3>1
    <3> QED BY <3>1, <3>2, <3>4, <3>5 DEF Nested
  <2>2. ASSUME NEW f \in SafeFrame, NEW g \in SafeFrame, stack = <<f, g>>
        PROVE  /\ stack' \in Seq(SafeFrame) /\ Nested(stack')
               /\ \A d \in Event : Snapped(stack', d) = Snapped(stack, d)
    <3>1. Top = g /\ stack' = <<f>>
        BY <1>1, <2>2, StackForms
    <3>2. \A d \in Event : Snapped(<<f>>, d) = IF f.event = d THEN f.once ELSE {}
        BY SnappedOne
    <3>3. \A d \in Event :
              Snapped(<<f, g>>, d) =
                  (IF f.event = d THEN f.once ELSE {}) \cup (IF g.event = d THEN g.once ELSE {})
        BY SnappedTwo
    <3>4. \A d \in Event : Snapped(stack', d) = Snapped(stack, d)
        BY <1>1, <2>2, <3>1, <3>2, <3>3
    <3>5. stack' \in Seq(SafeFrame)
        BY <3>1
    <3> QED BY <3>1, <3>4, <3>5 DEF Nested
  <2> QED BY <1>1, <2>1, <2>2 DEF Nested
<1>4. Types'
    BY <1>1, <1>2, <1>3 DEF Types
<1>5. ASSUME NEW d \in Event, NEW k \in Listener PROVE Followed(d, k)
    BY <1>2, <1>3, CountKept
<1> QED BY <1>3, <1>4, <1>5 DEF ListenersInv, AllFollowed

-----------------------------------------------------------------------------
(***************************************************************************)
(* The theorems.                                                           *)
(***************************************************************************)

\* The invariant that the others follow from.
THEOREM Invariance == Spec => []ListenersInv
<1>1. ListenersInv /\ [Next]_vars => ListenersInv'
  <2> SUFFICES ASSUME ListenersInv, [Next]_vars PROVE ListenersInv'
      OBVIOUS
  <2>1. CASE UNCHANGED vars
      BY <2>1 DEF vars, ListenersInv, Types, Nested
  <2>2. CASE Next
      BY <2>2, RegistryStep, StartStep, CallStep, ListenerEndsStep, EndsStep DEF Next
  <2> QED BY <2>1, <2>2
<1> QED BY InitInv, <1>1, PTL DEF Spec

\* Buckets, emissions, promises and the count of errors have their types: the fields
\* of EventListenerRegistry.js and the snapshots of triggerEvent.js:103-104.
THEOREM TypeCorrect == Spec => []TypeOK
<1>1. ListenersInv => TypeOK
    BY ListenersAssumption DEF ListenersInv, Types, TypeOK, SafeFrame
<1> QED BY Invariance, <1>1, PTL

\* A once() registration waits, in the bucket or in a snapshot, until it is called
\* or removed, and is not called again, for any number of listeners that register,
\* remove, throw and reject as they like; a report that fails loses at most one of a
\* listener and event: triggerEvent.js:35-38 and :103-110.
THEOREM OnceExactly == Spec => OnceRunsOnce
<1> DEFINE Follows == \A e \in Event, l \in Listener : WaitsForItsCall(e, l)
<1>1. ASSUME ListenersInv, Next, ListenersInv', NEW e \in Event, NEW l \in Listener
      PROVE  WaitsForItsCall(e, l)
  <2>1. Followed(e, l)
      BY <1>1, RegistryStep, StartStep, CallStep, ListenerEndsStep, EndsStep DEF Next, AllFollowed
  <2>2. Waits(e, l) = Count(stack, once, e, l)
      BY <1>1, SnappedCount DEF Waits, Count, Waiting, ListenersInv
  <2>3. Waits(e, l)' = Count(stack', once', e, l)
      BY <1>1, SnappedCount DEF Waits, Count, Waiting, ListenersInv
  <2> QED BY <2>1, <2>2, <2>3 DEF Followed, WaitsForItsCall
<1>2. ListenersInv /\ ListenersInv' /\ [Next]_vars => [Follows]_vars
    BY <1>1
<1> QED BY Invariance, <1>2, PTL DEF Spec, OnceRunsOnce

\* The error listeners never run because an error listener failed, at once or
\* by a promise, and emissions nest no deeper than an error under a failure:
\* triggerEvent.js:44 and :53.
THEOREM NoRecursion == Spec => []ErrorsDoNotRecurse
<1>1. ListenersInv => ErrorsDoNotRecurse
  <2> SUFFICES ASSUME ListenersInv PROVE ErrorsDoNotRecurse
      OBVIOUS
  <2> DEFINE S == {i \in DOMAIN stack : stack[i].event = "error"}
  <2>1. Len(stack) <= 2 /\ (S = {} \/ \E i \in DOMAIN stack : S = {i})
    <3>1. CASE stack = <<>>
        BY <3>1
    <3>2. ASSUME NEW f \in SafeFrame, stack = <<f>>
          PROVE  Len(stack) <= 2 /\ (S = {} \/ \E i \in DOMAIN stack : S = {i})
      <4>1. DOMAIN stack = {1} /\ Len(stack) = 1
          BY <3>2
      <4> QED BY <4>1
    <3>3. ASSUME NEW f \in SafeFrame, NEW g \in SafeFrame, stack = <<f, g>>, f.event = "failure", g.event = "error"
          PROVE  Len(stack) <= 2 /\ (S = {} \/ \E i \in DOMAIN stack : S = {i})
      <4>1. DOMAIN stack = {1, 2} /\ Len(stack) = 2 /\ stack[1].event # "error"
          BY <3>3
      <4> QED BY <4>1
    <3> QED BY <3>1, <3>2, <3>3 DEF ListenersInv, Nested
  <2> HIDE DEF S
  <2>2. S = {} => Cardinality(S) = 0
      BY FS_EmptySet
  <2>3. \A i \in DOMAIN stack : S = {i} => Cardinality(S) = 1
      BY FS_Singleton
  <2>4. Cardinality(S) <= 1
      BY <2>1, <2>2, <2>3
  <2>5. \A i \in DOMAIN stack : stack[i].cause # "error"
      BY DEF ListenersInv, Types, SafeFrame
  <2> QED BY <2>1, <2>4, <2>5 DEF ErrorsDoNotRecurse, S
<1> QED BY Invariance, <1>1, PTL

\* No listener of a snapshot is passed over, whatever the listeners before it
\* did, but when an error listener throws an error that cannot be printed or
\* another listener does and nobody listens to "error": triggerEvent.js:84.
THEOREM NobodySkipped == Spec => AllListenersRun
<1> DEFINE Called(i) == \E x \in Left(stack, i) :
                            /\ Left(stack', i) = Left(stack, i) \ {x}
                            /\ i \in DOMAIN stack' /\ stack'[i].running = x[2]
           Kept(i) == Left(stack', i) = Left(stack, i) \/ Called(i) \/ Unreported
<1>1. ASSUME ListenersInv, Next, NEW i \in DOMAIN stack PROVE Kept(i)
  <2>1. Types /\ Nested(stack) /\ stack # <<>>
      BY <1>1 DEF ListenersInv
  <2> DEFINE n == Len(stack)
  <2>2. /\ n \in DOMAIN stack /\ Top \in SafeFrame /\ Top = stack[n]
        /\ DOMAIN Below = DOMAIN stack \ {n} /\ \A j \in DOMAIN Below : Below[j] = stack[j]
      BY <2>1, TopReplaced
  <2>3. ASSUME NEW h \in SafeFrame
        PROVE  /\ SetTop(h) \in Seq(SafeFrame) /\ DOMAIN SetTop(h) = DOMAIN stack
               /\ SetTop(h)[i] = IF i = n THEN h ELSE stack[i]
      BY <2>1, TopReplaced
  <2> HIDE DEF n
  <2>4. CASE \/ \E e \in Event, l \in Listener : On(e, l) \/ Once(e, l) \/ Off(e, l)
             \/ ClearListeners
      BY <2>4 DEF On, Once, Off, ClearListeners
  <2>5. CASE TriggerEvent \/ HandshakeError \/ \E e \in Event : Rejects(e)
      BY <2>1, <2>5 DEF TriggerEvent, HandshakeError, Rejects
  <2>6. CASE Call
    <3>1. ASSUME NEW l \in Top.on, stack' = SetTop([Top EXCEPT !.running = l, !.on = @ \ {l}])
          PROVE  Kept(i)
      <4> DEFINE h == [Top EXCEPT !.running = l, !.on = @ \ {l}]
      <4>1. h \in SafeFrame /\ h.on = Top.on \ {l} /\ h.once = Top.once /\ h.running = l
          BY <2>2 DEF SafeFrame, Frame
      <4>2. stack' = SetTop(h)
          BY <3>1
      <4> HIDE DEF h
      <4>3. i \in DOMAIN stack' /\ stack'[i] = IF i = n THEN h ELSE stack[i]
          BY <2>3, <4>1, <4>2
      <4>4. CASE i # n
          BY <4>3, <4>4 DEF Left
      <4>5. CASE i = n
        <5>1. <<"on", l>> \in Left(stack, i) /\ Left(stack', i) = Left(stack, i) \ {<<"on", l>>}
            BY <2>2, <3>1, <4>1, <4>3, <4>5 DEF Left
        <5> QED BY <4>1, <4>3, <4>5, <5>1
      <4> QED BY <4>4, <4>5
    <3>2. ASSUME NEW l \in Top.once, stack' = SetTop([Top EXCEPT !.running = l, !.once = @ \ {l}])
          PROVE  Kept(i)
      <4> DEFINE h == [Top EXCEPT !.running = l, !.once = @ \ {l}]
      <4>1. h \in SafeFrame /\ h.on = Top.on /\ h.once = Top.once \ {l} /\ h.running = l
          BY <2>2 DEF SafeFrame, Frame
      <4>2. stack' = SetTop(h)
          BY <3>2
      <4> HIDE DEF h
      <4>3. i \in DOMAIN stack' /\ stack'[i] = IF i = n THEN h ELSE stack[i]
          BY <2>3, <4>1, <4>2
      <4>4. CASE i # n
          BY <4>3, <4>4 DEF Left
      <4>5. CASE i = n
        <5>1. <<"once", l>> \in Left(stack, i) /\ Left(stack', i) = Left(stack, i) \ {<<"once", l>>}
            BY <2>2, <3>2, <4>1, <4>3, <4>5 DEF Left
        <5> QED BY <4>1, <4>3, <4>5, <5>1
      <4> QED BY <4>4, <4>5
    <3> QED BY <2>6, <3>1, <3>2 DEF Call
  <2>7. CASE ListenerEnds
    <3>1. Idle \in SafeFrame /\ Idle.on = Top.on /\ Idle.once = Top.once
        BY <2>2 DEF Idle, SafeFrame, Frame
    <3>2. /\ SetTop(Idle) \in Seq(SafeFrame) /\ i \in DOMAIN SetTop(Idle)
          /\ SetTop(Idle)[i] = IF i = n THEN Idle ELSE stack[i]
        BY <2>3, <3>1
    <3>3. Left(SetTop(Idle), i) = Left(stack, i)
        BY <2>2, <3>1, <3>2 DEF Left
    <3>4. CASE Returns \/ ReturnsPromise
        BY <3>3, <3>4 DEF Returns, ReturnsPromise
    <3>5. CASE Throws
      <4>1. PICK printable \in BOOLEAN :
                /\ Failure(printable)
                /\ IF Top.event = "failure" THEN EmitSafeError("failure", SetTop(Idle), printable)
                   ELSE Warn(SetTop(Idle), printable)
          BY <3>5 DEF Throws
      <4>2. CASE Emit("error", "failure", SetTop(Idle))
        <5>1. PICK h : stack' = Append(SetTop(Idle), h)
            BY <4>2 DEF Emit
        <5>2. i \in DOMAIN stack' /\ stack'[i] = SetTop(Idle)[i]
            BY <3>2, <5>1
        <5>3. Left(stack', i) = Left(SetTop(Idle), i)
            BY <3>2, <5>2 DEF Left
        <5> QED BY <3>3, <5>3
      <4>3. ASSUME Warn(SetTop(Idle), printable), Top.event # "failure" \/ ~Listening("error")
            PROVE  Kept(i)
        <5>1. CASE printable
            BY <3>3, <4>3, <5>1 DEF Warn
        <5>2. CASE ~printable
          <6>1. unprintable' = unprintable + 1 /\ unprintable \in Nat
              BY <2>1, <4>1, <5>2 DEF Failure, Types
          <6>2. unprintable' > unprintable
              BY <6>1
          <6>3. Top.event = "error" \/ ~Listening("error")
              BY <2>2, <4>3 DEF SafeFrame, Frame, Event
          <6> QED BY <6>2, <6>3 DEF Unreported
        <5> QED BY <5>1, <5>2
      <4> QED BY <4>1, <4>2, <4>3 DEF EmitSafeError
    <3> QED BY <2>7, <3>4, <3>5 DEF ListenerEnds
  <2>8. CASE Ends
    <3>1. stack' = Below /\ Top.on \cup Top.once = {}
        BY <2>8 DEF Ends
    <3>2. CASE i = n
        BY <2>2, <3>1, <3>2 DEF Left
    <3>3. CASE i # n
        BY <2>2, <3>1, <3>3 DEF Left
    <3> QED BY <3>2, <3>3
  <2> QED BY <1>1, <2>4, <2>5, <2>6, <2>7, <2>8 DEF Next
<1>2. ListenersInv /\ [Next]_vars => [PassesOverNobody]_vars
    BY <1>1 DEF PassesOverNobody
<1> QED BY Invariance, <1>2, PTL DEF Spec, AllListenersRun
=============================================================================
