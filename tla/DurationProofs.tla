---------------------------- MODULE DurationProofs ----------------------------
(***************************************************************************)
(* The windows of the duration limiter hold: the log accounts for the      *)
(* slots that are kept, although a refund drops an entry of somebody else. *)
(***************************************************************************)
EXTENDS DurationSystemInv, FiniteSetTheorems, SequenceTheorems, TLAPS

Sorted(l) == \A i, j \in DOMAIN l : i < j => l[i] <= l[j]

\* What the log may be while the clock shows t.
GoodLog(l, t) ==
    /\ l \in Seq(0..MaxTime)
    /\ Sorted(l)
    /\ Len(l) <= MaxConcurrent
    /\ \A i \in DOMAIN l : l[i] <= t

-----------------------------------------------------------------------------
(***************************************************************************)
(* Operations on the log.                                                  *)
(***************************************************************************)

\* removeBefore cuts a sorted log where its entries reach t.
LEMMA CutAt ==
    ASSUME NEW l \in Seq(Int), Sorted(l), NEW t \in Int
    PROVE  /\ Cardinality({i \in DOMAIN l : l[i] < t}) \in 0..Len(l)
           /\ \A i \in DOMAIN l :
                 l[i] < t <=> i <= Cardinality({j \in DOMAIN l : l[j] < t})
<1> DEFINE S == {i \in DOMAIN l : l[i] < t}
<1>1. DOMAIN l = 1..Len(l) /\ Len(l) \in Nat /\ \A i \in 1..Len(l) : l[i] \in Int
    OBVIOUS
<1>2. /\ IsFiniteSet(1..Len(l))
      /\ Cardinality(1..Len(l)) = IF 1 > Len(l) THEN 0 ELSE Len(l) - 1 + 1
    BY <1>1, FS_Interval
<1>3. S \in SUBSET (1..Len(l))
    BY <1>1
<1>4. IsFiniteSet(S) /\ Cardinality(S) \in Nat /\ Cardinality(S) <= Len(l)
    BY <1>2, <1>3, FS_Subset, FS_CardinalityType
<1>5. ASSUME NEW i \in 1..Len(l), l[i] < t PROVE i <= Cardinality(S)
  <2>1. 1..i \in SUBSET S
      BY <1>1, <1>5 DEF Sorted
  <2>2. Cardinality(1..i) = i
      BY FS_Interval
  <2> QED BY <1>4, <2>1, <2>2, FS_Subset
<1>6. ASSUME NEW i \in 1..Len(l), ~(l[i] < t) PROVE ~(i <= Cardinality(S))
  <2>1. ASSUME NEW j \in S PROVE j \in 1..(i - 1)
    <3>1. j \in 1..Len(l) /\ l[j] < t /\ l[j] \in Int /\ l[i] \in Int
        BY <1>1
    <3>2. ~(i <= j)
        BY <1>1, <1>6, <3>1 DEF Sorted
    <3> QED BY <3>1, <3>2
  <2> HIDE DEF S
  <2>2. /\ IsFiniteSet(1..(i - 1))
        /\ Cardinality(1..(i - 1)) = IF 1 > i - 1 THEN 0 ELSE i - 1 - 1 + 1
      BY FS_Interval
  <2>3. S \in SUBSET (1..(i - 1))
      BY <2>1
  <2>4. Cardinality(S) <= Cardinality(1..(i - 1))
      BY <2>2, <2>3, FS_Subset
  <2> QED BY <1>4, <2>2, <2>4
<1> QED BY <1>1, <1>4, <1>5, <1>6

\* removeBefore leaves a suffix of the log; what it removes lies before t.
LEMMA RemoveBeforeEffect ==
    ASSUME NEW l \in Seq(Int), Sorted(l), NEW t \in Int
    PROVE  \E c \in 0..Len(l) :
               /\ RemoveBefore(l, t) = SubSeq(l, c + 1, Len(l))
               /\ c > 0 => l[c] < t
               /\ c < Len(l) => l[c + 1] >= t
<1> DEFINE c == Cardinality({i \in DOMAIN l : l[i] < t})
<1>1. c \in 0..Len(l) /\ \A i \in DOMAIN l : l[i] < t <=> i <= c
    BY CutAt
<1>2. RemoveBefore(l, t) = SubSeq(l, c + 1, Len(l))
    BY DEF RemoveBefore
<1> HIDE DEF c
<1>3. DOMAIN l = 1..Len(l) /\ \A i \in 1..Len(l) : l[i] \in Int
    OBVIOUS
<1>4. c > 0 => l[c] < t
    BY <1>1, <1>3
<1>5. c < Len(l) => l[c + 1] >= t
  <2>1. SUFFICES ASSUME c < Len(l) PROVE l[c + 1] >= t
      OBVIOUS
  <2>2. c + 1 \in DOMAIN l /\ l[c + 1] \in Int /\ ~(c + 1 <= c)
      BY <1>1, <1>3, <2>1
  <2>3. ~(l[c + 1] < t)
      BY <1>1, <2>2
  <2> QED BY <2>2, <2>3
<1> QED BY <1>1, <1>2, <1>4, <1>5

\* A suffix of a log.
LEMMA SuffixFacts ==
    ASSUME NEW S, NEW l \in Seq(S), NEW c \in 0..Len(l)
    PROVE  /\ SubSeq(l, c + 1, Len(l)) \in Seq(S)
           /\ Len(SubSeq(l, c + 1, Len(l))) = Len(l) - c
           /\ \A i \in 1..(Len(l) - c) : SubSeq(l, c + 1, Len(l))[i] = l[i + c]
<1>1. Len(l) \in Nat /\ \A i \in 1..Len(l) : l[i] \in S
    OBVIOUS
<1>2. \A i \in (c + 1)..Len(l) : l[i] \in S
    BY <1>1
<1>3. SubSeq(l, c + 1, Len(l)) \in Seq(S)
    BY <1>1, <1>2
<1>4. Len(SubSeq(l, c + 1, Len(l))) = Len(l) - c
    BY <1>1
<1> QED BY <1>1, <1>3, <1>4

\* A suffix of a good log is a good log.
LEMMA SuffixIsGood ==
    ASSUME NEW t \in Int, NEW l, GoodLog(l, t), NEW c \in 0..Len(l)
    PROVE  GoodLog(SubSeq(l, c + 1, Len(l)), t)
<1> DEFINE m == SubSeq(l, c + 1, Len(l))
<1> USE DurationAssumption
<1>1. l \in Seq(0..MaxTime) /\ Len(l) \in Nat /\ DOMAIN l = 1..Len(l)
    BY DEF GoodLog
<1>2. m \in Seq(0..MaxTime) /\ Len(m) = Len(l) - c
      /\ \A i \in 1..(Len(l) - c) : m[i] = l[i + c]
    BY <1>1, SuffixFacts
<1>3. DOMAIN m = 1..(Len(l) - c)
    BY <1>2
<1> HIDE DEF m
<1>4. \A i \in DOMAIN m : i + c \in DOMAIN l
    BY <1>1, <1>3
<1>5. Sorted(m)
  <2>1. SUFFICES ASSUME NEW i \in DOMAIN m, NEW j \in DOMAIN m, i < j PROVE m[i] <= m[j]
      BY DEF Sorted
  <2>2. i + c < j + c
      BY <2>1, <1>3
  <2> QED BY <1>2, <1>3, <1>4, <2>1, <2>2 DEF GoodLog, Sorted
<1>6. Len(m) <= MaxConcurrent
    BY <1>1, <1>2 DEF GoodLog
<1>7. \A i \in DOMAIN m : m[i] <= t
    BY <1>2, <1>3, <1>4 DEF GoodLog
<1>8. GoodLog(m, t)
    BY <1>2, <1>5, <1>6, <1>7 DEF GoodLog
<1> QED BY <1>8 DEF m

\* The time of the clock may be appended to a good log that is not full.
LEMMA AppendIsGood ==
    ASSUME NEW t \in 0..MaxTime, NEW l, GoodLog(l, t), Len(l) < MaxConcurrent
    PROVE  GoodLog(Append(l, t), t)
<1> USE DurationAssumption
<1>1. l \in Seq(0..MaxTime) /\ Len(l) \in Nat /\ DOMAIN l = 1..Len(l)
    BY DEF GoodLog
<1>2. /\ Append(l, t) \in Seq(0..MaxTime) /\ Len(Append(l, t)) = Len(l) + 1
      /\ DOMAIN Append(l, t) = 1..(Len(l) + 1)
      /\ Append(l, t)[Len(l) + 1] = t
      /\ \A i \in 1..Len(l) : Append(l, t)[i] = l[i]
    BY <1>1
<1>3. \A i \in 1..(Len(l) + 1) : i \in 1..Len(l) \/ i = Len(l) + 1
    BY <1>1
<1>4. \A i \in 1..(Len(l) + 1) : Append(l, t)[i] <= t
    BY <1>1, <1>2, <1>3 DEF GoodLog
<1>5. Sorted(Append(l, t))
  <2>1. SUFFICES ASSUME NEW i \in 1..(Len(l) + 1), NEW j \in 1..(Len(l) + 1), i < j
                 PROVE  Append(l, t)[i] <= Append(l, t)[j]
      BY <1>2 DEF Sorted
  <2>2. i \in 1..Len(l)
      BY <2>1, <1>1
  <2>3. CASE j \in 1..Len(l)
      BY <2>1, <2>2, <2>3, <1>1, <1>2 DEF GoodLog, Sorted
  <2>4. CASE j = Len(l) + 1
      BY <2>4, <1>2, <1>4
  <2> QED BY <2>3, <2>4, <1>3
<1>6. Len(l) + 1 <= MaxConcurrent
    BY <1>1
<1> QED BY <1>2, <1>4, <1>5, <1>6 DEF GoodLog

\* Tail is the suffix without one entry.
LEMMA TailIsSuffix ==
    ASSUME NEW S, NEW l \in Seq(S), l # <<>>
    PROVE  1 \in 0..Len(l) /\ Tail(l) = SubSeq(l, 1 + 1, Len(l))
<1>1. Len(l) \in Nat \ {0}
    OBVIOUS
<1> QED BY <1>1

-----------------------------------------------------------------------------
(***************************************************************************)
(* What a log accounts for.                                                *)
(***************************************************************************)

\* A log accounts for fewer slots as well.
LEMMA BacksFewer ==
    ASSUME NEW l \in Seq(Int), NEW t \in Int, NEW k \in Nat, NEW j \in Nat,
           Backs(l, t, k), j <= k
    PROVE  Backs(l, t, j)
BY DEF Backs

\* A suffix that misses only entries before t accounts for the same slots.
LEMMA BacksAfterCut ==
    ASSUME NEW l \in Seq(Int), NEW t \in Int, NEW k \in Nat, Backs(l, t, k),
           NEW c \in 0..Len(l), c > 0 => l[c] < t
    PROVE  Backs(SubSeq(l, c + 1, Len(l)), t, k)
<1> DEFINE m == SubSeq(l, c + 1, Len(l))
<1>1. Len(l) \in Nat /\ Len(m) = Len(l) - c /\ \A i \in 1..(Len(l) - c) : m[i] = l[i + c]
    BY SuffixFacts
<1> HIDE DEF m
<1>2. SUFFICES ASSUME NEW n \in 0..(Len(l) - c), n > 0 => m[n] < t
               PROVE  k <= Len(l) - c - n
    BY <1>1 DEF Backs, m
<1>3. n + c \in 0..Len(l)
    BY <1>1
<1>4. n + c > 0 => l[n + c] < t
  <2>1. CASE n > 0
      BY <2>1, <1>1, <1>2
  <2>2. CASE n = 0
      BY <2>2
  <2> QED BY <2>1, <2>2
<1> QED BY <1>1, <1>3, <1>4 DEF Backs

\* One more entry that is not before t accounts for one more slot.
LEMMA BacksAfterAppend ==
    ASSUME NEW l \in Seq(Int), NEW t \in Int, NEW k \in Nat, Backs(l, t, k),
           NEW x \in Int, t <= x
    PROVE  Backs(Append(l, x), t, k + 1)
<1>1. /\ Len(l) \in Nat /\ Len(Append(l, x)) = Len(l) + 1
      /\ Append(l, x)[Len(l) + 1] = x
      /\ \A i \in 1..Len(l) : Append(l, x)[i] = l[i]
    OBVIOUS
<1>2. SUFFICES ASSUME NEW n \in 0..(Len(l) + 1), n > 0 => Append(l, x)[n] < t
               PROVE  k + 1 <= Len(l) + 1 - n
    BY <1>1 DEF Backs
<1>3. n # Len(l) + 1
    BY <1>1, <1>2
<1>4. n \in 0..Len(l) /\ (n > 0 => l[n] < t)
    BY <1>1, <1>2, <1>3
<1>5. k <= Len(l) - n
    BY <1>4 DEF Backs
<1> QED BY <1>1, <1>4, <1>5

\* Without its oldest entry a log accounts for one slot less than it did, or
\* for as many as it has entries.
LEMMA BacksAfterTail ==
    ASSUME NEW l \in Seq(Int), l # <<>>, NEW t \in Int, NEW k \in Nat, Backs(l, t, k),
           NEW j \in Nat, j <= k, j <= Len(l) - 1
    PROVE  Backs(Tail(l), t, j)
<1>1. /\ Len(l) \in Nat \ {0} /\ Len(Tail(l)) = Len(l) - 1
      /\ \A i \in 1..(Len(l) - 1) : Tail(l)[i] = l[i + 1]
    OBVIOUS
<1>2. SUFFICES ASSUME NEW n \in 0..(Len(l) - 1), n > 0 => Tail(l)[n] < t
               PROVE  j <= Len(l) - 1 - n
    BY <1>1 DEF Backs
<1>3. CASE n = 0
    BY <1>3, <1>1
<1>4. CASE n > 0
  <2>1. n + 1 \in 0..Len(l) /\ l[n + 1] < t
      BY <1>4, <1>1, <1>2
  <2>2. k <= Len(l) - (n + 1)
      BY <2>1 DEF Backs
  <2> QED BY <2>2, <1>1
<1> QED BY <1>3, <1>4

-----------------------------------------------------------------------------
(***************************************************************************)
(* What a turn of the grant loop leaves behind, the log having become l.   *)
(***************************************************************************)

Settled(l) ==
    /\ \E c \in 0..Len(l) :
           log' = SubSeq(l, c + 1, Len(l)) /\ (c > 0 => l[c] < now - Window)
    /\ loop' \in LoopState
    /\ wakeAt' \in 0..(MaxTime + Window)
    /\ loop' = "idle" <=> queue' = <<>>
    /\ loop' = "dispatch" => Len(log') < MaxConcurrent

\* A log that is left alone is its own suffix.
LEMMA WholeLog ==
    ASSUME NEW t \in Int, NEW l, GoodLog(l, t)
    PROVE  /\ Len(l) \in Nat /\ 0 \in 0..Len(l) /\ l \in Seq(Int)
           /\ l = SubSeq(l, 0 + 1, Len(l))
<1>1. l \in Seq(0..MaxTime)
    BY DEF GoodLog
<1>2. 0..MaxTime \subseteq Int
    BY SystemAssumption
<1>3. l \in Seq(Int)
    BY <1>1, <1>2, SeqMonotonic
<1> QED BY <1>1, <1>3

\* A log whose entries are kept is settled with the lock.
LEMMA KeptSettles ==
    ASSUME now \in 0..MaxTime, NEW l, GoodLog(l, now), log' = l,
           loop' \in LoopState, wakeAt' \in 0..(MaxTime + Window),
           loop' = "idle" <=> queue' = <<>>,
           loop' = "dispatch" => Len(l) < MaxConcurrent
    PROVE  Settled(l)
<1>1. 0 \in 0..Len(l) /\ log' = SubSeq(l, 0 + 1, Len(l))
    BY WholeLog
<1> QED BY <1>1 DEF Settled

\* #pruneGrantLog waits, turns or lets the loop go on.
LEMMA PruneSettles ==
    ASSUME now \in 0..MaxTime, wakeAt \in 0..(MaxTime + Window),
           NEW l, GoodLog(l, now), queue' # <<>>, PruneGrantLog(l)
    PROVE  Settled(l)
<1> USE DurationAssumption, SystemAssumption
<1>1. now - Window \in Int /\ Window \in Nat
    BY DEF Window
<1>2. PICK c \in 0..Len(l) :
          /\ RemoveBefore(l, now - Window) = SubSeq(l, c + 1, Len(l))
          /\ c > 0 => l[c] < now - Window
  <2>1. l \in Seq(Int) /\ Sorted(l)
      BY WholeLog DEF GoodLog
  <2> QED BY <1>1, <2>1, RemoveBeforeEffect
<1>3. PICK kept : kept = RemoveBefore(l, now - Window)
    OBVIOUS
<1>4. log' = kept /\ kept = SubSeq(l, c + 1, Len(l))
    BY <1>2, <1>3 DEF PruneGrantLog
<1>5. GoodLog(kept, now)
    BY <1>4, SuffixIsGood
<1>6. kept \in Seq(0..MaxTime) /\ Len(kept) \in Nat
    BY <1>5 DEF GoodLog
<1>7. Len(kept) >= MaxConcurrent => Head(kept) \in 0..MaxTime
    BY <1>6
<1>8. /\ loop' \in LoopState \ {"idle"}
      /\ loop' = "dispatch" => Len(kept) < MaxConcurrent
      /\ wakeAt' = wakeAt \/ (Len(kept) >= MaxConcurrent /\ wakeAt' = Head(kept) + Window)
    BY <1>3, <1>6 DEF PruneGrantLog, LoopState
<1>9. wakeAt' \in 0..(MaxTime + Window)
    BY <1>1, <1>7, <1>8
<1> QED BY <1>2, <1>4, <1>8, <1>9 DEF Settled

\* The loop goes round while somebody queues, and ends when nobody does.
LEMMA LoopOnSettles ==
    ASSUME now \in 0..MaxTime, wakeAt \in 0..(MaxTime + Window),
           NEW l, GoodLog(l, now), LoopOn(l)
    PROVE  Settled(l)
<1>1. CASE queue' # <<>> /\ PruneGrantLog(l)
    BY <1>1, PruneSettles
<1>2. CASE queue' = <<>> /\ log' = l /\ loop' = "idle" /\ UNCHANGED wakeAt
    BY <1>2, KeptSettles DEF LoopState
<1> QED BY <1>1, <1>2 DEF LoopOn

\* #grantPendingRequests, whoever holds the lock.
LEMMA GrantPendingSettles ==
    ASSUME now \in 0..MaxTime, wakeAt \in 0..(MaxTime + Window), loop \in LoopState,
           NEW l, GoodLog(l, now), GrantPendingRequests(l),
           loop # "idle" => queue' # <<>>,
           loop = "dispatch" => Len(l) < MaxConcurrent
    PROVE  Settled(l)
<1>1. CASE loop = "idle" /\ LoopOn(l)
    BY <1>1, LoopOnSettles
<1>2. CASE loop # "idle" /\ log' = l /\ UNCHANGED <<loop, wakeAt>>
    BY <1>2, KeptSettles
<1> QED BY <1>1, <1>2 DEF GrantPendingRequests

-----------------------------------------------------------------------------
(***************************************************************************)
(* The slots.                                                              *)
(***************************************************************************)

LEMMA RequestsFinite == IsFiniteSet(Requests)
<1>1. IsFiniteSet(1..MaxCalls)
    BY DurationAssumption, FS_Interval
<1> QED BY <1>1, WorkersAssumption, FS_Product DEF Requests

\* Sets of requests are counted.
LEMMA CountRequests ==
    ASSUME NEW S \in SUBSET Requests
    PROVE  IsFiniteSet(S) /\ Cardinality(S) \in Nat
BY RequestsFinite, FS_Subset, FS_CardinalityType

LEMMA CountFewer ==
    ASSUME NEW S \in SUBSET Requests, NEW T \in SUBSET S
    PROVE  /\ Cardinality(T) \in Nat /\ Cardinality(S) \in Nat
           /\ Cardinality(T) <= Cardinality(S)
<1>1. T \in SUBSET Requests
    OBVIOUS
<1> QED BY <1>1, CountRequests, FS_Subset

\* The slots of a window.
InWindow(t) == {p \in Granted : stamp[p] \in t..(t + Window)}

\* Nobody takes a slot: the windows have no more slots than before.
LEMMA FewerSlots ==
    ASSUME Granted' \subseteq Granted, \A p \in Granted' : stamp'[p] = stamp[p], now' = now
    PROVE  /\ \A t : /\ Slots(t)' \subseteq Slots(t)
                     /\ Cardinality(Slots(t)) \in Nat /\ Cardinality(Slots(t)') \in Nat
                     /\ Cardinality(Slots(t)') <= Cardinality(Slots(t))
           /\ GrantWindow => GrantWindow'
<1>1. Granted \subseteq Requests
    BY DEF Granted
<1>2. ASSUME NEW t
      PROVE  /\ Slots(t)' \subseteq Slots(t)
             /\ Cardinality(Slots(t)) \in Nat /\ Cardinality(Slots(t)') \in Nat
             /\ Cardinality(Slots(t)') <= Cardinality(Slots(t))
  <2>1. Slots(t)' \subseteq Slots(t) /\ Slots(t) \subseteq Requests
      BY <1>1 DEF Slots
  <2> QED BY <2>1, CountFewer
<1>3. ASSUME GrantWindow, NEW t \in 0..now
      PROVE  Cardinality({p \in Granted' : stamp'[p] \in t..(t + Window)}) <= MaxConcurrent
  <2> DEFINE S == {p \in Granted : stamp[p] \in t..(t + Window)}
             T == {p \in Granted' : stamp'[p] \in t..(t + Window)}
  <2>1. T \in SUBSET S /\ S \in SUBSET Requests
      BY <1>1
  <2>2. Cardinality(S) <= MaxConcurrent
      BY <1>3 DEF GrantWindow
  <2> HIDE DEF S, T
  <2>3. Cardinality(T) \in Nat /\ Cardinality(S) \in Nat /\ Cardinality(T) <= Cardinality(S)
      BY <2>1, CountFewer
  <2>4. Cardinality(T) <= MaxConcurrent
      BY <2>2, <2>3, DurationAssumption
  <2> QED BY <2>4 DEF T
<1>4. GrantWindow => GrantWindow'
    BY <1>3 DEF GrantWindow, Window
<1> QED BY <1>2, <1>4

\* #refundSlot gives one slot back: the oldest entry goes, unless the slot's
\* time has expired, and the log still accounts for the other slots.
LEMMA RefundBacks ==
    ASSUME DurationInv, NEW p \in Granted, now' = now, UNCHANGED stamp,
           Granted' = Granted \ {p}
    PROVE  LET l == Refund(log, stamp[p])
           IN  /\ GoodLog(l, now) /\ Len(l) <= Len(log)
               /\ \A t \in (now - Window)..now : Backs(l, t, Cardinality(Slots(t)'))
<1> USE DurationAssumption, SystemAssumption
<1>1. /\ now \in 0..MaxTime /\ Window \in Nat \ {0} /\ Granted \subseteq Requests
      /\ p \in Requests /\ stamp[p] \in 0..MaxTime /\ stamp[p] <= now
    BY DEF DurationInv, TypeOK, TakenInThePast, Granted, Window
<1>2. GoodLog(log, now)
    BY DEF DurationInv, TypeOK, LogUsable, TakenInThePast, GoodLog, Sorted
<1>3. log \in Seq(Int) /\ Len(log) \in Nat
    BY <1>1, <1>2, WholeLog
<1>4. \A t : /\ Slots(t)' \subseteq Slots(t)
             /\ Cardinality(Slots(t)) \in Nat /\ Cardinality(Slots(t)') \in Nat
             /\ Cardinality(Slots(t)') <= Cardinality(Slots(t))
    BY FewerSlots
<1>5. \A t \in (now - Window)..now : Backs(log, t, Cardinality(Slots(t)))
    BY DEF DurationInv, Backed
<1>6. CASE Refund(log, stamp[p]) = log
  <2>1. \A t \in (now - Window)..now : Backs(log, t, Cardinality(Slots(t)'))
      BY <1>1, <1>3, <1>4, <1>5, BacksFewer
  <2> QED BY <1>2, <1>3, <1>6, <2>1
<1>7. CASE now - stamp[p] < Window /\ log # <<>> /\ Refund(log, stamp[p]) = Tail(log)
  <2>1. Len(log) \in Nat \ {0} /\ Len(Tail(log)) = Len(log) - 1
      BY <1>3, <1>7
  <2>2. GoodLog(Tail(log), now)
    <3>1. 1 \in 0..Len(log) /\ Tail(log) = SubSeq(log, 1 + 1, Len(log))
        BY <1>3, <1>7, TailIsSuffix
    <3>2. GoodLog(SubSeq(log, 1 + 1, Len(log)), now)
        BY <1>1, <1>2, <3>1, SuffixIsGood
    <3> QED BY <3>1, <3>2, Zenon
  <2>3. ASSUME NEW t \in (now - Window)..now
        PROVE  Cardinality(Slots(t)') <= Len(log) - 1
    <3>1. PICK u \in (now - Window)..now : u <= t /\ p \in Slots(u)
      <4>1. CASE stamp[p] >= t
          BY <4>1, <1>1 DEF Slots
      <4>2. CASE stamp[p] < t
        <5>1. stamp[p] \in (now - Window)..now /\ stamp[p] >= stamp[p]
            BY <1>1, <1>7
        <5> QED BY <4>2, <5>1 DEF Slots
      <4> QED BY <4>1, <4>2, <1>1
    <3>2. Slots(u) \subseteq Requests /\ Slots(u) \ {p} \subseteq Requests
        BY <1>1 DEF Slots
    <3>3. Slots(t)' \subseteq Slots(u) \ {p}
      <4>1. \A q \in Granted : stamp[q] \in Int
          BY <1>1 DEF DurationInv, TypeOK
      <4> QED BY <3>1, <4>1, <1>1 DEF Slots
    <3>4. Cardinality(Slots(u) \ {p}) = Cardinality(Slots(u)) - 1
        BY <3>1, <3>2, CountRequests, FS_RemoveElement
    <3>5. Cardinality(Slots(t)') <= Cardinality(Slots(u) \ {p})
        BY <3>2, <3>3, CountFewer
    <3>6. Cardinality(Slots(u)) <= Len(log)
        BY <1>3, <1>5 DEF Backs
    <3> QED BY <1>3, <1>4, <3>4, <3>5, <3>6
  <2>4. \A t \in (now - Window)..now : Backs(Tail(log), t, Cardinality(Slots(t)'))
      BY <1>1, <1>3, <1>4, <1>5, <1>7, <2>3, BacksAfterTail
  <2> QED BY <1>3, <1>7, <2>1, <2>2, <2>4
<1> QED BY <1>6, <1>7 DEF Refund

-----------------------------------------------------------------------------
(***************************************************************************)
(* Every step keeps the invariant.                                         *)
(***************************************************************************)

\* The types of what the grant loop does not set.
OtherTypesOK ==
    /\ queue \in Seq(Requests)
    /\ gone \subseteq Workers
    /\ stage \in [Requests -> Stage]
    /\ stamp \in [Requests -> 0..MaxTime]
    /\ tries \in [Requests -> 0..GrantRetryLimit]
    /\ due \in [Requests -> 0..(MaxTime + Latency + RetryDelay)]
    /\ start \in [Requests -> 0..MaxTime]

\* What is left to show of a step that ends with the log settled.
LEMMA SettledKeepsInv ==
    ASSUME DurationInv, now' = now, NEW l, GoodLog(l, now), Settled(l),
           \A t \in (now - Window)..now : Backs(l, t, Cardinality(Slots(t)')),
           OtherTypesOK', QueuedOnce', \A p \in Requests : stamp'[p] <= now,
           GrantWindow'
    PROVE  DurationInv'
<1> USE DurationAssumption, SystemAssumption
<1>1. now \in 0..MaxTime /\ Window \in Nat \ {0}
    BY DEF DurationInv, TypeOK, Window
<1>2. PICK c \in 0..Len(l) :
          log' = SubSeq(l, c + 1, Len(l)) /\ (c > 0 => l[c] < now - Window)
    BY DEF Settled
<1>3. GoodLog(log', now)
    BY <1>1, <1>2, SuffixIsGood
<1>4. l \in Seq(Int)
    BY <1>1, WholeLog
<1>5. TypeOK'
    BY <1>1, <1>3 DEF Settled, OtherTypesOK, TypeOK, GoodLog, Window
<1>6. LogUsable'
    BY <1>3 DEF Settled, LogUsable, GoodLog, Sorted, LoopState
<1>7. LockedWhileQueued' /\ TakenInThePast'
    BY <1>3 DEF Settled, LockedWhileQueued, TakenInThePast, GoodLog
<1>8. ASSUME NEW t \in (now - Window)..now PROVE Backs(log', t, Cardinality(Slots(t)'))
  <2>1. Cardinality(Slots(t)') \in Nat
    <3>1. Slots(t)' \subseteq Requests
        BY DEF Slots, Granted
    <3> QED BY <3>1, CountRequests
  <2>2. c > 0 => l[c] < t
    <3>1. c > 0 => l[c] \in Int
        BY <1>4
    <3> QED BY <1>1, <1>2, <3>1
  <2> QED BY <1>1, <1>2, <1>4, <2>1, <2>2, BacksAfterCut
<1>9. Backed'
    BY <1>8 DEF Backed, Window
<1> QED BY <1>5, <1>6, <1>7, <1>9 DEF DurationInv

\* The log of a state that satisfies the invariant.
LEMMA LogIsGood ==
    ASSUME DurationInv
    PROVE  /\ GoodLog(log, now) /\ now \in 0..MaxTime /\ now \in Int
           /\ loop \in LoopState /\ wakeAt \in 0..(MaxTime + Window)
           /\ queue \in Seq(Requests) /\ OtherTypesOK
           /\ loop = "idle" <=> queue = <<>>
           /\ loop = "dispatch" => Len(log) < MaxConcurrent
BY DEF DurationInv, TypeOK, LogUsable, TakenInThePast, GoodLog, Sorted, OtherTypesOK,
       LockedWhileQueued

\* A step that takes no slot and does not touch the log before the loop does.
LEMMA LogAloneKeepsInv ==
    ASSUME DurationInv, now' = now, UNCHANGED stamp, Granted' \subseteq Granted,
           Settled(log), OtherTypesOK', QueuedOnce'
    PROVE  DurationInv'
<1>1. /\ \A t : /\ Cardinality(Slots(t)) \in Nat /\ Cardinality(Slots(t)') \in Nat
                /\ Cardinality(Slots(t)') <= Cardinality(Slots(t))
      /\ GrantWindow => GrantWindow'
    BY FewerSlots
<1>2. GrantWindow'
    BY <1>1 DEF DurationInv
<1>3. GoodLog(log, now) /\ now \in Int /\ log \in Seq(Int) /\ Window \in Int
    BY LogIsGood, WholeLog, DurationAssumption DEF Window
<1>4. \A t \in (now - Window)..now : Backs(log, t, Cardinality(Slots(t)'))
  <2>1. \A t \in (now - Window)..now : Backs(log, t, Cardinality(Slots(t)))
      BY DEF DurationInv, Backed
  <2> QED BY <1>1, <1>3, <2>1, BacksFewer
<1>5. \A p \in Requests : stamp'[p] <= now
    BY DEF DurationInv, TakenInThePast
<1> QED BY <1>2, <1>3, <1>4, <1>5, SettledKeepsInv

LEMMA AcquireKeepsInv ==
    ASSUME DurationInv, NEW p \in Requests, Acquire(p), UNCHANGED start
    PROVE  DurationInv'
<1> USE DurationAssumption, SystemAssumption
<1>1. /\ loop # "spin" /\ stage[p] = "none"
      /\ stage' = [stage EXCEPT ![p] = "queued"]
      /\ queue' = Append(queue, p)
      /\ GrantPendingRequests(log)
      /\ UNCHANGED <<now, gone, stamp, tries, due>>
    BY DEF Acquire
<1>2. /\ GoodLog(log, now) /\ now \in 0..MaxTime /\ loop \in LoopState
      /\ wakeAt \in 0..(MaxTime + Window) /\ queue \in Seq(Requests) /\ OtherTypesOK
      /\ loop = "dispatch" => Len(log) < MaxConcurrent
    BY LogIsGood
<1>3. /\ queue' \in Seq(Requests) /\ queue' # <<>> /\ Len(queue) \in Nat
      /\ Len(queue') = Len(queue) + 1 /\ queue'[Len(queue) + 1] = p
      /\ \A i \in 1..Len(queue) : queue'[i] = queue[i]
    BY <1>1, <1>2
<1>4. Settled(log)
    BY <1>1, <1>2, <1>3, GrantPendingSettles
<1>5. OtherTypesOK'
    BY <1>1, <1>2, <1>3 DEF OtherTypesOK, Stage
<1>6. Granted' \subseteq Granted
    BY <1>1, <1>2 DEF Granted, OtherTypesOK
<1>7. QueuedOnce'
  <2>1. \A i \in 1..(Len(queue) + 1) : i \in 1..Len(queue) \/ i = Len(queue) + 1
      BY <1>3
  <2>2. /\ \A i \in 1..Len(queue) : queue[i] \in Requests /\ stage[queue[i]] = "queued"
        /\ \A i, j \in 1..Len(queue) : i # j => queue[i] # queue[j]
      BY <1>2 DEF DurationInv, QueuedOnce
  <2>3. \A i \in 1..Len(queue) : queue[i] # p
      BY <1>1, <2>2
  <2>4. \A i \in 1..(Len(queue) + 1) : stage'[queue'[i]] = "queued"
      BY <1>1, <1>2, <1>3, <2>1, <2>2 DEF OtherTypesOK
  <2>5. \A i, j \in 1..(Len(queue) + 1) : i # j => queue'[i] # queue'[j]
      BY <1>3, <2>1, <2>2, <2>3
  <2> QED BY <1>3, <2>4, <2>5 DEF QueuedOnce
<1> QED BY <1>1, <1>4, <1>5, <1>6, <1>7, LogAloneKeepsInv

\* The timer of the loop fires, or the loop turns.
LEMMA TurnKeepsInv ==
    ASSUME DurationInv, Wake \/ Spin, UNCHANGED start
    PROVE  DurationInv'
<1>1. /\ loop \in {"sleep", "spin"} /\ PruneGrantLog(log)
      /\ UNCHANGED <<now, queue, gone, stage, stamp, tries, due>>
    BY DEF Wake, Spin
<1>2. /\ GoodLog(log, now) /\ now \in 0..MaxTime /\ loop \in LoopState
      /\ wakeAt \in 0..(MaxTime + Window) /\ OtherTypesOK
      /\ loop = "idle" <=> queue = <<>>
    BY LogIsGood
<1>3. Settled(log)
    BY <1>1, <1>2, PruneSettles
<1>4. OtherTypesOK' /\ Granted' \subseteq Granted
    BY <1>1, <1>2 DEF OtherTypesOK, Granted
<1>5. QueuedOnce'
    BY <1>1 DEF DurationInv, QueuedOnce
<1> QED BY <1>1, <1>3, <1>4, <1>5, LogAloneKeepsInv

\* A request that does not queue changes its stage: the queue does not notice.
LEMMA OthersStillQueue ==
    ASSUME DurationInv, NEW p \in Requests, stage[p] # "queued", NEW s \in Stage,
           stage' = [stage EXCEPT ![p] = s], UNCHANGED queue
    PROVE  QueuedOnce' /\ stage' \in [Requests -> Stage]
<1>1. queue \in Seq(Requests) /\ stage \in [Requests -> Stage]
    BY DEF DurationInv, TypeOK
<1>2. \A i \in DOMAIN queue : queue[i] \in Requests /\ stage[queue[i]] = "queued"
    BY <1>1 DEF DurationInv, QueuedOnce
<1>3. \A i \in DOMAIN queue : stage'[queue[i]] = "queued"
    BY <1>1, <1>2
<1> QED BY <1>1, <1>3 DEF DurationInv, QueuedOnce

\* A request that has a slot moves on and keeps it.
LEMMA SlotKeptKeepsInv ==
    ASSUME DurationInv, NEW p \in Requests, p \in Granted, stage[p] # "queued",
           NEW s \in Stage, stage' = [stage EXCEPT ![p] = s],
           UNCHANGED <<now, queue, log, loop, wakeAt, gone, stamp>>,
           tries' \in [Requests -> 0..GrantRetryLimit],
           due' \in [Requests -> 0..(MaxTime + Latency + RetryDelay)],
           start' \in [Requests -> 0..MaxTime]
    PROVE  DurationInv'
<1>1. QueuedOnce' /\ stage' \in [Requests -> Stage]
    BY OthersStillQueue
<1>2. /\ GoodLog(log, now) /\ now \in 0..MaxTime /\ loop \in LoopState
      /\ wakeAt \in 0..(MaxTime + Window) /\ OtherTypesOK
      /\ loop = "idle" <=> queue = <<>>
      /\ loop = "dispatch" => Len(log) < MaxConcurrent
    BY LogIsGood
<1>3. Settled(log)
    BY <1>2, KeptSettles
<1>4. OtherTypesOK'
    BY <1>1, <1>2 DEF OtherTypesOK
<1>5. Granted' \subseteq Granted
    BY <1>2 DEF Granted, OtherTypesOK
<1> QED BY <1>1, <1>3, <1>4, <1>5, LogAloneKeepsInv

\* The slot of a request is refunded, and the loop is called.
LEMMA RefundKeepsInv ==
    ASSUME DurationInv, NEW p \in Granted, stage[p] # "queued", RefundSlot(p),
           UNCHANGED <<now, queue, gone, stamp, tries, due, start>>
    PROVE  DurationInv'
<1> USE DurationAssumption, SystemAssumption
<1>1. PICK l : l = Refund(log, stamp[p])
    OBVIOUS
<1>2. stage' = [stage EXCEPT ![p] = "refunded"] /\ GrantPendingRequests(l)
    BY <1>1 DEF RefundSlot
<1>3. /\ GoodLog(log, now) /\ now \in 0..MaxTime /\ loop \in LoopState
      /\ wakeAt \in 0..(MaxTime + Window) /\ OtherTypesOK
      /\ loop = "idle" <=> queue = <<>>
      /\ loop = "dispatch" => Len(log) < MaxConcurrent
    BY LogIsGood
<1>4. p \in Requests /\ "refunded" \in Stage
    BY DEF Granted, Stage
<1>5. Granted' = Granted \ {p}
    BY <1>2, <1>3, <1>4 DEF Granted, OtherTypesOK
<1>6. /\ GoodLog(l, now) /\ Len(l) <= Len(log)
      /\ \A t \in (now - Window)..now : Backs(l, t, Cardinality(Slots(t)'))
    BY <1>1, <1>5, RefundBacks
<1>7. loop = "dispatch" => Len(l) < MaxConcurrent
    BY <1>3, <1>6 DEF GoodLog
<1>8. Settled(l)
    BY <1>2, <1>3, <1>6, <1>7, GrantPendingSettles
<1>9. QueuedOnce' /\ stage' \in [Requests -> Stage]
    BY <1>2, <1>4, OthersStillQueue
<1>10. OtherTypesOK'
    BY <1>3, <1>9 DEF OtherTypesOK
<1>11. GrantWindow'
    BY <1>5, FewerSlots DEF DurationInv
<1>12. \A q \in Requests : stamp'[q] <= now
    BY DEF DurationInv, TakenInThePast
<1> QED BY <1>6, <1>8, <1>9, <1>10, <1>11, <1>12, SettledKeepsInv

\* worker.send that does not throw: a stage of a request with a slot.
LEMMA SendGrantStage ==
    ASSUME NEW p \in Requests, SendGrant(p), now \in 0..MaxTime,
           due \in [Requests -> 0..(MaxTime + Latency + RetryDelay)]
    PROVE  /\ \E s \in {"lost", "sent", "failed"} : stage' = [stage EXCEPT ![p] = s]
           /\ due' \in [Requests -> 0..(MaxTime + Latency + RetryDelay)]
<1>1. now + Latency \in 0..(MaxTime + Latency + RetryDelay)
    BY DurationAssumption, SystemAssumption
<1>2. due' = due \/ due' = [due EXCEPT ![p] = now + Latency]
    BY DEF SendGrant
<1>3. due' \in [Requests -> 0..(MaxTime + Latency + RetryDelay)]
    BY <1>1, <1>2
<1> QED BY <1>3 DEF SendGrant

LEMMA SendFailedKeepsInv ==
    ASSUME DurationInv, NEW p \in Requests, SendFailed(p), UNCHANGED start
    PROVE  DurationInv'
<1> USE DurationAssumption, SystemAssumption
<1>1. stage[p] = "failed" /\ UNCHANGED <<now, queue, gone, stamp>> /\ p \in Granted
    BY DEF SendFailed, Granted
<1>2. CASE /\ tries[p] < GrantRetryLimit
           /\ stage' = [stage EXCEPT ![p] = "retrying"]
           /\ tries' = [tries EXCEPT ![p] = @ + 1]
           /\ due' = [due EXCEPT ![p] = now + RetryDelay]
           /\ UNCHANGED <<log, loop, wakeAt>>
  <2>1. now \in 0..MaxTime /\ OtherTypesOK
      BY LogIsGood
  <2>2. now + RetryDelay \in 0..(MaxTime + Latency + RetryDelay)
      BY <2>1
  <2>3. due' \in [Requests -> 0..(MaxTime + Latency + RetryDelay)]
      BY <1>2, <2>1, <2>2 DEF OtherTypesOK
  <2>4. tries[p] + 1 \in 0..GrantRetryLimit
      BY <1>2, <2>1 DEF OtherTypesOK
  <2>5. tries' \in [Requests -> 0..GrantRetryLimit]
      BY <1>2, <2>1, <2>4 DEF OtherTypesOK
  <2>6. start' \in [Requests -> 0..MaxTime] /\ "retrying" \in Stage
      BY <2>1 DEF OtherTypesOK, Stage
  <2> QED BY <1>1, <1>2, <2>3, <2>5, <2>6, SlotKeptKeepsInv
<1>3. CASE RefundSlot(p) /\ UNCHANGED <<tries, due>>
    BY <1>1, <1>3, RefundKeepsInv
<1> QED BY <1>2, <1>3 DEF SendFailed

LEMMA RetryGrantKeepsInv ==
    ASSUME DurationInv, NEW p \in Requests, RetryGrant(p), UNCHANGED start
    PROVE  DurationInv'
<1>1. /\ stage[p] = "retrying" /\ UNCHANGED <<now, queue, gone, stamp, tries>>
      /\ p \in Granted
    BY DEF RetryGrant, Granted
<1>2. CASE SendGrant(p) /\ UNCHANGED <<log, loop, wakeAt>>
  <2>1. now \in 0..MaxTime /\ OtherTypesOK
      BY LogIsGood
  <2>2. PICK s \in {"lost", "sent", "failed"} : stage' = [stage EXCEPT ![p] = s]
      BY <1>2, <2>1, SendGrantStage DEF OtherTypesOK
  <2>3. due' \in [Requests -> 0..(MaxTime + Latency + RetryDelay)]
      BY <1>2, <2>1, SendGrantStage DEF OtherTypesOK
  <2>4. s \in Stage /\ tries' \in [Requests -> 0..GrantRetryLimit]
        /\ start' \in [Requests -> 0..MaxTime]
      BY <1>1, <2>1 DEF OtherTypesOK, Stage
  <2> QED BY <1>1, <1>2, <2>2, <2>3, <2>4, SlotKeptKeepsInv
<1>3. CASE RefundSlot(p) /\ UNCHANGED due
    BY <1>1, <1>3, RefundKeepsInv
<1> QED BY <1>2, <1>3 DEF RetryGrant

LEMMA WorkerExitsKeepsInv ==
    ASSUME DurationInv, NEW w \in Workers, WorkerExits(w), UNCHANGED start
    PROVE  DurationInv'
<1>1. /\ loop \in {"idle", "sleep"} /\ gone' = gone \cup {w}
      /\ stage' = [p \in Requests |->
                      IF p[1] = w /\ stage[p] = "sent" THEN "lost" ELSE stage[p]]
      /\ GrantPendingRequests(log) /\ UNCHANGED <<now, queue, stamp, tries, due>>
    BY DEF WorkerExits
<1>2. /\ GoodLog(log, now) /\ now \in 0..MaxTime /\ loop \in LoopState
      /\ wakeAt \in 0..(MaxTime + Window) /\ OtherTypesOK
      /\ loop = "idle" <=> queue = <<>>
      /\ loop = "dispatch" => Len(log) < MaxConcurrent
    BY LogIsGood
<1>3. Settled(log)
    BY <1>1, <1>2, GrantPendingSettles
<1>4. \A p \in Requests : stage'[p] = stage[p] \/ (stage[p] = "sent" /\ stage'[p] = "lost")
    BY <1>1
<1>5. stage' \in [Requests -> Stage]
    BY <1>1, <1>2 DEF OtherTypesOK, Stage
<1>6. OtherTypesOK'
    BY <1>1, <1>2, <1>5 DEF OtherTypesOK
<1>7. Granted' \subseteq Granted
    BY <1>4 DEF Granted
<1>8. QueuedOnce'
  <2>1. queue \in Seq(Requests)
      BY LogIsGood
  <2>2. \A i \in DOMAIN queue : queue[i] \in Requests
      BY <2>1
  <2> QED BY <1>1, <1>4, <2>2 DEF DurationInv, QueuedOnce
<1> QED BY <1>1, <1>3, <1>6, <1>7, <1>8, LogAloneKeepsInv

LEMMA AcquireFailsKeepsInv ==
    ASSUME DurationInv, NEW p \in Requests, AcquireFails(p)
    PROVE  DurationInv'
<1>1. /\ stage[p] = "none" /\ stage' = [stage EXCEPT ![p] = "rejected"]
      /\ UNCHANGED <<now, due, start, queue, log, loop, wakeAt, gone, stamp, tries>>
    BY DEF AcquireFails, primaryVars
<1>2. /\ GoodLog(log, now) /\ now \in 0..MaxTime /\ loop \in LoopState
      /\ wakeAt \in 0..(MaxTime + Window) /\ OtherTypesOK
      /\ loop = "idle" <=> queue = <<>>
      /\ loop = "dispatch" => Len(log) < MaxConcurrent
    BY LogIsGood
<1>3. Settled(log)
    BY <1>1, <1>2, KeptSettles
<1>4. QueuedOnce' /\ stage' \in [Requests -> Stage]
    BY <1>1, OthersStillQueue DEF Stage
<1>5. OtherTypesOK'
    BY <1>1, <1>2, <1>4 DEF OtherTypesOK
<1>6. Granted' \subseteq Granted
    BY <1>1, <1>2 DEF Granted, OtherTypesOK
<1> QED BY <1>1, <1>3, <1>4, <1>5, <1>6, LogAloneKeepsInv

LEMMA HandleGrantKeepsInv ==
    ASSUME DurationInv, NEW p \in Requests, HandleGrant(p)
    PROVE  DurationInv'
<1>1. /\ stage[p] = "sent" /\ p \in Granted
      /\ UNCHANGED <<now, due, queue, log, loop, wakeAt, gone, stamp, tries>>
    BY DEF HandleGrant, primaryVars, Granted
<1>2. now \in 0..MaxTime /\ OtherTypesOK
    BY LogIsGood
<1>3. start' = start \/ start' = [start EXCEPT ![p] = now]
    BY DEF HandleGrant
<1>4. start' \in [Requests -> 0..MaxTime]
    BY <1>2, <1>3 DEF OtherTypesOK
<1>5. PICK s \in {"started", "unused"} : stage' = [stage EXCEPT ![p] = s]
    BY DEF HandleGrant
<1>6. /\ s \in Stage /\ tries' \in [Requests -> 0..GrantRetryLimit]
      /\ due' \in [Requests -> 0..(MaxTime + Latency + RetryDelay)]
    BY <1>1, <1>2 DEF OtherTypesOK, Stage
<1> QED BY <1>1, <1>4, <1>5, <1>6, SlotKeptKeepsInv

\* The head of the queue is taken off and moves to another stage.
LEMMA HeadLeavesQueue ==
    ASSUME DurationInv, queue # <<>>, queue' = Tail(queue), NEW s \in Stage,
           stage' = [stage EXCEPT ![Head(queue)] = s]
    PROVE  /\ Head(queue) \in Requests /\ stage[Head(queue)] = "queued"
           /\ queue' \in Seq(Requests) /\ QueuedOnce' /\ stage' \in [Requests -> Stage]
<1>1. queue \in Seq(Requests) /\ stage \in [Requests -> Stage]
    BY DEF DurationInv, TypeOK
<1>2. Len(queue) \in Nat \ {0} /\ DOMAIN queue = 1..Len(queue) /\ 1 \in DOMAIN queue
    BY <1>1
<1>3. /\ \A i \in 1..Len(queue) : queue[i] \in Requests /\ stage[queue[i]] = "queued"
      /\ \A i, j \in 1..Len(queue) : i # j => queue[i] # queue[j]
    BY <1>1, <1>2 DEF DurationInv, QueuedOnce
<1>4. /\ Head(queue) = queue[1] /\ queue' \in Seq(Requests)
      /\ DOMAIN queue' = 1..(Len(queue) - 1)
      /\ \A i \in 1..(Len(queue) - 1) : queue'[i] = queue[i + 1]
    BY <1>1, <1>2
<1>5. \A i \in 1..(Len(queue) - 1) : i + 1 \in 1..Len(queue) /\ i + 1 # 1
    BY <1>2
<1>6. \A i \in 1..(Len(queue) - 1) : stage'[queue'[i]] = "queued"
    BY <1>1, <1>2, <1>3, <1>4, <1>5
<1>7. \A i, j \in 1..(Len(queue) - 1) : i # j => queue'[i] # queue'[j]
    BY <1>2, <1>3, <1>4, <1>5
<1> QED BY <1>1, <1>2, <1>3, <1>4, <1>6, <1>7 DEF QueuedOnce

\* A slot is taken: no window is overrun, for the log had room.
LEMMA SlotTaken ==
    ASSUME DurationInv, NEW p \in Requests, p \notin Granted, loop = "dispatch",
           now' = now, stamp' = [stamp EXCEPT ![p] = now], Granted' = Granted \cup {p}
    PROVE  /\ GrantWindow'
           /\ \A t \in (now - Window)..now :
                  Backs(Append(log, now), t, Cardinality(Slots(t)'))
<1> USE DurationAssumption, SystemAssumption
<1>1. /\ now \in 0..MaxTime /\ now \in Int /\ Window \in Nat \ {0} /\ Granted \subseteq Requests
      /\ stamp \in [Requests -> 0..MaxTime] /\ \A q \in Requests : stamp[q] \in Int
    BY DEF DurationInv, TypeOK, Granted, Window
<1>2. log \in Seq(Int) /\ Len(log) \in Nat /\ Len(log) < MaxConcurrent
    BY <1>1, LogIsGood, WholeLog
<1>3. \A t \in (now - Window)..now : Backs(log, t, Cardinality(Slots(t)))
    BY DEF DurationInv, Backed
<1>4. \A t : /\ Slots(t) \in SUBSET Requests /\ Slots(t) \cup {p} \in SUBSET Requests
             /\ IsFiniteSet(Slots(t)) /\ Cardinality(Slots(t)) \in Nat
             /\ Cardinality(Slots(t) \cup {p}) = Cardinality(Slots(t)) + 1
  <2> TAKE t
  <2>1. Slots(t) \in SUBSET Requests /\ p \notin Slots(t)
      BY <1>1 DEF Slots
  <2> QED BY <2>1, CountRequests, FS_AddElement
<1>5. stamp'[p] = now /\ \A q \in Granted : stamp'[q] = stamp[q]
    BY <1>1
<1>6. ASSUME NEW t \in (now - Window)..now
      PROVE  Backs(Append(log, now), t, Cardinality(Slots(t)'))
  <2>1. Slots(t)' = Slots(t) \cup {p}
      BY <1>1, <1>5 DEF Slots
  <2>2. t \in Int /\ t <= now
      BY <1>1
  <2>3. Backs(Append(log, now), t, Cardinality(Slots(t)) + 1)
      BY <1>1, <1>2, <1>3, <1>4, <2>2, BacksAfterAppend
  <2> QED BY <1>4, <2>1, <2>3
<1>7. ASSUME NEW t \in 0..now
      PROVE  Cardinality({q \in Granted' : stamp'[q] \in t..(t + Window)}) <= MaxConcurrent
  <2> DEFINE T == {q \in Granted' : stamp'[q] \in t..(t + Window)}
  <2>1. CASE t + Window < now
    <3>1. T = {q \in Granted : stamp[q] \in t..(t + Window)}
        BY <1>1, <1>5, <2>1
    <3> QED BY <3>1 DEF DurationInv, GrantWindow
  <2>2. CASE t + Window >= now
    <3>1. t \in (now - Window)..now
        BY <1>1, <2>2
    <3>2. T \subseteq Slots(t) \cup {p}
        BY <1>1, <1>5 DEF Slots
    <3> HIDE DEF T
    <3>3. Cardinality(T) \in Nat /\ Cardinality(T) <= Cardinality(Slots(t) \cup {p})
        BY <1>4, <3>2, CountFewer
    <3>4. Cardinality(Slots(t)) <= Len(log)
        BY <1>2, <1>3, <3>1 DEF Backs
    <3>5. Cardinality(T) <= MaxConcurrent
        BY <1>2, <1>4, <3>3, <3>4
    <3> QED BY <3>5 DEF T
  <2> QED BY <1>1, <2>1, <2>2
<1> QED BY <1>6, <1>7 DEF GrantWindow, Window

LEMMA DispatchKeepsInv ==
    ASSUME DurationInv, Dispatch, UNCHANGED start
    PROVE  DurationInv'
<1> USE DurationAssumption, SystemAssumption
<1>1. PICK p : p = Head(queue)
    OBVIOUS
<1>2. loop = "dispatch" /\ queue' = Tail(queue) /\ UNCHANGED <<now, gone, tries, start>>
    BY DEF Dispatch
<1>3. /\ GoodLog(log, now) /\ now \in 0..MaxTime /\ now \in Int
      /\ wakeAt \in 0..(MaxTime + Window) /\ OtherTypesOK /\ Len(log) < MaxConcurrent
    BY <1>2, LogIsGood
<1>4. queue # <<>>
    BY <1>2 DEF DurationInv, LogUsable
<1>5. ASSUME NEW s \in Stage, stage' = [stage EXCEPT ![p] = s]
      PROVE  /\ p \in Requests /\ stage[p] = "queued" /\ p \notin Granted
             /\ queue' \in Seq(Requests) /\ QueuedOnce' /\ stage' \in [Requests -> Stage]
    BY <1>1, <1>2, <1>4, <1>5, HeadLeavesQueue DEF Granted
<1>6. ASSUME stamp' = [stamp EXCEPT ![p] = now], p \in Requests
      PROVE  /\ stamp' \in [Requests -> 0..MaxTime]
             /\ \A q \in Requests : stamp'[q] <= now
             /\ \A q \in Requests : q # p => stamp'[q] = stamp[q]
    BY <1>3, <1>6 DEF OtherTypesOK, DurationInv, TakenInThePast
<1>7. CASE stage' = [stage EXCEPT ![p] = "dropped"] /\ LoopOn(log) /\ UNCHANGED <<stamp, due>>
  <2>1. "dropped" \in Stage
      BY DEF Stage
  <2>2. /\ p \in Requests /\ queue' \in Seq(Requests) /\ QueuedOnce'
        /\ stage' \in [Requests -> Stage]
      BY <1>5, <1>7, <2>1
  <2>3. OtherTypesOK'
      BY <1>2, <1>3, <1>7, <2>2 DEF OtherTypesOK
  <2>4. Granted' \subseteq Granted
      BY <1>3, <1>7, <2>2 DEF Granted, OtherTypesOK
  <2>5. Settled(log)
      BY <1>3, <1>7, LoopOnSettles
  <2> QED BY <1>2, <1>7, <2>2, <2>3, <2>4, <2>5, LogAloneKeepsInv
<1>8. CASE stamp' = [stamp EXCEPT ![p] = now] /\ SendGrant(p) /\ LoopOn(Append(log, now))
  <2>1. p \in Requests
      BY <1>1, <1>3, <1>4 DEF OtherTypesOK
  <2>2. /\ due' \in [Requests -> 0..(MaxTime + Latency + RetryDelay)]
        /\ \E s \in {"lost", "sent", "failed"} : stage' = [stage EXCEPT ![p] = s]
      BY <1>3, <1>8, <2>1, SendGrantStage DEF OtherTypesOK
  <2>3. PICK s \in {"lost", "sent", "failed"} : stage' = [stage EXCEPT ![p] = s]
      BY <2>2
  <2>4. s \in Stage
      BY DEF Stage
  <2>5. /\ p \notin Granted /\ queue' \in Seq(Requests) /\ QueuedOnce'
        /\ stage' \in [Requests -> Stage]
      BY <1>5, <2>3, <2>4
  <2>6. OtherTypesOK' /\ \A q \in Requests : stamp'[q] <= now
      BY <1>2, <1>3, <1>6, <1>8, <2>1, <2>2, <2>5 DEF OtherTypesOK
  <2>7. Granted' = Granted \cup {p}
      BY <1>3, <2>1, <2>3 DEF Granted, OtherTypesOK
  <2>8. /\ GrantWindow'
        /\ \A t \in (now - Window)..now :
               Backs(Append(log, now), t, Cardinality(Slots(t)'))
      BY <1>2, <1>8, <2>1, <2>5, <2>7, SlotTaken
  <2>9. GoodLog(Append(log, now), now)
      BY <1>3, AppendIsGood
  <2>10. Settled(Append(log, now))
      BY <1>3, <1>8, <2>9, LoopOnSettles
  <2> QED BY <1>2, <2>5, <2>6, <2>8, <2>9, <2>10, SettledKeepsInv
<1>9. CASE /\ stamp' = [stamp EXCEPT ![p] = now]
           /\ stage' = [stage EXCEPT ![p] = "refunded"]
           /\ LoopOn(Refund(Append(log, now), now))
           /\ UNCHANGED due
  <2>1. "refunded" \in Stage
      BY DEF Stage
  <2>2. /\ p \in Requests /\ p \notin Granted /\ queue' \in Seq(Requests) /\ QueuedOnce'
        /\ stage' \in [Requests -> Stage]
      BY <1>5, <1>9, <2>1
  <2>3. OtherTypesOK' /\ \A q \in Requests : stamp'[q] <= now
      BY <1>2, <1>3, <1>6, <1>9, <2>2 DEF OtherTypesOK
  <2>4. Granted' \subseteq Granted /\ \A q \in Granted' : stamp'[q] = stamp[q]
      BY <1>3, <1>6, <1>9, <2>2 DEF Granted, OtherTypesOK
  <2>5. /\ \A t : /\ Cardinality(Slots(t)) \in Nat /\ Cardinality(Slots(t)') \in Nat
                  /\ Cardinality(Slots(t)') <= Cardinality(Slots(t))
        /\ GrantWindow'
      BY <1>2, <2>4, FewerSlots DEF DurationInv
  <2>6. PICK l : l = Append(log, now)
      OBVIOUS
  <2>7. GoodLog(l, now)
      BY <1>3, <2>6, AppendIsGood
  <2>8. log \in Seq(Int) /\ l \in Seq(Int) /\ Len(log) \in Nat /\ Len(l) = Len(log) + 1
        /\ l # <<>>
    <3>1. log \in Seq(Int)
        BY <1>3, WholeLog
    <3> QED BY <1>3, <2>6, <3>1
  <2>9. Refund(l, now) = Tail(l)
    <3>1. now - now < Window
        BY <1>3 DEF Window
    <3> QED BY <2>8, <3>1 DEF Refund
  <2>10. GoodLog(Tail(l), now)
    <3>1. 1 \in 0..Len(l) /\ Tail(l) = SubSeq(l, 1 + 1, Len(l))
        BY <2>8, TailIsSuffix
    <3>2. GoodLog(SubSeq(l, 1 + 1, Len(l)), now)
        BY <1>3, <2>7, <3>1, SuffixIsGood
    <3> QED BY <3>1, <3>2, Zenon
  <2>11. ASSUME NEW t \in (now - Window)..now
         PROVE  Backs(Tail(l), t, Cardinality(Slots(t)'))
    <3>1. Backs(log, t, Cardinality(Slots(t)))
        BY DEF DurationInv, Backed
    <3>2. t \in Int /\ t <= now
        BY <1>3 DEF Window
    <3>3. Backs(l, t, Cardinality(Slots(t)) + 1)
        BY <1>3, <2>5, <2>6, <2>8, <3>1, <3>2, BacksAfterAppend
    <3>4. Cardinality(Slots(t)) <= Len(log)
        BY <2>8, <3>1 DEF Backs
    <3>5. /\ Cardinality(Slots(t)') <= Cardinality(Slots(t)) + 1
          /\ Cardinality(Slots(t)') <= Len(l) - 1
          /\ Cardinality(Slots(t)) + 1 \in Nat /\ Cardinality(Slots(t)') \in Nat
        BY <2>5, <2>8, <3>4
    <3> QED BY <2>8, <3>2, <3>3, <3>5, BacksAfterTail
  <2>12. Settled(Tail(l))
      BY <1>3, <1>9, <2>6, <2>9, <2>10, LoopOnSettles
  <2> QED BY <1>2, <2>2, <2>3, <2>5, <2>10, <2>11, <2>12, SettledKeepsInv
<1> QED BY <1>1, <1>7, <1>8, <1>9 DEF Dispatch

\* Time passes: the window moves on, and nobody has taken a slot yet.
LEMMA TickKeepsInv ==
    ASSUME DurationInv, Tick
    PROVE  DurationInv'
<1> USE DurationAssumption, SystemAssumption
<1>1. /\ now < MaxTime /\ now' = now + 1
      /\ UNCHANGED <<stage, due, start, queue, log, loop, wakeAt, gone, stamp, tries>>
    BY DEF Tick, primaryVars
<1>2. /\ GoodLog(log, now) /\ now \in 0..MaxTime /\ OtherTypesOK
      /\ Window \in Nat \ {0}
    BY LogIsGood DEF Window
<1>3. Len(log) \in Nat /\ log \in Seq(0..MaxTime) /\ log \in Seq(Int)
    BY <1>2, WholeLog DEF GoodLog
<1>4. TypeOK' /\ LogUsable' /\ LockedWhileQueued' /\ QueuedOnce'
  <2>1. TypeOK'
      BY <1>1, <1>2, <1>3 DEF DurationInv, TypeOK, Window
  <2>2. LogUsable' /\ LockedWhileQueued' /\ QueuedOnce'
      BY <1>1 DEF DurationInv, LogUsable, LockedWhileQueued, QueuedOnce
  <2> QED BY <2>1, <2>2
<1>5. TakenInThePast'
  <2>1. \A p \in Requests : stamp[p] \in Int /\ stamp[p] <= now
      BY <1>2 DEF OtherTypesOK, DurationInv, TakenInThePast
  <2>2. \A i \in DOMAIN log : log[i] \in Int /\ log[i] <= now
      BY <1>3 DEF DurationInv, TakenInThePast
  <2> QED BY <1>1, <1>2, <2>1, <2>2 DEF TakenInThePast
<1>6. Granted' = Granted /\ Granted \subseteq Requests
    BY <1>1 DEF Granted
<1>7. \A p \in Granted : stamp[p] \in Int /\ stamp[p] <= now
    BY <1>2, <1>6 DEF OtherTypesOK, DurationInv, TakenInThePast
<1>8. ASSUME NEW t \in (now' - Window)..now' PROVE Backs(log', t, Cardinality(Slots(t)'))
  <2>1. Slots(t)' = Slots(t)
      BY <1>1, <1>6 DEF Slots
  <2>2. CASE t \in (now - Window)..now
      BY <1>1, <2>1, <2>2 DEF DurationInv, Backed
  <2>3. CASE t = now + 1
    <3>1. Slots(t) = {}
        BY <1>2, <1>7, <2>3 DEF Slots
    <3>2. Backs(log, t, 0)
        BY <1>3 DEF Backs
    <3> QED BY <1>1, <2>1, <3>1, <3>2, FS_EmptySet
  <2> QED BY <1>1, <1>2, <2>2, <2>3
<1>9. Backed'
    BY <1>8 DEF Backed, Window
<1>10. ASSUME NEW t \in 0..now'
       PROVE  Cardinality({p \in Granted' : stamp'[p] \in t..(t + Window)}) <= MaxConcurrent
  <2>1. CASE t \in 0..now
    <3>1. {p \in Granted' : stamp'[p] \in t..(t + Window)}
              = {p \in Granted : stamp[p] \in t..(t + Window)}
        BY <1>1, <1>6
    <3>2. Cardinality({p \in Granted : stamp[p] \in t..(t + Window)}) <= MaxConcurrent
        BY <2>1 DEF DurationInv, GrantWindow
    <3> QED BY <3>1, <3>2
  <2>2. CASE t = now + 1
    <3>1. {p \in Granted' : stamp'[p] \in t..(t + Window)} = {}
        BY <1>1, <1>2, <1>6, <1>7, <2>2
    <3>2. Cardinality({}) <= MaxConcurrent
        BY FS_EmptySet
    <3> QED BY <3>1, <3>2
  <2> QED BY <1>1, <1>2, <2>1, <2>2
<1>11. GrantWindow'
    BY <1>10 DEF GrantWindow, Window
<1> QED BY <1>4, <1>5, <1>9, <1>11 DEF DurationInv

LEMMA InitHasInv ==
    ASSUME Init
    PROVE  DurationInv
<1> USE DurationAssumption, SystemAssumption DEF Init, PrimaryInit
<1>1. Granted = {} /\ Len(log) = 0 /\ DOMAIN log = {} /\ DOMAIN queue = {}
    BY DEF Granted
<1>2. TypeOK
  <2>1. queue \in Seq(Requests) /\ log \in Seq(0..MaxTime)
      OBVIOUS
  <2> QED BY <2>1 DEF TypeOK, LoopState, Stage, Window
<1>3. LogUsable /\ LockedWhileQueued /\ QueuedOnce /\ TakenInThePast
    BY <1>1 DEF LogUsable, LockedWhileQueued, QueuedOnce, TakenInThePast
<1>4. Backed
  <2>1. ASSUME NEW t PROVE Backs(log, t, Cardinality(Slots(t)))
    <3>1. Slots(t) = {} /\ Cardinality({}) = 0
        BY <1>1, FS_EmptySet DEF Slots
    <3> QED BY <1>1, <3>1 DEF Backs
  <2> QED BY <2>1 DEF Backed
<1>5. GrantWindow
  <2>1. ASSUME NEW t
        PROVE  Cardinality({p \in Granted : stamp[p] \in t..(t + Window)}) <= MaxConcurrent
    <3>1. {p \in Granted : stamp[p] \in t..(t + Window)} = {}
        BY <1>1
    <3>2. Cardinality({}) <= MaxConcurrent
        BY FS_EmptySet
    <3> QED BY <3>1, <3>2
  <2> QED BY <2>1 DEF GrantWindow
<1> QED BY <1>2, <1>3, <1>4, <1>5 DEF DurationInv

LEMMA NextKeepsInv ==
    ASSUME DurationInv, [Next]_vars
    PROVE  DurationInv'
<1>1. ASSUME PrimaryNext, UNCHANGED start PROVE DurationInv'
  <2>1. CASE Wake \/ Spin
      BY <1>1, <2>1, TurnKeepsInv
  <2>2. CASE Dispatch
      BY <1>1, <2>2, DispatchKeepsInv
  <2>3. ASSUME NEW p \in Requests, Acquire(p) PROVE DurationInv'
      BY <1>1, <2>3, AcquireKeepsInv
  <2>4. ASSUME NEW p \in Requests, SendFailed(p) PROVE DurationInv'
      BY <1>1, <2>4, SendFailedKeepsInv
  <2>5. ASSUME NEW p \in Requests, RetryGrant(p) PROVE DurationInv'
      BY <1>1, <2>5, RetryGrantKeepsInv
  <2>6. ASSUME NEW w \in Workers, WorkerExits(w) PROVE DurationInv'
      BY <1>1, <2>6, WorkerExitsKeepsInv
  <2> QED BY <1>1, <2>1, <2>2, <2>3, <2>4, <2>5, <2>6 DEF PrimaryNext
<1>2. ASSUME NEW p \in Requests, AcquireFails(p) \/ HandleGrant(p) PROVE DurationInv'
    BY <1>2, AcquireFailsKeepsInv, HandleGrantKeepsInv
<1>3. CASE Tick
    BY <1>3, TickKeepsInv
<1>4. CASE UNCHANGED vars
    BY <1>4 DEF vars, DurationInv, TypeOK, LogUsable, LockedWhileQueued, QueuedOnce,
                TakenInThePast, Backed, Slots, Granted, GrantWindow
<1> QED BY <1>1, <1>2, <1>3, <1>4 DEF Next

(***************************************************************************)
(* What DurationInv says holds in every state: the log accounts for the    *)
(* slots, the lock for the queue.                                          *)
(***************************************************************************)
THEOREM Invariance == Spec => []DurationInv
<1>1. Init => DurationInv
    BY InitHasInv
<1>2. DurationInv /\ [Next]_vars => DurationInv'
    BY NextKeepsInv
<1> QED BY <1>1, <1>2, PTL DEF Spec

\* The variables keep their types (PrimaryDurationLimiter's fields and the
\* stages of the requests).
THEOREM TypeCorrect == Spec => []TypeOK
<1>1. DurationInv => TypeOK
    BY DEF DurationInv
<1> QED BY <1>1, Invariance, PTL

\* Of the slots that are taken and kept, no window has more than
\* maxConcurrentRequests, whichever entries refunds have dropped from the log.
THEOREM LimitsTheWindow == Spec => []GrantWindow
<1>1. DurationInv => GrantWindow
    BY DEF DurationInv
<1> QED BY <1>1, Invariance, PTL

\* Whatever refunds have dropped, the log still has an entry for each slot
\* that was taken in the window and kept.
THEOREM LogAccountsForSlots == Spec => []Backed
<1>1. DurationInv => Backed
    BY DEF DurationInv
<1> QED BY <1>1, Invariance, PTL

\* The log stays sorted for removeBefore, and enqueue never finds it full.
THEOREM LogStaysUsable == Spec => []LogUsable
<1>1. DurationInv => LogUsable
    BY DEF DurationInv
<1> QED BY <1>1, Invariance, PTL

\* Nobody queues while the lock of the grant loop is free.
THEOREM NobodyIsForgotten == Spec => []NoForgottenRequest
<1>1. DurationInv => NoForgottenRequest
    BY DEF DurationInv, LockedWhileQueued, NoForgottenRequest
<1> QED BY <1>1, Invariance, PTL

-----------------------------------------------------------------------------
(***************************************************************************)
(* The windows of the calls that start.                                    *)
(***************************************************************************)

\* No GRANT is sent a second time.
NoGrantIsRetried == GrantRetryLimit = 0 \/ "grantError" \notin Faults

\* What Punctual says of one request.
OnTime(p) ==
    /\ stage[p] # "retrying"
    /\ stage[p] = "failed" => p[1] \in gone \/ GrantRetryLimit = 0
    /\ stage[p] = "sent" => now <= due[p] /\ due[p] = stamp[p] + Latency
    /\ stage[p] = "started" => stamp[p] <= start[p] /\ start[p] <= stamp[p] + Latency

\* A request whose variables a step leaves alone.
LEMMA OthersOnTime ==
    ASSUME NEW q, OnTime(q), now' = now, gone \subseteq gone',
           stage'[q] = stage[q] \/ stage'[q] \notin {"retrying", "failed", "sent", "started"},
           stamp'[q] = stamp[q], due'[q] = due[q], start'[q] = start[q]
    PROVE  OnTime(q)'
BY DEF OnTime

\* A first GRANT that worker.send accepts or refuses.
LEMMA SentOnTime ==
    ASSUME OtherTypesOK, now \in 0..MaxTime, NEW p \in Requests, SendGrant(p), stamp'[p] = now,
           UNCHANGED <<now, gone>>, NoGrantIsRetried
    PROVE  OnTime(p)'
<1>1. CASE /\ stage' = [stage EXCEPT ![p] = IF p[1] \in gone THEN "lost" ELSE "sent"]
           /\ due' = [due EXCEPT ![p] = now + Latency]
  <2>1. stage'[p] \in {"lost", "sent"} /\ due'[p] = now + Latency
      BY <1>1 DEF OtherTypesOK
  <2> QED BY <2>1, DurationAssumption DEF OnTime
<1>2. CASE /\ "grantError" \in Faults \/ p[1] \in gone
           /\ stage' = [stage EXCEPT ![p] = "failed"]
  <2>1. stage'[p] = "failed"
      BY <1>2 DEF OtherTypesOK
  <2> QED BY <1>2, <2>1 DEF OnTime, NoGrantIsRetried
<1> QED BY <1>1, <1>2 DEF SendGrant

LEMMA PunctualStep ==
    ASSUME DurationInv, Punctual, NoGrantIsRetried, Next, NEW q \in Requests
    PROVE  OnTime(q)'
<1> USE DurationAssumption, SystemAssumption
<1>1. OnTime(q)
    BY DEF Punctual, OnTime
<1>2. OtherTypesOK /\ now \in 0..MaxTime /\ queue \in Seq(Requests)
    BY LogIsGood
<1>3. CASE (Wake \/ Spin) /\ UNCHANGED start
  <2>1. UNCHANGED <<now, gone, stage, stamp, due, start>>
      BY <1>3 DEF Wake, Spin
  <2> QED BY <1>1, <2>1, OthersOnTime
<1>4. CASE Dispatch /\ UNCHANGED start
  <2>1. PICK p : p = Head(queue)
      OBVIOUS
  <2>2. UNCHANGED <<now, gone, start>>
      BY <1>4 DEF Dispatch
  <2>3. p \in Requests
    <3>1. queue # <<>>
        BY <1>4 DEF Dispatch, DurationInv, LogUsable
    <3> QED BY <1>2, <2>1, <3>1
  <2>4. CASE stage' = [stage EXCEPT ![p] = "dropped"] /\ UNCHANGED <<stamp, due>>
      BY <1>1, <1>2, <2>2, <2>3, <2>4, OthersOnTime DEF OtherTypesOK
  <2>5. CASE stamp' = [stamp EXCEPT ![p] = now] /\ SendGrant(p)
    <3>1. CASE q = p
      <4>1. stamp'[p] = now
          BY <1>2, <2>3, <2>5 DEF OtherTypesOK
      <4> QED BY <1>2, <2>2, <2>3, <2>5, <3>1, <4>1, SentOnTime
    <3>2. CASE q # p
      <4>1. stage'[q] = stage[q] /\ stamp'[q] = stamp[q] /\ due'[q] = due[q]
          BY <1>2, <2>3, <2>5, <3>2 DEF OtherTypesOK, SendGrant
      <4> QED BY <1>1, <2>2, <4>1, OthersOnTime
    <3> QED BY <3>1, <3>2
  <2>6. CASE /\ stamp' = [stamp EXCEPT ![p] = now]
             /\ stage' = [stage EXCEPT ![p] = "refunded"] /\ UNCHANGED due
    <3>1. CASE q = p
        BY <1>2, <2>3, <2>6, <3>1 DEF OnTime, OtherTypesOK
    <3>2. CASE q # p
      <4>1. stage'[q] = stage[q] /\ stamp'[q] = stamp[q] /\ due'[q] = due[q]
          BY <1>2, <2>3, <2>6, <3>2 DEF OtherTypesOK
      <4> QED BY <1>1, <2>2, <4>1, OthersOnTime
    <3> QED BY <3>1, <3>2
  <2> QED BY <1>4, <2>1, <2>4, <2>5, <2>6 DEF Dispatch
<1>5. ASSUME NEW p \in Requests, Acquire(p), UNCHANGED start PROVE OnTime(q)'
  <2>1. stage' = [stage EXCEPT ![p] = "queued"] /\ UNCHANGED <<now, gone, stamp, due>>
      BY <1>5 DEF Acquire
  <2> QED BY <1>1, <1>2, <1>5, <2>1, OthersOnTime DEF OtherTypesOK
<1>6. ASSUME NEW p \in Requests, SendFailed(p), UNCHANGED start PROVE OnTime(q)'
  <2>1. UNCHANGED <<now, gone, stamp>>
      BY <1>6 DEF SendFailed
  <2>2. ~(p[1] \notin gone /\ tries[p] < GrantRetryLimit)
    <3>1. stage[p] = "failed" /\ tries[p] \in Nat
        BY <1>2, <1>6 DEF SendFailed, OtherTypesOK
    <3>2. p[1] \in gone \/ GrantRetryLimit = 0
        BY <3>1 DEF Punctual
    <3> QED BY <3>1, <3>2
  <2>3. stage' = [stage EXCEPT ![p] = "refunded"] /\ UNCHANGED due
      BY <1>6, <2>2 DEF SendFailed, RefundSlot
  <2> QED BY <1>1, <1>2, <1>6, <2>1, <2>3, OthersOnTime DEF OtherTypesOK
<1>7. ASSUME NEW p \in Requests, RetryGrant(p) PROVE OnTime(q)'
    BY <1>7 DEF RetryGrant, Punctual
<1>8. ASSUME NEW w \in Workers, WorkerExits(w), UNCHANGED start PROVE OnTime(q)'
  <2>1. gone \subseteq gone' /\ UNCHANGED <<now, stamp, due>>
      BY <1>8 DEF WorkerExits
  <2>2. stage'[q] = stage[q] \/ stage'[q] = "lost"
      BY <1>8 DEF WorkerExits
  <2> QED BY <1>1, <1>8, <2>1, <2>2, OthersOnTime
<1>9. ASSUME NEW p \in Requests, AcquireFails(p) PROVE OnTime(q)'
  <2>1. /\ stage' = [stage EXCEPT ![p] = "rejected"]
        /\ UNCHANGED <<now, gone, stamp, due, start>>
      BY <1>9 DEF AcquireFails, primaryVars
  <2> QED BY <1>1, <1>2, <1>9, <2>1, OthersOnTime DEF OtherTypesOK
<1>10. ASSUME NEW p \in Requests, HandleGrant(p) PROVE OnTime(q)'
  <2>1. stage[p] = "sent" /\ UNCHANGED <<now, gone, stamp, due>>
      BY <1>10 DEF HandleGrant, primaryVars
  <2>2. CASE stage' = [stage EXCEPT ![p] = "unused"] /\ UNCHANGED start
      BY <1>1, <1>2, <1>10, <2>1, <2>2, OthersOnTime DEF OtherTypesOK
  <2>3. CASE stage' = [stage EXCEPT ![p] = "started"] /\ start' = [start EXCEPT ![p] = now]
    <3>1. CASE q = p
      <4>1. stage'[p] = "started" /\ start'[p] = now /\ stamp'[p] = stamp[p]
          BY <1>2, <1>10, <2>1, <2>3 DEF OtherTypesOK
      <4>2. now <= stamp[p] + Latency
          BY <1>10, <2>1 DEF Punctual
      <4>3. stamp[p] <= now
          BY <1>10 DEF DurationInv, TakenInThePast
      <4> QED BY <3>1, <4>1, <4>2, <4>3 DEF OnTime
    <3>2. CASE q # p
      <4>1. stage'[q] = stage[q] /\ start'[q] = start[q]
          BY <1>2, <1>10, <2>3, <3>2 DEF OtherTypesOK
      <4> QED BY <1>1, <2>1, <4>1, OthersOnTime
    <3> QED BY <3>1, <3>2
  <2> QED BY <1>10, <2>2, <2>3 DEF HandleGrant
<1>11. CASE Tick
  <2>1. now' = now + 1 /\ UNCHANGED <<gone, stage, stamp, due, start>>
      BY <1>11 DEF Tick, primaryVars
  <2>2. stage[q] = "sent" => now < due[q]
      BY <1>11 DEF Tick
  <2>3. due[q] \in Int
      BY <1>2 DEF OtherTypesOK
  <2>4. stage'[q] = "sent" => now' <= due'[q]
      BY <1>2, <2>1, <2>2, <2>3
  <2> QED BY <1>1, <2>1, <2>4 DEF OnTime
<1> QED BY <1>3, <1>4, <1>5, <1>6, <1>7, <1>8, <1>9, <1>10, <1>11 DEF Next, PrimaryNext

\* The starts of a window had their slots taken in a window of the limiter:
\* a GRANT travels no longer than the jitter buffer.
LEMMA StartsFollowGrants ==
    ASSUME DurationInv, Punctual, Latency <= Jitter
    PROVE  StartWindow
<1> USE DurationAssumption, SystemAssumption
<1>1. OtherTypesOK /\ now \in 0..MaxTime
    BY LogIsGood
<1>2. SUFFICES ASSUME NEW t \in 0..now
               PROVE  Cardinality({p \in Requests :
                          /\ stage[p] = "started"
                          /\ start[p] \in t..(t + Duration - 1)}) <= MaxConcurrent
    BY DEF StartWindow
<1> DEFINE S == {p \in Requests :
                     stage[p] = "started" /\ start[p] \in t..(t + Duration - 1)}
<1>3. PICK u \in 0..now : /\ u <= t /\ t <= u + Latency
                          /\ u = 0 \/ u = t - Latency
  <2>1. CASE t >= Latency
    <3>1. t - Latency \in 0..now /\ t - Latency <= t /\ t <= (t - Latency) + Latency
        BY <1>1, <2>1
    <3> QED BY <3>1
  <2>2. CASE t < Latency
      BY <1>1, <2>2
  <2> QED BY <1>1, <2>1, <2>2
<1> DEFINE T == {p \in Granted : stamp[p] \in u..(u + Window)}
<1>4. S \subseteq T
  <2>1. SUFFICES ASSUME NEW p \in S PROVE p \in T
      OBVIOUS
  <2>2. /\ p \in Granted /\ stamp[p] \in Nat /\ start[p] \in Int
        /\ t <= start[p] /\ start[p] <= t + Duration - 1
        /\ stamp[p] <= start[p] /\ start[p] <= stamp[p] + Latency
      BY <1>1 DEF Granted, OtherTypesOK, Punctual
  <2>3. u <= stamp[p] /\ stamp[p] <= u + Window
      BY <1>1, <1>3, <2>2 DEF Window
  <2>4. Window \in Int
      BY DEF Window
  <2> QED BY <1>1, <2>2, <2>3, <2>4
<1>5. Cardinality(T) <= MaxConcurrent
    BY DEF DurationInv, GrantWindow
<1>6. T \subseteq Requests
    BY DEF Granted
<1> HIDE DEF S, T
<1>7. Cardinality(S) \in Nat /\ Cardinality(T) \in Nat /\ Cardinality(S) <= Cardinality(T)
    BY <1>4, <1>6, CountFewer
<1>8. Cardinality(S) <= MaxConcurrent
    BY <1>5, <1>7
<1> QED BY <1>8 DEF S

(***************************************************************************)
(* README.md:109: in no trailing window of the limiter's duration do more  *)
(* calls start than maxConcurrentRequests, provided that no GRANT is sent  *)
(* a second time and that none travels longer than the jitter buffer of    *)
(* PrimaryDurationLimiter.js allows.                                       *)
(***************************************************************************)
THEOREM LimitsTheStarts ==
    ASSUME NoGrantIsRetried, Latency <= Jitter
    PROVE  Spec => []StartWindow
<1>1. Init => Punctual
    BY DEF Init, PrimaryInit, Punctual
<1>2. DurationInv /\ Punctual /\ [Next]_vars => Punctual'
  <2>1. ASSUME DurationInv, Punctual, Next PROVE Punctual'
    <3>1. \A q \in Requests : OnTime(q)'
        BY <2>1, PunctualStep
    <3> QED BY <3>1 DEF Punctual, OnTime, Requests
  <2>2. ASSUME Punctual, UNCHANGED vars PROVE Punctual'
      BY <2>2 DEF Punctual, vars
  <2> QED BY <2>1, <2>2
<1>3. DurationInv /\ Punctual => StartWindow
    BY StartsFollowGrants
<1> QED BY <1>1, <1>2, <1>3, Invariance, PTL DEF Spec

=============================================================================
