--------------------------- MODULE SequenceElements ---------------------------
(***************************************************************************)
(* The elements of a channel or a queue, and what Append and Tail do to    *)
(* them.                                                                   *)
(***************************************************************************)
EXTENDS Integers, Sequences

Elements(s) == {s[i] : i \in DOMAIN s}

\* At most one position of s holds e.
OnceIn(e, s) == \A i, j \in DOMAIN s : s[i] = e /\ s[j] = e => i = j

\* A sequence gains exactly the element appended to it.
LEMMA ElementsAppend ==
    ASSUME NEW S, NEW s \in Seq(S), NEW e \in S
    PROVE  Elements(Append(s, e)) = Elements(s) \cup {e}
<1>1. /\ DOMAIN Append(s, e) = DOMAIN s \cup {Len(s) + 1}
      /\ Append(s, e)[Len(s) + 1] = e
      /\ \A i \in DOMAIN s : Append(s, e)[i] = s[i]
    OBVIOUS
<1> QED BY <1>1 DEF Elements

\* Taking the head off a sequence leaves the other elements.
LEMMA ElementsTail ==
    ASSUME NEW S, NEW s \in Seq(S), s # <<>>
    PROVE  Elements(s) = Elements(Tail(s)) \cup {Head(s)}
<1>1. Len(s) \in Nat \ {0} /\ DOMAIN s = 1..Len(s)
    OBVIOUS
<1>2. /\ DOMAIN Tail(s) = 1..(Len(s) - 1)
      /\ \A i \in 1..(Len(s) - 1) : Tail(s)[i] = s[i + 1]
      /\ Head(s) = s[1]
    OBVIOUS
<1>3. \A i \in 1..Len(s) : i = 1 \/ i - 1 \in 1..(Len(s) - 1)
    BY <1>1
<1>4. ASSUME NEW x \in Elements(s) PROVE x \in Elements(Tail(s)) \cup {Head(s)}
  <2>1. PICK i \in 1..Len(s) : x = s[i]
      BY <1>1, <1>4 DEF Elements
  <2>2. CASE i = 1
      BY <2>1, <2>2, <1>2
  <2>3. CASE i - 1 \in 1..(Len(s) - 1)
    <3>1. Tail(s)[i - 1] = s[(i - 1) + 1] /\ (i - 1) + 1 = i
        BY <2>3, <1>1, <1>2
    <3> QED BY <2>1, <2>3, <3>1, <1>2 DEF Elements
  <2> QED BY <2>2, <2>3, <1>3
<1>5. ASSUME NEW x \in Elements(Tail(s)) \cup {Head(s)} PROVE x \in Elements(s)
  <2>1. CASE x = Head(s)
      BY <2>1, <1>1, <1>2 DEF Elements
  <2>2. CASE x \in Elements(Tail(s))
    <3>1. PICK i \in 1..(Len(s) - 1) : x = s[i + 1]
        BY <2>2, <1>2 DEF Elements
    <3>2. i + 1 \in 1..Len(s)
        BY <1>1
    <3> QED BY <3>1, <3>2, <1>1 DEF Elements
  <2> QED BY <2>1, <2>2, <1>5
<1> QED BY <1>4, <1>5

\* The empty sequence has no element.
LEMMA ElementsEmpty == Elements(<<>>) = {}
BY DEF Elements

\* The head of a sequence is one of its elements, and elements have its type.
LEMMA ElementsTyped ==
    ASSUME NEW S, NEW s \in Seq(S)
    PROVE  /\ Elements(s) \subseteq S
           /\ s # <<>> => Head(s) \in Elements(s) /\ Tail(s) \in Seq(S)
<1>1. DOMAIN s = 1..Len(s) /\ \A i \in 1..Len(s) : s[i] \in S
    OBVIOUS
<1>2. s # <<>> => Tail(s) \in Seq(S)
    OBVIOUS
<1> QED BY <1>1, <1>2, ElementsTail DEF Elements

\* An element that is there at most once stays so when another is appended,
\* or when it is appended to a sequence without it.
LEMMA OnceAppend ==
    ASSUME NEW S, NEW s \in Seq(S), NEW x \in S, NEW e,
           OnceIn(e, s), e # x \/ e \notin Elements(s)
    PROVE  OnceIn(e, Append(s, x))
<1>1. /\ DOMAIN Append(s, x) = DOMAIN s \cup {Len(s) + 1}
      /\ Append(s, x)[Len(s) + 1] = x
      /\ \A i \in DOMAIN s : Append(s, x)[i] = s[i]
    OBVIOUS
<1> QED BY <1>1 DEF Elements, OnceIn

\* An element that is there at most once stays so in the tail, and is gone
\* from it when it was the head.
LEMMA OnceTail ==
    ASSUME NEW S, NEW s \in Seq(S), s # <<>>, NEW e, OnceIn(e, s)
    PROVE  /\ OnceIn(e, Tail(s))
           /\ e = Head(s) => e \notin Elements(Tail(s))
<1>1. Len(s) \in Nat \ {0} /\ DOMAIN s = 1..Len(s)
    OBVIOUS
<1>2. /\ DOMAIN Tail(s) = 1..(Len(s) - 1)
      /\ \A i \in 1..(Len(s) - 1) : Tail(s)[i] = s[i + 1]
      /\ Head(s) = s[1]
    OBVIOUS
<1>3. \A i \in 1..(Len(s) - 1) : i + 1 \in 1..Len(s) /\ i + 1 # 1
    BY <1>1
<1>4. OnceIn(e, Tail(s))
  <2> SUFFICES ASSUME NEW i \in 1..(Len(s) - 1), NEW j \in 1..(Len(s) - 1),
                      s[i + 1] = e, s[j + 1] = e
               PROVE  i = j
      BY <1>2 DEF OnceIn
  <2> QED BY <1>1, <1>3 DEF OnceIn
<1>5. ASSUME e = Head(s), e \in Elements(Tail(s)) PROVE FALSE
  <2>1. PICK i \in 1..(Len(s) - 1) : e = s[i + 1]
      BY <1>2, <1>5 DEF Elements
  <2>2. 1 \in 1..Len(s)
      BY <1>1
  <2> QED BY <2>1, <2>2, <1>1, <1>2, <1>3, <1>5 DEF OnceIn
<1> QED BY <1>4, <1>5

\* The empty sequence has everything at most once.
LEMMA OnceEmpty == \A e : OnceIn(e, <<>>)
BY DEF OnceIn

\* From s to t nothing has been added about e: it is there only if it was, and
\* still at most once.
Fades(e, s, t) ==
    /\ e \in Elements(t) => e \in Elements(s)
    /\ OnceIn(e, s) => OnceIn(e, t)

\* Reading the head of a channel adds nothing.
LEMMA FadesTail ==
    ASSUME NEW S, NEW s \in Seq(S), s # <<>>, NEW e
    PROVE  Fades(e, s, Tail(s))
<1>1. Elements(s) = Elements(Tail(s)) \cup {Head(s)}
    BY ElementsTail
<1>2. OnceIn(e, s) => OnceIn(e, Tail(s))
    BY OnceTail
<1> QED BY <1>1, <1>2 DEF Fades

\* Appending something adds nothing about anything else.
LEMMA FadesAppend ==
    ASSUME NEW S, NEW s \in Seq(S), NEW x \in S, NEW e, e # x
    PROVE  Fades(e, s, Append(s, x))
<1>1. Elements(Append(s, x)) = Elements(s) \cup {x}
    BY ElementsAppend
<1>2. OnceIn(e, s) => OnceIn(e, Append(s, x))
    BY OnceAppend
<1> QED BY <1>1, <1>2 DEF Fades

\* A channel that is left alone, or emptied, gains nothing.
LEMMA FadesSame == \A e, s : Fades(e, s, s) /\ Fades(e, s, <<>>)
BY ElementsEmpty, OnceEmpty DEF Fades

=============================================================================
