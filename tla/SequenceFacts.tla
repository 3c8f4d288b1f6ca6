---------------------------- MODULE SequenceFacts ----------------------------
(***************************************************************************)
(* Facts about sequences that the proofs of several components need.       *)
(***************************************************************************)
EXTENDS Filters, SequenceTheorems, FiniteSetTheorems, WellFoundedInduction, TLAPS

(***************************************************************************)
(* Induction over the natural numbers, for a property given as a set: the  *)
(* numbers that do not have it have no least element, so there are none.   *)
(***************************************************************************)
LEMMA LeastElement ==
  ASSUME NEW T, T \subseteq Nat, T # {}
  PROVE  \E n \in T : \A m \in T : n <= m
  <1>1. PICK n \in T : \A m \in T : ~(<<m, n>> \in OpToRel(<, Nat))
    BY WFMin, NatLessThanWellFounded
  <1>2. ASSUME NEW m \in T PROVE n <= m
    <2>1. ~(m < n)
      BY <1>1 DEF OpToRel
    <2> QED
      BY <2>1
  <1> QED
    BY <1>2

LEMMA SetInduction ==
  ASSUME NEW n \in Nat, NEW G, 0 \in G,
         \A i \in 1..n : i - 1 \in G => i \in G
  PROVE  0..n \subseteq G
  <1> DEFINE T == {i \in 0..n : i \notin G}
  <1>1. SUFFICES ASSUME T # {} PROVE FALSE
    OBVIOUS
  <1>2. PICK i \in T : \A j \in T : i <= j
    <2>1. T \subseteq Nat
      OBVIOUS
    <2> HIDE DEF T
    <2> QED
      BY <1>1, <2>1, LeastElement
  <1>3. i \in 1..n /\ i - 1 \in 0..n /\ ~(i <= i - 1)
    BY <1>2
  <1>4. i - 1 \in G
    BY <1>2, <1>3
  <1> QED
    BY <1>2, <1>3, <1>4

(***************************************************************************)
(* What Filter computes step by step: the function of its definition       *)
(* exists, and each of its values is a sequence of what was asked for.     *)
(***************************************************************************)
Rest(q, S, g, n) ==
  g = [i \in 0..n |-> IF i = 0 THEN <<>>
                      ELSE IF q[i] \in S THEN Append(g[i - 1], q[i]) ELSE g[i - 1]]

LEMMA FilterIsDefined ==
  ASSUME NEW T, NEW q \in Seq(T), NEW S
  PROVE  \E g : Rest(q, S, g, Len(q))
  <1>0. Len(q) \in Nat
    OBVIOUS
  <1> DEFINE G == {n \in 0..Len(q) : \E g : Rest(q, S, g, n)}
  <1>1. 0 \in G
    <2> DEFINE g0 == [i \in 0..0 |-> <<>>]
    <2>1. Rest(q, S, g0, 0)
      BY DEF Rest
    <2> QED
      BY <2>1
  <1>2. ASSUME NEW n \in 1..Len(q), n - 1 \in G PROVE n \in G
    <2>1. PICK g : Rest(q, S, g, n - 1)
      BY <1>2
    <2> DEFINE more == IF q[n] \in S THEN Append(g[n - 1], q[n]) ELSE g[n - 1]
    <2> DEFINE h == [i \in 0..n |-> IF i = n THEN more ELSE g[i]]
    <2>2. \A i \in 0..n - 1 : h[i] = g[i]
      OBVIOUS
    <2>3. h[n] = more
      OBVIOUS
    <2>4. ASSUME NEW i \in 0..n
          PROVE  h[i] = IF i = 0 THEN <<>>
                        ELSE IF q[i] \in S THEN Append(h[i - 1], q[i]) ELSE h[i - 1]
      <3>1. CASE i = n
        BY <2>2, <2>3, <3>1
      <3>2. CASE i # n
        <4>1. i \in 0..n - 1 /\ (i # 0 => i - 1 \in 0..n - 1)
          BY <3>2
        <4>2. g[i] = IF i = 0 THEN <<>>
                        ELSE IF q[i] \in S THEN Append(g[i - 1], q[i]) ELSE g[i - 1]
          BY <2>1, <4>1 DEF Rest
        <4> QED
          BY <2>2, <4>1, <4>2
      <3> QED
        BY <3>1, <3>2
    <2> HIDE DEF h
    <2>5. h = [i \in 0..n |-> h[i]]
      BY DEF h
    <2>6. Rest(q, S, h, n)
      BY <2>4, <2>5 DEF Rest
    <2> QED
      BY <2>6
  <1> HIDE DEF G
  <1>3. 0..Len(q) \subseteq G
    BY <1>0, <1>1, <1>2, SetInduction
  <1> QED
    BY <1>0, <1>3 DEF G

\* A filtered sequence holds what the sequence holds of the set, and nothing else.
LEMMA FilterType ==
  ASSUME NEW T, NEW q \in Seq(T), NEW S
  PROVE  Filter(q, S) \in Seq(T \cap S)
  <1>0. Len(q) \in Nat /\ \A i \in 1..Len(q) : q[i] \in T
    OBVIOUS
  <1> DEFINE kept == CHOOSE g : Rest(q, S, g, Len(q))
  <1>1. Rest(q, S, kept, Len(q))
    BY FilterIsDefined
  <1>2. Filter(q, S) = kept[Len(q)]
    BY DEF Filter, Rest
  <1> HIDE DEF kept
  <1> DEFINE G == {n \in 0..Len(q) : kept[n] \in Seq(T \cap S)}
  <1>3. 0 \in G
    BY <1>0, <1>1 DEF Rest
  <1>4. ASSUME NEW n \in 1..Len(q), n - 1 \in G PROVE n \in G
    <2>1. n \in 0..Len(q) /\ n # 0
      BY <1>0
    <2>2. kept[n] = IF q[n] \in S THEN Append(kept[n - 1], q[n]) ELSE kept[n - 1]
      BY <1>1, <2>1 DEF Rest
    <2>3. kept[n - 1] \in Seq(T \cap S)
      BY <1>4
    <2>4. q[n] \in S => Append(kept[n - 1], q[n]) \in Seq(T \cap S)
      BY <1>0, <2>3, AppendProperties
    <2> QED
      BY <2>1, <2>2, <2>3, <2>4
  <1> HIDE DEF G
  <1>5. 0..Len(q) \subseteq G
    BY <1>0, <1>3, <1>4, SetInduction
  <1> QED
    BY <1>0, <1>2, <1>5 DEF G
-----------------------------------------------------------------------------
(***************************************************************************)
(* Queues: what a sequence holds, and that it holds nothing twice, as its  *)
(* head is taken and as it is appended to.                                 *)
(***************************************************************************)
ElementsOf(s) == {s[i] : i \in DOMAIN s}
Distinct(s) == \A i, j \in DOMAIN s : s[i] = s[j] => i = j

\* Taking the head off a queue, and appending to it, for a typed sequence.
LEMMA HeadAndTail ==
  ASSUME NEW S, NEW s \in Seq(S), s # <<>>
  PROVE  /\ Head(s) \in S /\ Tail(s) \in Seq(S)
         /\ Head(s) \in ElementsOf(s)
         /\ ElementsOf(Tail(s)) \subseteq ElementsOf(s)
         /\ ElementsOf(s) \subseteq ElementsOf(Tail(s)) \cup {Head(s)}
         /\ Distinct(s) => Distinct(Tail(s)) /\ Head(s) \notin ElementsOf(Tail(s))
  <1>1. /\ Len(s) \in Nat /\ Len(s) # 0 /\ DOMAIN s = 1..Len(s)
        /\ Head(s) = s[1] /\ Tail(s) \in Seq(S) /\ s[1] \in S
        /\ DOMAIN Tail(s) = 1..(Len(s) - 1)
        /\ \A i \in 1..(Len(s) - 1) : Tail(s)[i] = s[i + 1]
    <2>1. Len(s) \in Nat /\ DOMAIN s = 1..Len(s) /\ Len(s) # 0
      BY LenProperties, EmptySeq
    <2>2. /\ Head(s) = s[1] /\ Tail(s) \in Seq(S) /\ Len(Tail(s)) = Len(s) - 1
          /\ \A i \in 1..Len(Tail(s)) : Tail(s)[i] = s[i + 1]
      BY <2>1, HeadTailProperties
    <2>3. DOMAIN Tail(s) = 1..Len(Tail(s))
      BY <2>2, LenProperties
    <2>4. s[1] \in S
      BY <2>1, ElementOfSeq
    <2> QED
      BY <2>1, <2>2, <2>3, <2>4
  <1>2. \A i \in DOMAIN Tail(s) : i + 1 \in DOMAIN s /\ Tail(s)[i] = s[i + 1]
    BY <1>1
  <1>3. ElementsOf(Tail(s)) \subseteq ElementsOf(s)
    BY <1>2 DEF ElementsOf
  <1>4. \A i \in DOMAIN s : i = 1 \/ (i - 1 \in DOMAIN Tail(s) /\ Tail(s)[i - 1] = s[i])
    BY <1>1
  <1>5. ElementsOf(s) \subseteq ElementsOf(Tail(s)) \cup {Head(s)}
    <2> SUFFICES ASSUME NEW i \in DOMAIN s
                 PROVE  s[i] \in ElementsOf(Tail(s)) \/ s[i] = Head(s)
      BY DEF ElementsOf
    <2>1. CASE i = 1
      BY <1>1, <2>1
    <2>2. CASE i - 1 \in DOMAIN Tail(s) /\ Tail(s)[i - 1] = s[i]
      BY <2>2 DEF ElementsOf
    <2> QED
      BY <1>4, <2>1, <2>2
  <1>6. ASSUME Distinct(s)
        PROVE  Distinct(Tail(s)) /\ Head(s) \notin ElementsOf(Tail(s))
    <2>1. \A i, j \in DOMAIN Tail(s) : i + 1 = j + 1 => i = j
      BY <1>1
    <2>2. \A i \in DOMAIN Tail(s) : i + 1 # 1
      BY <1>1
    <2>3. 1 \in DOMAIN s
      BY <1>1
    <2> QED
      BY <1>1, <1>2, <1>6, <2>1, <2>2, <2>3 DEF ElementsOf, Distinct
  <1>7. Head(s) \in ElementsOf(s)
    BY <1>1 DEF ElementsOf
  <1> QED
    BY <1>1, <1>3, <1>5, <1>6, <1>7

LEMMA Appended ==
  ASSUME NEW S, NEW s \in Seq(S), NEW e \in S
  PROVE  /\ Append(s, e) \in Seq(S)
         /\ ElementsOf(Append(s, e)) = ElementsOf(s) \cup {e}
         /\ Distinct(s) /\ e \notin ElementsOf(s) => Distinct(Append(s, e))
  <1>1. /\ Append(s, e) \in Seq(S) /\ Len(s) \in Nat /\ DOMAIN s = 1..Len(s)
        /\ DOMAIN Append(s, e) = 1..(Len(s) + 1)
        /\ \A i \in 1..Len(s) : Append(s, e)[i] = s[i]
        /\ Append(s, e)[Len(s) + 1] = e
    BY AppendProperties, LenProperties
  <1>2. DOMAIN Append(s, e) = DOMAIN s \cup {Len(s) + 1}
    BY <1>1
  <1>3. ElementsOf(Append(s, e)) = ElementsOf(s) \cup {e}
    BY <1>1, <1>2 DEF ElementsOf
  <1>4. ASSUME Distinct(s), e \notin ElementsOf(s)
        PROVE  Distinct(Append(s, e))
    BY <1>1, <1>2, <1>4 DEF ElementsOf, Distinct
  <1> QED
    BY <1>1, <1>3, <1>4

LEMMA Emptied == ElementsOf(<<>>) = {} /\ Distinct(<<>>)
  BY DEF ElementsOf, Distinct
=============================================================================
