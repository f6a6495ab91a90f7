----------------------------- MODULE DataLemmas -----------------------------
(***************************************************************************)
(* Facts about numbers and sequences for the proofs about data: lists of   *)
(* slots, peaks of a mountain range, batches of roots.  Induction is stated*)
(* of sets, so that a proof by induction is an instance with the set of    *)
(* the numbers that satisfy the claim.                                     *)
(***************************************************************************)
EXTENDS Integers, WellFoundedInduction, SequenceTheorems, TLAPS

LessThan == {pair \in Nat \X Nat : pair[1] < pair[2]}

LEMMA LessThanIsWellFounded == IsWellFoundedOn(LessThan, Nat)
<1>1. OpToRel(<, Nat) = LessThan
  BY DEF OpToRel, LessThan
<1> QED
  BY <1>1, NatLessThanWellFounded

\* Every set of numbers that is not empty has a least one.
LEMMA LeastNumber ==
  ASSUME NEW S, S \subseteq Nat, S # {}
  PROVE  \E n \in S : \A m \in S : n <= m
<1>1. PICK n \in S : \A m \in S : <<m, n>> \notin LessThan
  BY LessThanIsWellFounded, WFMin
<1>2. ASSUME NEW m \in S PROVE n <= m
  <2>1. SUFFICES ASSUME m < n PROVE FALSE
    OBVIOUS
  <2>2. <<m, n>> \in Nat \X Nat
    OBVIOUS
  <2>3. <<m, n>> \in LessThan
    BY <2>1, <2>2 DEF LessThan
  <2> QED
    BY <1>1, <2>3
<1> QED
  BY <1>2

\* Induction from 0 up to n.
LEMMA IntervalInduction ==
  ASSUME NEW n \in Nat, NEW S,
         0 \in S,
         \A i \in 0..(n - 1) : i \in S => i + 1 \in S
  PROVE  0..n \subseteq S
<1> SUFFICES ASSUME (0..n) \ S # {} PROVE FALSE
  OBVIOUS
<1> DEFINE Out == (0..n) \ S
<1>1. Out \subseteq Nat
  OBVIOUS
<1>2. PICK least \in Out : \A m \in Out : least <= m
  BY <1>1, LeastNumber
<1>3. least # 0 /\ least - 1 \in 0..(n - 1)
  OBVIOUS
<1>4. least - 1 \in S
  BY <1>2, <1>3
<1>5. least - 1 + 1 \in S /\ least - 1 + 1 = least
  BY <1>3, <1>4
<1> QED
  BY <1>5

\* Induction over all numbers.
LEMMA SetInduction ==
  ASSUME NEW S, 0 \in S, \A n \in Nat : n \in S => n + 1 \in S
  PROVE  Nat \subseteq S
<1> SUFFICES ASSUME NEW n \in Nat PROVE n \in S
  OBVIOUS
<1>1. 0..n \subseteq S
  BY IntervalInduction
<1> QED
  BY <1>1

\* A function on an initial interval is a sequence.
LEMMA FunctionIsSequence ==
  ASSUME NEW S, NEW n \in Nat, NEW f \in [1..n -> S]
  PROVE  f \in Seq(S) /\ Len(f) = n /\ DOMAIN f = 1..n
<1>1. f \in Seq(S)
  BY SeqDef
<1> QED
  BY <1>1, LenProperties

-----------------------------------------------------------------------------
(* Sequences in strict order                                               *)

IsStrictOrder(R, S) ==
  /\ \A x \in S : <<x, x>> \notin R
  /\ \A x, y, z \in S : <<x, y>> \in R /\ <<y, z>> \in R => <<x, z>> \in R

InOrder(R, seq) == \A i \in 1..(Len(seq) - 1) : <<seq[i], seq[i + 1]>> \in R

SameElements(s, t) ==
  /\ \A k \in 1..Len(s) : \E l \in 1..Len(t) : s[k] = t[l]
  /\ \A l \in 1..Len(t) : \E k \in 1..Len(s) : t[l] = s[k]

\* What holds of neighbours holds of any two elements.
LEMMA OrderReaches ==
  ASSUME NEW S, NEW R, IsStrictOrder(R, S), NEW seq \in Seq(S), InOrder(R, seq),
         NEW i \in 1..Len(seq), NEW j \in 1..Len(seq), i < j
  PROVE  <<seq[i], seq[j]>> \in R
<1> DEFINE Reached == {d \in Nat : i + 1 + d <= Len(seq) => <<seq[i], seq[i + 1 + d]>> \in R}
<1>1. Len(seq) \in Nat /\ \A k \in 1..Len(seq) : seq[k] \in S
  BY LenProperties, ElementOfSeq
<1>2. 0 \in Reached
  <2>1. ASSUME i + 1 + 0 <= Len(seq) PROVE <<seq[i], seq[i + 1 + 0]>> \in R
    <3>1. i \in 1..(Len(seq) - 1) /\ i + 1 + 0 = i + 1
      BY <1>1, <2>1
    <3> QED
      BY <3>1 DEF InOrder
  <2> QED
    BY <2>1
<1>3. ASSUME NEW d \in Nat, d \in Reached PROVE d + 1 \in Reached
  <2>1. ASSUME i + 1 + (d + 1) <= Len(seq) PROVE <<seq[i], seq[i + 1 + (d + 1)]>> \in R
    <3>1. /\ i + 1 + d \in 1..(Len(seq) - 1)
          /\ i + 1 + d \in 1..Len(seq)
          /\ i + 1 + (d + 1) \in 1..Len(seq)
          /\ (i + 1 + d) + 1 = i + 1 + (d + 1)
      BY <1>1, <2>1
    <3>2. <<seq[i], seq[i + 1 + d]>> \in R
      BY <1>3, <3>1
    <3>3. <<seq[i + 1 + d], seq[(i + 1 + d) + 1]>> \in R
      BY <3>1 DEF InOrder
    <3>4. seq[i] \in S /\ seq[i + 1 + d] \in S /\ seq[i + 1 + (d + 1)] \in S
      BY <1>1, <3>1
    <3> QED
      BY <3>1, <3>2, <3>3, <3>4 DEF IsStrictOrder
  <2> QED
    BY <2>1
<1> HIDE DEF Reached
<1>4. Nat \subseteq Reached
  BY <1>2, <1>3, SetInduction
<1>5. j - i - 1 \in Reached /\ i + 1 + (j - i - 1) = j /\ j <= Len(seq)
  BY <1>1, <1>4
<1> QED
  BY <1>5 DEF Reached

\* Two sequences in the same strict order with the same elements agree as far as
\* both go.
LEMMA OrderedAgree ==
  ASSUME NEW S, NEW R, IsStrictOrder(R, S),
         NEW s \in Seq(S), NEW t \in Seq(S), InOrder(R, s), InOrder(R, t),
         SameElements(s, t)
  PROVE  \A i \in 1..Len(s) : i \in 1..Len(t) => s[i] = t[i]
<1> SUFFICES ASSUME NEW i \in 1..Len(s), i \in 1..Len(t), s[i] # t[i] PROVE FALSE
  OBVIOUS
<1> DEFINE Differ == {n \in Nat : n \in 1..Len(s) /\ n \in 1..Len(t) /\ s[n] # t[n]}
<1>10. i \in Differ
  OBVIOUS
<1>1. PICK n \in Differ : \A m \in Differ : n <= m
  BY <1>10, LeastNumber
<1>2. /\ Len(s) \in Nat /\ \A k \in 1..Len(s) : s[k] \in S
      /\ Len(t) \in Nat /\ \A k \in 1..Len(t) : t[k] \in S
  BY LenProperties, ElementOfSeq
<1>3. ASSUME NEW m \in 1..(n - 1)
      PROVE  s[m] = t[m] /\ m \in 1..Len(s) /\ m \in 1..Len(t)
  <2>3. n \in Nat /\ n <= Len(s) /\ n <= Len(t)
    BY <1>1, <1>2
  <2>1. m \in 1..Len(s) /\ m \in 1..Len(t) /\ m \in Nat /\ ~ (n <= m)
    BY <1>2, <2>3
  <2>2. m \notin Differ
    BY <1>1, <2>1
  <2> QED
    BY <2>1, <2>2
<1>4. PICK k \in 1..Len(s) : t[n] = s[k]
  BY <1>1 DEF SameElements
<1>5. PICK l \in 1..Len(t) : s[n] = t[l]
  BY <1>1 DEF SameElements
<1>6. k > n
  <2>1. k # n
    BY <1>1, <1>4
  <2>2. ASSUME k < n PROVE FALSE
    <3>1. k \in 1..(n - 1) /\ t[k] = t[n]
      BY <1>1, <1>2, <1>3, <1>4, <2>2
    <3>2. <<t[k], t[n]>> \in R
      BY <1>1, <1>3, <2>2, <3>1, OrderReaches
    <3> QED
      BY <1>1, <1>2, <3>1, <3>2 DEF IsStrictOrder
  <2> QED
    BY <1>1, <1>2, <2>1, <2>2
<1>7. l > n
  <2>1. l # n
    BY <1>1, <1>5
  <2>2. ASSUME l < n PROVE FALSE
    <3>1. l \in 1..(n - 1) /\ s[l] = s[n]
      BY <1>1, <1>2, <1>3, <1>5, <2>2
    <3>2. <<s[l], s[n]>> \in R
      BY <1>1, <1>3, <2>2, <3>1, OrderReaches
    <3> QED
      BY <1>1, <1>2, <3>1, <3>2 DEF IsStrictOrder
  <2> QED
    BY <1>1, <1>2, <2>1, <2>2
<1>8. <<s[n], s[k]>> \in R
  BY <1>1, <1>6, OrderReaches
<1>9. <<t[n], t[l]>> \in R
  BY <1>1, <1>7, OrderReaches
<1> QED
  BY <1>1, <1>2, <1>4, <1>5, <1>8, <1>9 DEF IsStrictOrder

\* One of them is not longer than the other.
LEMMA OrderedLength ==
  ASSUME NEW S, NEW R, IsStrictOrder(R, S),
         NEW s \in Seq(S), NEW t \in Seq(S), InOrder(R, s), InOrder(R, t),
         SameElements(s, t)
  PROVE  Len(s) <= Len(t)
<1>1. /\ Len(s) \in Nat /\ \A k \in 1..Len(s) : s[k] \in S
      /\ Len(t) \in Nat
  BY LenProperties, ElementOfSeq
<1> SUFFICES ASSUME Len(t) < Len(s) PROVE FALSE
  BY <1>1
<1>2. Len(t) + 1 \in 1..Len(s)
  BY <1>1
<1>3. PICK l \in 1..Len(t) : s[Len(t) + 1] = t[l]
  BY <1>2 DEF SameElements
<1>4. l \in 1..Len(s) /\ l < Len(t) + 1
  BY <1>1, <1>3
<1>5. s[l] = t[l]
  <2>1. \A i \in 1..Len(s) : i \in 1..Len(t) => s[i] = t[i]
    BY OrderedAgree
  <2> QED
    BY <1>3, <1>4, <2>1
<1>6. <<s[l], s[Len(t) + 1]>> \in R
  BY <1>2, <1>4, OrderReaches
<1> QED
  BY <1>1, <1>2, <1>3, <1>4, <1>5, <1>6 DEF IsStrictOrder

\* A set has one listing in a strict order.
LEMMA OneListing ==
  ASSUME NEW S, NEW R, IsStrictOrder(R, S),
         NEW s \in Seq(S), NEW t \in Seq(S), InOrder(R, s), InOrder(R, t),
         SameElements(s, t)
  PROVE  s = t
<1>1. Len(s) <= Len(t)
  BY OrderedLength
<1>2. Len(t) <= Len(s)
  <2>1. SameElements(t, s)
    BY DEF SameElements
  <2> QED
    BY <2>1, OrderedLength
<1>3. Len(s) = Len(t)
  BY <1>1, <1>2, LenProperties
<1>4. \A i \in 1..Len(s) : s[i] = t[i]
  <2>1. \A i \in 1..Len(s) : i \in 1..Len(t) => s[i] = t[i]
    BY OrderedAgree
  <2> QED
    BY <1>3, <2>1
<1> QED
  BY <1>3, <1>4, SeqEqual
=============================================================================
