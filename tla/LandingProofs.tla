--------------------------- MODULE LandingProofs ----------------------------
(***************************************************************************)
(* What holds of landing position roots for every number of positions and  *)
(* every sequence of calls: the header's mountain range stands for the     *)
(* roots in the table, and the table of the Python replay for the roots of *)
(* the calls that returned.                                                *)
(***************************************************************************)
EXTENDS Landing, DataLemmas

-----------------------------------------------------------------------------
(* The recursive functions of the model                                    *)

\* The new leaf, and what a carry becomes by its merge number m.
Leaf(count, positionRoot) == [first |-> count, level |-> 0, digest |-> <<positionRoot>>]
Merged(peaks, m, carry) ==
  [first  |-> peaks[Len(peaks) - m + 1].first,
   level  |-> carry.level + 1,
   digest |-> peaks[Len(peaks) - m + 1].digest \o carry.digest]

LEMMA CarriesUnfold ==
  ASSUME NEW count, NEW peaks, Len(peaks) \in Nat, NEW positionRoot
  PROVE  LET carry == Carries(count, peaks, positionRoot)
         IN  /\ carry[0] = Leaf(count, positionRoot)
             /\ \A m \in 1..Len(peaks) : carry[m] = Merged(peaks, m, carry[m - 1])
<1> DEFINE base == Leaf(count, positionRoot)
           Merge(m, carry) == Merged(peaks, m, carry)
           Fits(g, n) == g = [m \in 0..n |-> IF m = 0 THEN base ELSE Merge(m, g[m - 1])]
           Some == {n \in Nat : \E g : Fits(g, n)}
           carries == Carries(count, peaks, positionRoot)
<1> HIDE DEF base, Merge
<1>1. 0 \in Some
  <2>1. Fits([m \in 0..0 |-> base], 0)
    OBVIOUS
  <2> QED
    BY <2>1
<1>2. ASSUME NEW n \in Nat, n \in Some PROVE n + 1 \in Some
  <2>1. PICK g : Fits(g, n)
    BY <1>2
  <2> DEFINE h == [m \in 0..(n + 1) |-> IF m <= n THEN g[m] ELSE Merge(n + 1, g[n])]
  <2>2. ASSUME NEW m \in 0..(n + 1)
        PROVE  h[m] = IF m = 0 THEN base ELSE Merge(m, h[m - 1])
    <3>1. CASE m = 0
      BY <2>1, <3>1
    <3>2. CASE m \in 1..n
      BY <2>1, <3>2
    <3>3. CASE m = n + 1
      BY <3>3
    <3> QED
      BY <3>1, <3>2, <3>3
  <2>3. Fits(h, n + 1)
    BY <2>2
  <2> HIDE DEF Fits, h
  <2>4. n + 1 \in Nat /\ \E f : Fits(f, n + 1)
    BY <2>3
  <2> QED
    BY <2>4
<1>3. Len(peaks) \in Some
  BY <1>1, <1>2, SetInduction
<1>4. PICK g : Fits(g, Len(peaks))
  BY <1>3
<1>5. carries = CHOOSE f : Fits(f, Len(peaks))
  BY DEF Carries, base, Merge, Leaf, Merged
<1>6. Fits(carries, Len(peaks))
  BY <1>4, <1>5
<1>7. /\ carries[0] = base
      /\ \A m \in 1..Len(peaks) : carries[m] = Merge(m, carries[m - 1])
  BY <1>6
<1> QED
  BY <1>7 DEF base, Merge

LEMMA AppendedUnfold ==
  ASSUME NEW doc, NEW roots, Len(roots) \in Nat
  PROVE  \E appended :
           /\ appended[0] = doc
           /\ \A n \in 1..Len(roots) : appended[n] = appendPosition(appended[n - 1], roots[n])
           /\ Appended(doc, roots) = appended[Len(roots)]
<1> DEFINE Step(n, before) == appendPosition(before, roots[n])
           Fits(g, n) == g = [m \in 0..n |-> IF m = 0 THEN doc ELSE Step(m, g[m - 1])]
           Some == {n \in Nat : \E g : Fits(g, n)}
<1> HIDE DEF Step
<1>1. 0 \in Some
  <2>1. Fits([m \in 0..0 |-> doc], 0)
    OBVIOUS
  <2> QED
    BY <2>1
<1>2. ASSUME NEW n \in Nat, n \in Some PROVE n + 1 \in Some
  <2>1. PICK g : Fits(g, n)
    BY <1>2
  <2> DEFINE h == [m \in 0..(n + 1) |-> IF m <= n THEN g[m] ELSE Step(n + 1, g[n])]
  <2>2. ASSUME NEW m \in 0..(n + 1)
        PROVE  h[m] = IF m = 0 THEN doc ELSE Step(m, h[m - 1])
    <3>1. CASE m = 0
      BY <2>1, <3>1
    <3>2. CASE m \in 1..n
      BY <2>1, <3>2
    <3>3. CASE m = n + 1
      BY <3>3
    <3> QED
      BY <3>1, <3>2, <3>3
  <2>3. Fits(h, n + 1)
    BY <2>2
  <2> HIDE DEF Fits, h
  <2>4. n + 1 \in Nat /\ \E f : Fits(f, n + 1)
    BY <2>3
  <2> QED
    BY <2>4
<1>3. Len(roots) \in Some
  BY <1>1, <1>2, SetInduction
<1>4. PICK g : Fits(g, Len(roots))
  BY <1>3
<1> DEFINE appended == CHOOSE f : Fits(f, Len(roots))
<1>5. Appended(doc, roots) = appended[Len(roots)]
  BY DEF Appended, Step
<1>6. Fits(appended, Len(roots))
  BY <1>4
<1> HIDE DEF appended
<1>7. /\ appended[0] = doc
      /\ \A n \in 1..Len(roots) : appended[n] = Step(n, appended[n - 1])
  BY <1>6
<1> QED
  BY <1>5, <1>7 DEF Step

\* The powers of two, for levels as high as one likes.
LEMMA Pow2Unfold == pow2 = [level \in Nat |-> IF level = 0 THEN 1 ELSE 2 * pow2[level - 1]]
<1> DEFINE Fits(g, n) == g = [m \in 0..n |-> IF m = 0 THEN 1 ELSE 2 * g[m - 1]]
           Some == {n \in Nat : \E g : Fits(g, n)}
           Upto(n) == CHOOSE g : Fits(g, n)
           all == [n \in Nat |-> Upto(n)[n]]
<1>1. 0 \in Some
  <2>1. Fits([m \in 0..0 |-> 1], 0)
    OBVIOUS
  <2> QED
    BY <2>1
<1>2. ASSUME NEW n \in Nat, n \in Some PROVE n + 1 \in Some
  <2>1. PICK g : Fits(g, n)
    BY <1>2
  <2> DEFINE h == [m \in 0..(n + 1) |-> IF m <= n THEN g[m] ELSE 2 * g[n]]
  <2>2. ASSUME NEW m \in 0..(n + 1) PROVE h[m] = IF m = 0 THEN 1 ELSE 2 * h[m - 1]
    <3>1. CASE m = 0
      BY <2>1, <3>1
    <3>2. CASE m \in 1..n
      BY <2>1, <3>2
    <3>3. CASE m = n + 1
      BY <3>3
    <3> QED
      BY <3>1, <3>2, <3>3
  <2>3. Fits(h, n + 1)
    BY <2>2
  <2> HIDE DEF Fits, h
  <2>4. n + 1 \in Nat /\ \E f : Fits(f, n + 1)
    BY <2>3
  <2> QED
    BY <2>4
<1>3. Nat \subseteq Some
  BY <1>1, <1>2, SetInduction
<1>4. ASSUME NEW n \in Nat
      PROVE  Fits(Upto(n), n)
  <2>1. \E g : Fits(g, n)
    BY <1>3
  <2> HIDE DEF Fits
  <2> QED
    BY <2>1
<1>5. ASSUME NEW n \in Nat PROVE Upto(n + 1)[n] = Upto(n)[n]
  <2> DEFINE shorter == Upto(n)
             longer  == Upto(n + 1)
             Same == {m \in Nat : m <= n => shorter[m] = longer[m]}
  <2>1. /\ shorter = [m \in 0..n |-> IF m = 0 THEN 1 ELSE 2 * shorter[m - 1]]
        /\ longer = [m \in 0..(n + 1) |-> IF m = 0 THEN 1 ELSE 2 * longer[m - 1]]
    <3>1. Fits(shorter, n)
      BY <1>4
    <3>2. n + 1 \in Nat
      OBVIOUS
    <3> HIDE DEF shorter
    <3>3. Fits(longer, n + 1)
      BY <1>4, <3>2
    <3> HIDE DEF longer
    <3> QED
      BY <3>1, <3>3
  <2> HIDE DEF shorter, longer
  <2>2. 0 \in Same
    BY <2>1
  <2>3. ASSUME NEW m \in Nat, m \in Same PROVE m + 1 \in Same
    BY <2>1, <2>3
  <2>4. n \in Same
    BY <2>2, <2>3, SetInduction
  <2> QED
    BY <2>4 DEF shorter, longer
<1>6. ASSUME NEW n \in Nat PROVE all[n] = IF n = 0 THEN 1 ELSE 2 * all[n - 1]
  <2> DEFINE upto == Upto(n)
  <2>1. upto = [m \in 0..n |-> IF m = 0 THEN 1 ELSE 2 * upto[m - 1]]
    BY <1>4
  <2>2. CASE n = 0
    <3> HIDE DEF upto
    <3>1. upto[n] = 1
      BY <2>1, <2>2
    <3> QED
      BY <2>2, <3>1 DEF upto
  <2>3. CASE n # 0
    <3>1. n - 1 \in Nat /\ (n - 1) + 1 = n
      BY <2>3
    <3>2. Upto(n)[n - 1] = Upto(n - 1)[n - 1]
      BY <1>5, <3>1
    <3>3. all[n] = upto[n] /\ all[n - 1] = upto[n - 1]
      BY <3>1, <3>2
    <3> HIDE DEF upto, all
    <3>4. upto[n] = 2 * upto[n - 1]
      BY <2>1, <2>3
    <3> QED
      BY <2>3, <3>3, <3>4
  <2> QED
    BY <2>2, <2>3
<1>7. all = [level \in Nat |-> IF level = 0 THEN 1 ELSE 2 * all[level - 1]]
  <2>1. all = [n \in Nat |-> all[n]]
    OBVIOUS
  <2> HIDE DEF all
  <2> QED
    BY <1>6, <2>1
<1> HIDE DEF all
<1>8. \E f : f = [level \in Nat |-> IF level = 0 THEN 1 ELSE 2 * f[level - 1]]
  BY <1>7
<1> QED
  BY <1>8 DEF pow2

LEMMA Pow2Values ==
  /\ pow2[0] = 1
  /\ \A n \in Nat : pow2[n] \in Nat \ {0} /\ pow2[n + 1] = 2 * pow2[n]
<1>1. pow2[0] = 1 /\ \A n \in Nat : pow2[n + 1] = 2 * pow2[n]
  <2>1. ASSUME NEW n \in Nat PROVE pow2[n + 1] = 2 * pow2[n]
    <3>1. n + 1 \in Nat /\ n + 1 # 0 /\ (n + 1) - 1 = n
      OBVIOUS
    <3> QED
      BY <3>1, Pow2Unfold
  <2> QED
    BY <2>1, Pow2Unfold
<1> DEFINE Positive == {n \in Nat : pow2[n] \in Nat \ {0}}
<1>2. 0 \in Positive
  BY <1>1
<1>3. ASSUME NEW n \in Nat, n \in Positive PROVE n + 1 \in Positive
  BY <1>1, <1>3
<1>4. Nat \subseteq Positive
  BY <1>2, <1>3, SetInduction
<1> QED
  BY <1>1, <1>4

LEMMA Pow2Grows ==
  ASSUME NEW m \in Nat, NEW n \in Nat, m <= n PROVE pow2[m] <= pow2[n]
<1> DEFINE Above == {d \in Nat : pow2[m] <= pow2[m + d]}
<1>1. 0 \in Above
  BY Pow2Values
<1>2. ASSUME NEW d \in Nat, d \in Above PROVE d + 1 \in Above
  <2>1. pow2[m + d + 1] = 2 * pow2[m + d] /\ pow2[m + d] \in Nat /\ pow2[m] \in Nat
    BY Pow2Values
  <2>2. m + (d + 1) = m + d + 1 /\ pow2[m] <= pow2[m + d]
    BY <1>2
  <2> QED
    BY <2>1, <2>2
<1> HIDE DEF Above
<1>4. Nat \subseteq Above
  BY <1>1, <1>2, SetInduction
<1> USE DEF Above
<1>3. n - m \in Above /\ m + (n - m) = n
  BY <1>4
<1> QED
  BY <1>3

-----------------------------------------------------------------------------
(* Appending one root                                                      *)

LEMMA PeakTypes ==
  ASSUME NEW peaks \in Seq(Peaks)
  PROVE  /\ Len(peaks) \in Nat
         /\ \A i \in 1..Len(peaks) :
              /\ peaks[i] \in Peaks
              /\ peaks[i].first \in Positions
              /\ peaks[i].first \in Nat
              /\ peaks[i].level \in Nat
              /\ peaks[i].digest \in Seq(PositionRoots)
              /\ Len(peaks[i].digest) \in Nat
<1>1. Len(peaks) \in Nat /\ \A i \in 1..Len(peaks) : peaks[i] \in Peaks
  BY LenProperties, ElementOfSeq
<1> QED
  BY <1>1, LandingAssumption DEF Peaks, Positions

\* The merge loop stops at the first level that is missing from the right.
LEMMA MergedFacts ==
  ASSUME NEW peaks, Len(peaks) \in Nat
  PROVE  LET m == MergedPeaks(peaks)
         IN  /\ m \in 0..Len(peaks)
             /\ \A i \in 0..(m - 1) : peaks[Len(peaks) - i].level = i
             /\ m < Len(peaks) => peaks[Len(peaks) - m].level # m
<1> DEFINE Stops == {m \in Nat : m <= Len(peaks)
                                   /\ (m < Len(peaks) => peaks[Len(peaks) - m].level # m)}
<1>1. Len(peaks) \in Stops
  OBVIOUS
<1>2. PICK m \in Stops : \A n \in Stops : m <= n
  BY <1>1, LeastNumber
<1>3. m \in Nat /\ m <= Len(peaks) /\ (m < Len(peaks) => peaks[Len(peaks) - m].level # m)
  BY <1>2
<1>4. ASSUME NEW i \in 0..(m - 1) PROVE peaks[Len(peaks) - i].level = i
  <2>1. i \in Nat /\ i < Len(peaks) /\ ~ (m <= i)
    BY <1>3
  <2>2. i \notin Stops
    BY <1>2, <2>1
  <2> QED
    BY <2>1, <2>2
<1>5. \E n \in 0..Len(peaks) :
        /\ \A i \in 0..(n - 1) : peaks[Len(peaks) - i].level = i
        /\ n < Len(peaks) => peaks[Len(peaks) - n].level # n
  BY <1>3, <1>4
<1> QED
  BY <1>5 DEF MergedPeaks

\* A peak after m merges stands for the last positions of the table, the new one
\* among them, from where the last peak it merged with began.
CarryFits(count, peaks, table, m, carry) ==
  /\ carry \in Peaks
  /\ carry.level = m
  /\ carry.first = IF m = 0 THEN count ELSE peaks[Len(peaks) - m + 1].first
  /\ Len(carry.digest) = pow2[m]
  /\ carry.first + Len(carry.digest) = count + 1
  /\ \A k \in 1..Len(carry.digest) : carry.digest[k] = table[carry.first + k - 1]

\* Before any merge it stands for the new position alone.
LEMMA FirstCarry ==
  ASSUME NEW count \in Positions, NEW peaks, NEW table,
         NEW positionRoot \in PositionRoots, table[count] = positionRoot,
         NEW carry, carry = Leaf(count, positionRoot)
  PROVE  CarryFits(count, peaks, table, 0, carry)
<1>1. count \in Nat
  BY LandingAssumption DEF Positions
<1>2. carry.digest = <<positionRoot>> /\ carry.first = count /\ carry.level = 0
  BY DEF Leaf
<1>3. /\ carry.digest \in Seq(PositionRoots)
      /\ Len(carry.digest) = 1
      /\ carry.digest[1] = positionRoot
  BY <1>2
<1>4. carry \in Peaks
  BY <1>3 DEF Peaks, Leaf
<1>5. \A k \in 1..Len(carry.digest) : carry.digest[k] = table[carry.first + k - 1]
  BY <1>1, <1>2, <1>3
<1> QED
  BY <1>1, <1>2, <1>3, <1>4, <1>5, Pow2Values DEF CarryFits

\* A merge keeps that so, since the peak it takes in ends where the carry begins.
LEMMA NextCarry ==
  ASSUME NEW count \in Positions, NEW peaks, NEW table, IsFrontier(count, peaks, table),
         NEW m \in Nat, m < Len(peaks), peaks[Len(peaks) - m].level = m,
         NEW carry, CarryFits(count, peaks, table, m, carry)
  PROVE  CarryFits(count, peaks, table, m + 1, Merged(peaks, m + 1, carry))
<1> DEFINE at == Len(peaks) - m
           left == peaks[at]
           merged == Merged(peaks, m + 1, carry)
           l == Len(left.digest)
           c == Len(carry.digest)
<1>1. /\ Len(peaks) \in Nat
      /\ at \in 1..Len(peaks)
      /\ Len(peaks) - (m + 1) + 1 = at
      /\ Len(peaks) - m = at
      /\ m = 0 => at = Len(peaks)
      /\ m # 0 => at # Len(peaks) /\ Len(peaks) - m + 1 = at + 1
  BY PeakTypes DEF IsFrontier
<1>2. /\ merged.first = left.first
      /\ merged.level = m + 1
      /\ merged.digest = left.digest \o carry.digest
      /\ merged = [first |-> merged.first, level |-> merged.level, digest |-> merged.digest]
  <2>1. carry.level = m
    BY DEF CarryFits
  <2> QED
    BY <1>1, <2>1 DEF Merged
<1> HIDE DEF at, merged
<1>3. /\ left.first \in Positions
      /\ left.first \in Nat
      /\ left.digest \in Seq(PositionRoots)
      /\ l \in Nat
  BY <1>1, PeakTypes DEF IsFrontier
<1>4. /\ l = pow2[m]
      /\ \A k \in 1..l : left.digest[k] = table[left.first + k - 1]
      /\ left.first + l = IF at = Len(peaks) THEN count ELSE peaks[at + 1].first
  <2>1. left.level = m
    BY DEF at
  <2> QED
    BY <1>1, <2>1 DEF IsFrontier
<1>5. /\ carry.digest \in Seq(PositionRoots)
      /\ carry.first \in Nat
      /\ carry.first = IF m = 0 THEN count ELSE peaks[Len(peaks) - m + 1].first
  BY LandingAssumption DEF CarryFits, Peaks, Positions
<1>6. /\ c \in Nat
      /\ c = pow2[m]
      /\ carry.first + c = count + 1
      /\ \A k \in 1..c : carry.digest[k] = table[carry.first + k - 1]
  BY <1>5, LenProperties DEF CarryFits
<1> HIDE DEF left
<1>7. left.first + l = carry.first
  BY <1>1, <1>4, <1>5
<1>8. /\ left.digest \o carry.digest \in Seq(PositionRoots)
      /\ Len(left.digest \o carry.digest) = l + c
      /\ \A k \in 1..(l + c) :
           (left.digest \o carry.digest)[k]
             = IF k <= l THEN left.digest[k] ELSE carry.digest[k - l]
  <2>1. left.digest \in Seq(PositionRoots) /\ carry.digest \in Seq(PositionRoots)
    BY <1>3, <1>5
  <2> QED
    BY <2>1, ConcatProperties, Zenon
<1> HIDE DEF l, c
<1>9. merged \in Peaks
  <2>1. m + 1 \in Nat
    OBVIOUS
  <2>2. merged.first \in Positions /\ merged.level \in Nat /\ merged.digest \in Seq(PositionRoots)
    BY <1>2, <1>3, <1>8, <2>1
  <2> QED
    BY <1>2, <2>2 DEF Peaks
<1>10. Len(merged.digest) = l + c
  BY <1>2, <1>8
<1>11. l + c = pow2[m + 1]
  BY <1>4, <1>6, Pow2Values
<1>12. ASSUME NEW k \in 1..(l + c)
       PROVE  merged.digest[k] = table[merged.first + k - 1]
  <2>1. CASE k <= l
    <3>1. k \in 1..l
      BY <1>3, <1>6, <2>1
    <3>2. merged.digest[k] = left.digest[k]
      BY <1>2, <1>8, <2>1
    <3> QED
      BY <1>2, <1>4, <3>1, <3>2
  <2>2. CASE ~ (k <= l)
    <3>1. merged.digest[k] = carry.digest[k - l]
      BY <1>2, <1>8, <2>2
    <3>2. k - l \in 1..c
      BY <1>3, <1>6, <2>2
    <3>3. carry.digest[k - l] = table[carry.first + (k - l) - 1]
      BY <1>6, <3>2
    <3>4. carry.first + (k - l) - 1 = left.first + k - 1
      BY <1>3, <1>5, <1>7, <3>2
    <3> QED
      BY <1>2, <3>1, <3>3, <3>4
  <2> QED
    BY <2>1, <2>2
<1>13. left.first + (l + c) = count + 1
  BY <1>3, <1>5, <1>6, <1>7
<1>14. merged.first = peaks[Len(peaks) - (m + 1) + 1].first /\ m + 1 # 0
  BY <1>1, <1>2 DEF left
<1>15. CarryFits(count, peaks, table, m + 1, merged)
  BY <1>2, <1>9, <1>10, <1>11, <1>12, <1>13, <1>14 DEF CarryFits
<1> QED
  BY <1>15 DEF merged

\* So it is after all the merges of an append.
LEMMA LastCarry ==
  ASSUME NEW count \in Positions, NEW peaks, NEW table, IsFrontier(count, peaks, table),
         NEW positionRoot \in PositionRoots, table[count] = positionRoot
  PROVE  CarryFits(count, peaks, table, MergedPeaks(peaks),
                   Carries(count, peaks, positionRoot)[MergedPeaks(peaks)])
<1> DEFINE carries == Carries(count, peaks, positionRoot)
           last == MergedPeaks(peaks)
           Fine == {m \in Nat : m <= last => CarryFits(count, peaks, table, m, carries[m])}
<1>1. Len(peaks) \in Nat
  BY PeakTypes DEF IsFrontier
<1>2. last \in 0..Len(peaks) /\ \A i \in 0..(last - 1) : peaks[Len(peaks) - i].level = i
  BY <1>1, MergedFacts
<1>3. /\ carries[0] = Leaf(count, positionRoot)
      /\ \A m \in 1..Len(peaks) : carries[m] = Merged(peaks, m, carries[m - 1])
  BY <1>1, CarriesUnfold
<1> HIDE DEF carries, last
<1>4. 0 \in Fine
  BY <1>3, FirstCarry
<1>5. ASSUME NEW m \in Nat, m \in Fine PROVE m + 1 \in Fine
  <2>1. ASSUME m + 1 <= last PROVE CarryFits(count, peaks, table, m + 1, carries[m + 1])
    <3>1. /\ m < Len(peaks)
          /\ m \in 0..(last - 1)
          /\ m + 1 \in 1..Len(peaks)
          /\ (m + 1) - 1 = m
      BY <1>1, <1>2, <2>1
    <3>2. CarryFits(count, peaks, table, m, carries[m])
      BY <1>2, <1>5, <3>1
    <3>3. peaks[Len(peaks) - m].level = m
      BY <1>2, <3>1
    <3>4. carries[m + 1] = Merged(peaks, m + 1, carries[m])
      BY <1>3, <3>1
    <3> QED
      BY <3>1, <3>2, <3>3, <3>4, NextCarry
  <2> QED
    BY <2>1
<1> HIDE DEF Fine
<1>6. Nat \subseteq Fine
  BY <1>4, <1>5, SetInduction
<1>7. last \in Nat /\ last \in Fine /\ last <= last
  BY <1>1, <1>2, <1>6
<1> QED
  BY <1>7 DEF Fine, carries, last

\* What the four parts of a frontier say, each of its own.
LEMMA FrontierFacts ==
  ASSUME NEW count, NEW peaks, NEW table, IsFrontier(count, peaks, table)
  PROVE  /\ peaks \in Seq(Peaks)
         /\ \A i \in 1..Len(peaks) :
              /\ Len(peaks[i].digest) = pow2[peaks[i].level]
              /\ peaks[i].first + Len(peaks[i].digest) <= count
              /\ \A k \in 1..Len(peaks[i].digest) :
                   peaks[i].digest[k] = table[peaks[i].first + k - 1]
         /\ \A i \in 1..Len(peaks) :
              peaks[i].first + Len(peaks[i].digest)
                = IF i = Len(peaks) THEN count ELSE peaks[i + 1].first
         /\ \A i, j \in 1..Len(peaks) : i < j => peaks[i].level >= peaks[j].level + (j - i)
         /\ IF peaks = <<>> THEN count = 0 ELSE peaks[1].first = 0
BY DEF IsFrontier

\* An append to a range over the first positions is one over one more.
LEMMA AppendFrontier ==
  ASSUME NEW count \in Positions, NEW peaks, NEW table, IsFrontier(count, peaks, table),
         NEW positionRoot \in PositionRoots, table[count] = positionRoot
  PROVE  LET appended == mmrAppend(count, peaks, positionRoot)
         IN  /\ appended.count = count + 1
             /\ appended.root = [count |-> count + 1, peaks |-> appended.peaks]
             /\ IsFrontier(count + 1, appended.peaks, table)
<1> DEFINE m == MergedPeaks(peaks)
           n == Len(peaks) - m
           carry == Carries(count, peaks, positionRoot)[m]
           out == Append(SubSeq(peaks, 1, n), carry)
<1>1. /\ mmrAppend(count, peaks, positionRoot).count = count + 1
      /\ mmrAppend(count, peaks, positionRoot).peaks = out
      /\ mmrAppend(count, peaks, positionRoot).root = [count |-> count + 1, peaks |-> out]
  BY DEF mmrAppend
<1>2. CarryFits(count, peaks, table, m, carry)
  BY LastCarry
<1>3. /\ Len(peaks) \in Nat
      /\ m \in 0..Len(peaks)
      /\ m \in Nat
      /\ n \in 0..Len(peaks)
      /\ m = 0 => n = Len(peaks)
      /\ m # 0 => n # Len(peaks) /\ Len(peaks) - m + 1 = n + 1
      /\ n # 0 => peaks[n].level # m
      /\ \A i \in 0..(m - 1) : peaks[Len(peaks) - i].level = i
  <2>1. Len(peaks) \in Nat
    BY FrontierFacts, PeakTypes
  <2> QED
    BY <2>1, MergedFacts
<1> HIDE DEF m, carry
<1>4. \A i \in 1..n : i \in 1..Len(peaks)
  BY <1>3
<1>5. /\ count \in Nat
      /\ \A i \in 1..Len(peaks) :
           /\ peaks[i] \in Peaks
           /\ peaks[i].first \in Nat
           /\ peaks[i].level \in Nat
           /\ Len(peaks[i].digest) \in Nat
  BY FrontierFacts, PeakTypes, LandingAssumption DEF Positions
<1>6. /\ carry \in Peaks
      /\ carry.first \in Nat
      /\ carry.level = m
  BY <1>2, LandingAssumption DEF CarryFits, Peaks, Positions
<1>7. /\ out \in Seq(Peaks)
      /\ Len(out) = n + 1
      /\ \A i \in 1..n : out[i] = peaks[i]
      /\ out[n + 1] = carry
  <2> DEFINE kept == SubSeq(peaks, 1, n)
  <2>1. n \in Int /\ 1 \in Int /\ \A i \in 1..n : peaks[i] \in Peaks
    BY <1>3, <1>4, <1>5
  <2>2. kept \in Seq(Peaks) /\ Len(kept) = (IF 1 <= n THEN n - 1 + 1 ELSE 0)
    BY <2>1, SubSeqProperties
  <2>3. Len(kept) = n
    BY <1>3, <2>2
  <2>4. \A i \in 1..n : kept[i] = peaks[i]
    BY <1>3, <2>1
  <2> HIDE DEF kept
  <2>5. /\ Append(kept, carry) \in Seq(Peaks)
        /\ Len(Append(kept, carry)) = n + 1
        /\ \A i \in 1..n : Append(kept, carry)[i] = kept[i]
        /\ Append(kept, carry)[n + 1] = carry
    BY <1>3, <1>6, <2>2, <2>3
  <2> QED
    BY <2>4, <2>5 DEF kept
<1> HIDE DEF n, out
<1>8. ASSUME NEW i \in 1..Len(out)
      PROVE  i \in 1..n \/ i = n + 1
  BY <1>3, <1>7
<1>9. ASSUME NEW i \in 1..Len(out)
      PROVE  /\ Len(out[i].digest) = pow2[out[i].level]
             /\ \A k \in 1..Len(out[i].digest) : out[i].digest[k] = table[out[i].first + k - 1]
             /\ out[i].first + Len(out[i].digest) <= count + 1
  <2>1. CASE i \in 1..n
    <3>1. i \in 1..Len(peaks) /\ out[i] = peaks[i]
      BY <1>4, <1>7, <2>1
    <3>2. /\ Len(peaks[i].digest) = pow2[peaks[i].level]
          /\ peaks[i].first + Len(peaks[i].digest) <= count
          /\ \A k \in 1..Len(peaks[i].digest) :
               peaks[i].digest[k] = table[peaks[i].first + k - 1]
      BY <3>1, FrontierFacts
    <3>3. peaks[i].first + Len(peaks[i].digest) <= count + 1
      BY <1>5, <3>1, <3>2
    <3> QED
      BY <3>1, <3>2, <3>3
  <2>2. CASE i = n + 1
    <3>1. count + 1 <= count + 1
      BY <1>5
    <3> QED
      BY <1>2, <1>7, <2>2, <3>1 DEF CarryFits
  <2> QED
    BY <1>8, <2>1, <2>2
<1>10. ASSUME NEW i \in 1..Len(out)
       PROVE  out[i].first + Len(out[i].digest)
                = IF i = Len(out) THEN count + 1 ELSE out[i + 1].first
  <2>1. CASE i \in 1..n /\ i # n
    <3>1. /\ i \in 1..Len(peaks)
          /\ i # Len(peaks)
          /\ i # Len(out)
          /\ out[i] = peaks[i]
          /\ out[i + 1] = peaks[i + 1]
      <4>1. i + 1 \in 1..n
        BY <1>3, <2>1
      <4> QED
        BY <1>3, <1>4, <1>7, <2>1, <4>1
    <3> QED
      BY <3>1, FrontierFacts
  <2>2. CASE i \in 1..n /\ i = n
    <3>1. /\ i \in 1..Len(peaks)
          /\ i # Len(out)
          /\ out[i] = peaks[i]
          /\ out[i + 1] = carry
      BY <1>3, <1>4, <1>7, <2>2
    <3>2. peaks[i].first + Len(peaks[i].digest)
            = IF i = Len(peaks) THEN count ELSE peaks[i + 1].first
      BY <3>1, FrontierFacts
    <3>3. carry.first = IF m = 0 THEN count ELSE peaks[Len(peaks) - m + 1].first
      BY <1>2 DEF CarryFits
    <3> QED
      BY <1>3, <2>2, <3>1, <3>2, <3>3
  <2>3. CASE i = n + 1
    BY <1>2, <1>7, <2>3 DEF CarryFits
  <2> QED
    BY <1>8, <2>1, <2>2, <2>3
<1>11. ASSUME NEW i \in 1..Len(out), NEW j \in 1..Len(out), i < j
       PROVE  out[i].level >= out[j].level + (j - i)
  <2>1. i \in 1..n
    BY <1>3, <1>7, <1>11
  <2>2. i \in 1..Len(peaks) /\ out[i] = peaks[i] /\ peaks[i].level \in Nat
    BY <1>4, <1>5, <1>7, <2>1
  <2>3. CASE j \in 1..n
    <3>1. j \in 1..Len(peaks) /\ out[j] = peaks[j]
      BY <1>4, <1>7, <2>3
    <3> QED
      BY <1>11, <2>2, <3>1, FrontierFacts
  <2>4. CASE j = n + 1
    <3>1. n \in 1..Len(peaks) /\ peaks[n].level \in Nat
      BY <1>3, <1>5, <2>1
    <3>2. peaks[n].level >= m + 1
      <4>1. CASE m = 0
        BY <1>3, <2>1, <3>1, <4>1
      <4>2. CASE m # 0
        <5>1. n + 1 \in 1..Len(peaks) /\ m - 1 \in 0..(m - 1) /\ Len(peaks) - (m - 1) = n + 1
          BY <1>3, <3>1, <4>2
        <5>2. peaks[n + 1].level = m - 1
          BY <1>3, <5>1
        <5>3. peaks[n].level >= peaks[n + 1].level + ((n + 1) - n)
          <6>1. n < n + 1
            BY <3>1
          <6> QED
            BY <3>1, <5>1, <6>1, FrontierFacts
        <5>4. peaks[n].level >= m
          BY <1>3, <3>1, <5>2, <5>3
        <5>5. peaks[n].level # m
          BY <1>3, <3>1
        <5> QED
          BY <1>3, <3>1, <5>4, <5>5
      <4> QED
        BY <4>1, <4>2
    <3>3. peaks[i].level >= peaks[n].level + (n - i)
      <4>1. CASE i = n
        BY <2>2, <3>1, <4>1
      <4>2. CASE i # n
        <5>1. i < n
          BY <2>1, <3>1, <4>2
        <5> QED
          BY <2>2, <3>1, <5>1, FrontierFacts
      <4> QED
        BY <4>1, <4>2
    <3>4. out[j].level = m /\ out[i].level = peaks[i].level
      BY <1>6, <1>7, <2>2, <2>4
    <3>5. i \in Nat /\ n \in Nat /\ m \in Nat /\ j = n + 1
      BY <1>3, <2>1, <2>4
    <3>6. peaks[i].level >= m + 1 + (n - i)
      BY <2>2, <3>1, <3>2, <3>3, <3>5
    <3>7. m + 1 + (n - i) = m + (j - i)
      BY <3>5
    <3> QED
      BY <3>4, <3>6, <3>7
  <2> QED
    BY <1>8, <2>3, <2>4
<1>12. out # <<>> /\ out[1].first = 0
  <2>1. CASE n = 0
    <3>1. out[1] = carry /\ out # <<>>
      <4>1. Len(out) = 1
        BY <1>7, <2>1
      <4> QED
        BY <1>7, <2>1, <4>1, EmptySeq
    <3>4. carry.first = IF m = 0 THEN count ELSE peaks[Len(peaks) - m + 1].first
      BY <1>2 DEF CarryFits
    <3>2. CASE peaks = <<>>
      <4>1. Len(peaks) = 0
        BY <3>2
      <4>2. m = 0
        BY <1>3, <4>1
      <4>3. count = 0
        BY <3>2, FrontierFacts
      <4> QED
        BY <3>1, <3>4, <4>2, <4>3
    <3>3. CASE peaks # <<>>
      <4>1. peaks[1].first = 0 /\ Len(peaks) # 0
        BY <3>3, FrontierFacts, EmptySeq
      <4>2. m # 0 /\ Len(peaks) - m + 1 = 1
        BY <1>3, <2>1, <4>1
      <4> QED
        BY <3>1, <3>4, <4>1, <4>2
    <3> QED
      BY <3>2, <3>3
  <2>2. CASE n # 0
    <3>1. 1 \in 1..n /\ out[1] = peaks[1] /\ 1 \in 1..Len(peaks)
      BY <1>3, <1>4, <1>7, <2>2
    <3>2. peaks # <<>> /\ Len(out) # 0
      BY <1>3, <1>7, <3>1
    <3> QED
      BY <3>1, <3>2, FrontierFacts
  <2> QED
    BY <2>1, <2>2
<1>13. IsFrontier(count + 1, out, table)
  BY <1>7, <1>9, <1>10, <1>11, <1>12 DEF IsFrontier
<1> QED
  BY <1>1, <1>13

-----------------------------------------------------------------------------
(* Landing a batch                                                         *)

\* The header is that of a range over the first positions of the table.
Heads(doc, final, count, table) ==
  /\ doc = [final |-> final, positionsComplete |-> count, peaks |-> doc.peaks,
            prefixRoot |-> [count |-> count, peaks |-> doc.peaks]]
  /\ IsFrontier(count, doc.peaks, table)

LEMMA OneRootLands ==
  ASSUME NEW doc, NEW final, NEW count \in Positions, NEW table,
         Heads(doc, final, count, table),
         NEW positionRoot \in PositionRoots, table[count] = positionRoot
  PROVE  Heads(appendPosition(doc, positionRoot), final, count + 1, table)
<1> DEFINE peaks == doc.peaks
           appended == mmrAppend(count, peaks, positionRoot)
           after == [final |-> final, positionsComplete |-> appended.count,
                     peaks |-> appended.peaks, prefixRoot |-> appended.root]
<1>1. /\ doc = [final |-> final, positionsComplete |-> count, peaks |-> peaks,
                prefixRoot |-> [count |-> count, peaks |-> peaks]]
      /\ IsFrontier(count, peaks, table)
  BY DEF Heads
<1>2. doc.positionsComplete = count /\ doc.final = final
  BY <1>1
<1>3. /\ appended.count = count + 1
      /\ appended.root = [count |-> count + 1, peaks |-> appended.peaks]
      /\ IsFrontier(count + 1, appended.peaks, table)
  BY <1>1, AppendFrontier
<1> HIDE DEF appended, peaks
<1>4. appendPosition(doc, positionRoot) = after
  <2>1. appendPosition(doc, positionRoot)
          = [doc EXCEPT !.positionsComplete = appended.count,
                        !.peaks = appended.peaks,
                        !.prefixRoot = appended.root]
    BY <1>2 DEF appendPosition, appended, peaks
  <2> QED
    BY <1>1, <2>1
<1>5. after.peaks = appended.peaks
  OBVIOUS
<1>6. after = [final |-> final, positionsComplete |-> count + 1, peaks |-> appended.peaks,
               prefixRoot |-> [count |-> count + 1, peaks |-> appended.peaks]]
  BY <1>3
<1> QED
  BY <1>3, <1>4, <1>5, <1>6 DEF Heads

LEMMA BatchLands ==
  ASSUME NEW doc, NEW final, NEW count \in Nat, NEW table, Heads(doc, final, count, table),
         NEW roots \in Seq(PositionRoots), count + Len(roots) <= PositionCount,
         \A k \in 1..Len(roots) : table[count + k - 1] = roots[k]
  PROVE  Heads(Appended(doc, roots), final, count + Len(roots), table)
<1>1. Len(roots) \in Nat /\ \A k \in 1..Len(roots) : roots[k] \in PositionRoots
  BY LenProperties, ElementOfSeq
<1>2. PICK appended :
        /\ appended[0] = doc
        /\ \A n \in 1..Len(roots) : appended[n] = appendPosition(appended[n - 1], roots[n])
        /\ Appended(doc, roots) = appended[Len(roots)]
  BY <1>1, AppendedUnfold
<1> DEFINE Landed == {n \in Nat : n <= Len(roots) => Heads(appended[n], final, count + n, table)}
<1>3. 0 \in Landed
  BY <1>2
<1>4. ASSUME NEW n \in Nat, n \in Landed PROVE n + 1 \in Landed
  <2>1. ASSUME n + 1 <= Len(roots)
        PROVE  Heads(appended[n + 1], final, count + (n + 1), table)
    <3>1. /\ n <= Len(roots)
          /\ n + 1 \in 1..Len(roots)
          /\ (n + 1) - 1 = n
          /\ count + (n + 1) - 1 = count + n
          /\ count + (n + 1) = (count + n) + 1
      BY <1>1, <2>1
    <3>2. Heads(appended[n], final, count + n, table)
      BY <1>4, <3>1
    <3>3. count + n \in Positions
      BY <1>1, <2>1, LandingAssumption DEF Positions
    <3>4. roots[n + 1] \in PositionRoots /\ table[count + n] = roots[n + 1]
      BY <1>1, <3>1
    <3>5. Heads(appendPosition(appended[n], roots[n + 1]), final, (count + n) + 1, table)
      BY <3>2, <3>3, <3>4, OneRootLands
    <3>6. appended[n + 1] = appendPosition(appended[n], roots[n + 1])
      BY <1>2, <3>1
    <3> QED
      BY <3>1, <3>5, <3>6
  <2> QED
    BY <2>1
<1> HIDE DEF Landed
<1>5. Nat \subseteq Landed
  BY <1>3, <1>4, SetInduction
<1>6. Len(roots) \in Landed /\ Len(roots) <= Len(roots)
  BY <1>1, <1>5
<1> QED
  BY <1>2, <1>6 DEF Landed

\* A range stands for no position from the count on.
LEMMA FrontierBelowCount ==
  ASSUME NEW count \in Nat, NEW peaks, NEW table, NEW table2,
         IsFrontier(count, peaks, table),
         \A p \in 0..(count - 1) : table2[p] = table[p]
  PROVE  IsFrontier(count, peaks, table2)
<1>1. ASSUME NEW i \in 1..Len(peaks), NEW k \in 1..Len(peaks[i].digest)
      PROVE  peaks[i].digest[k] = table2[peaks[i].first + k - 1]
  <2>1. /\ peaks[i].first \in Nat
        /\ Len(peaks[i].digest) \in Nat
        /\ peaks[i].first + Len(peaks[i].digest) <= count
        /\ peaks[i].digest[k] = table[peaks[i].first + k - 1]
    BY FrontierFacts, PeakTypes
  <2>2. peaks[i].first + k - 1 \in 0..(count - 1)
    BY <2>1
  <2> QED
    BY <2>1, <2>2
<1> QED
  BY <1>1 DEF IsFrontier

\* The header, its table, and how far they agree.
HeaderInv ==
  /\ document.final \in BOOLEAN
  /\ document.positionsComplete \in 0..PositionCount
  /\ Heads(document, document.final, document.positionsComplete, dpr2)
  /\ dpr2 \in [Positions -> PositionRoots \cup {null}]
  /\ \A p \in Positions : dpr2[p] # null <=> p < document.positionsComplete

LEMMA LandKeepsHeader ==
  ASSUME HeaderInv, NEW roots \in Seq(PositionRoots),
         document.positionsComplete + Len(roots) <= PositionCount,
         LandRoots(document.positionsComplete, roots)
  PROVE  /\ HeaderInv'
         /\ document'.final = document.final
         /\ document'.positionsComplete = document.positionsComplete + Len(roots)
         /\ \A p \in Positions :
              /\ p < document.positionsComplete => dpr2'[p] = dpr2[p]
              /\ document.positionsComplete <= p /\ p < document'.positionsComplete
                   => dpr2'[p] = roots[p - document.positionsComplete + 1]
<1> DEFINE first == document.positionsComplete
           final == document.final
<1>1. /\ first \in Nat
      /\ first <= PositionCount
      /\ PositionCount \in Nat
      /\ Len(roots) \in Nat
      /\ first + Len(roots) <= PositionCount
      /\ \A k \in 1..Len(roots) : roots[k] \in PositionRoots
      /\ \A p \in Positions : p \in Nat /\ p < PositionCount
  BY LandingAssumption, LenProperties, ElementOfSeq DEF HeaderInv, Positions
<1>2. Heads(document, final, first, dpr2) /\ final \in BOOLEAN
  BY DEF HeaderInv
<1>3. /\ document' = Appended(document, roots)
      /\ dpr2' = [p \in Positions |->
                    IF p \in first..(first + Len(roots) - 1)
                      THEN roots[p - first + 1] ELSE dpr2[p]]
  BY DEF LandRoots
<1> HIDE DEF first, final
<1>4. \A p \in Positions : p < first => dpr2'[p] = dpr2[p]
  BY <1>1, <1>3
<1>5. ASSUME NEW p \in Positions, first <= p, p < first + Len(roots)
      PROVE  dpr2'[p] = roots[p - first + 1] /\ p - first + 1 \in 1..Len(roots)
  <2>1. p \in Nat /\ p \in first..(first + Len(roots) - 1) /\ p - first + 1 \in 1..Len(roots)
    BY <1>1, <1>5
  <2> QED
    BY <1>3, <2>1
<1>6. Heads(document, final, first, dpr2')
  <2>1. \A p \in 0..(first - 1) : dpr2'[p] = dpr2[p]
    BY <1>1, <1>4 DEF Positions
  <2>2. IsFrontier(first, document.peaks, dpr2')
    BY <1>1, <1>2, <2>1, FrontierBelowCount DEF Heads
  <2> QED
    BY <1>2, <2>2 DEF Heads
<1>7. \A k \in 1..Len(roots) : dpr2'[first + k - 1] = roots[k]
  <2> TAKE k \in 1..Len(roots)
  <2>1. /\ first + k - 1 \in Positions
        /\ first <= first + k - 1
        /\ first + k - 1 < first + Len(roots)
        /\ (first + k - 1) - first + 1 = k
    BY <1>1 DEF Positions
  <2> QED
    BY <1>5, <2>1
<1>8. Heads(document', final, first + Len(roots), dpr2')
  BY <1>1, <1>3, <1>6, <1>7, BatchLands
<1>9. document'.positionsComplete = first + Len(roots) /\ document'.final = final
  BY <1>8 DEF Heads
<1>10. first + Len(roots) \in 0..PositionCount
  BY <1>1
<1>11. dpr2' \in [Positions -> PositionRoots \cup {null}]
  <2>1. \A p \in Positions : dpr2[p] \in PositionRoots \cup {null}
    BY DEF HeaderInv
  <2>2. ASSUME NEW p \in Positions, p \in first..(first + Len(roots) - 1)
        PROVE  roots[p - first + 1] \in PositionRoots
    <3>1. p - first + 1 \in 1..Len(roots)
      BY <1>1, <2>2
    <3> QED
      BY <1>1, <3>1
  <2> QED
    BY <1>3, <2>1, <2>2
<1>12. ASSUME NEW p \in Positions
       PROVE  dpr2'[p] # null <=> p < first + Len(roots)
  <2>1. CASE p < first
    <3>1. dpr2[p] # null
      BY <2>1 DEF HeaderInv, first
    <3> QED
      BY <1>1, <1>4, <2>1, <3>1
  <2>2. CASE first <= p /\ p < first + Len(roots)
    <3>1. dpr2'[p] \in PositionRoots
      BY <1>1, <1>5, <2>2
    <3> QED
      BY <2>2, <3>1, LandingAssumption
  <2>3. CASE first + Len(roots) <= p
    <3>1. dpr2'[p] = dpr2[p] /\ ~ (p < first) /\ ~ (p < first + Len(roots))
      BY <1>1, <1>3, <2>3
    <3>2. dpr2[p] = null
      BY <3>1 DEF HeaderInv, first
    <3> QED
      BY <3>1, <3>2
  <2> QED
    BY <1>1, <2>1, <2>2, <2>3
<1>13. HeaderInv'
  BY <1>2, <1>8, <1>9, <1>10, <1>11, <1>12 DEF HeaderInv
<1> QED
  BY <1>4, <1>5, <1>9, <1>13 DEF first, final

-----------------------------------------------------------------------------
(* The inductive invariant                                                 *)

LEMMA BatchTypes ==
  ASSUME NEW call \in Calls
  PROVE  /\ call.roots \in Seq(PositionRoots \cup {ZERO})
         /\ Len(call.roots) \in Nat
         /\ ~ HasZero(call.roots) => call.roots \in Seq(PositionRoots)
<1>1. PICK n \in 0..MaxBatch : call.roots \in [1..n -> PositionRoots \cup {ZERO}]
  BY DEF Calls, Batches
<1>2. n \in Nat
  BY LandingAssumption
<1>3. /\ call.roots \in Seq(PositionRoots \cup {ZERO})
      /\ Len(call.roots) = n
      /\ DOMAIN call.roots = 1..n
  BY <1>1, <1>2, FunctionIsSequence
<1>4. ASSUME ~ HasZero(call.roots) PROVE call.roots \in Seq(PositionRoots)
  <2>1. call.roots \in [1..n -> PositionRoots]
    BY <1>1, <1>3, <1>4 DEF HasZero
  <2> QED
    BY <1>2, <2>1, FunctionIsSequence
<1> QED
  BY <1>2, <1>3, <1>4

\* The roots before the first zero root: none of them is zero, and at least one
\* root is not among them.
LEMMA CleanRoots ==
  ASSUME NEW roots \in Seq(PositionRoots \cup {ZERO}), HasZero(roots)
  PROVE  /\ Clean(roots) \in Seq(PositionRoots)
         /\ Len(Clean(roots)) < Len(roots)
<1> DEFINE Zeros == {i \in 1..Len(roots) : roots[i] = ZERO}
           at == CHOOSE i \in Zeros : \A j \in Zeros : i <= j
<1>1. Len(roots) \in Nat /\ DOMAIN roots = 1..Len(roots)
  BY LenProperties
<1>2. Zeros # {} /\ Zeros \subseteq Nat
  BY <1>1 DEF HasZero
<1>3. at \in Zeros /\ \A j \in Zeros : at <= j
  <2> HIDE DEF Zeros
  <2>1. \E i \in Zeros : \A j \in Zeros : i <= j
    BY <1>2, LeastNumber
  <2> QED
    BY <2>1
<1>4. Clean(roots) = SubSeq(roots, 1, at - 1)
  BY <1>2 DEF Clean, SelectInSeq, Min
<1> HIDE DEF at
<1>5. at \in 1..Len(roots) /\ at \in Nat
  BY <1>1, <1>3
<1>6. \A i \in 1..(at - 1) : roots[i] \in PositionRoots
  <2> TAKE i \in 1..(at - 1)
  <2>1. i \in 1..Len(roots) /\ ~ (at <= i)
    BY <1>1, <1>5
  <2>2. roots[i] # ZERO
    BY <1>3, <2>1
  <2>3. roots[i] \in PositionRoots \cup {ZERO}
    BY <2>1, ElementOfSeq
  <2> QED
    BY <2>2, <2>3
<1>7. /\ SubSeq(roots, 1, at - 1) \in Seq(PositionRoots)
      /\ Len(SubSeq(roots, 1, at - 1)) = IF 1 <= at - 1 THEN (at - 1) - 1 + 1 ELSE 0
  <2>1. 1 \in Int /\ at - 1 \in Int
    BY <1>5
  <2> QED
    BY <1>6, <2>1, SubSeqProperties
<1> QED
  BY <1>1, <1>4, <1>5, <1>7

LEMMA InvHasHeader ==
  LandingInv => HeaderInv
BY DEF LandingInv, HeaderInv, Heads

\* The invariant, with what it says of the header and the table in one name.
HeaderInLandingInv ==
  /\ HeaderInv
  /\ sdk \in SDKs
  /\ accepted \in Seq(PositionRoots)
  /\ LandedIsAccepted
  /\ outcome \in Codes \cup {"none", "landed", "final"}

LEMMA HeaderInInv == HeaderInLandingInv => LandingInv
<1> SUFFICES ASSUME HeaderInLandingInv PROVE LandingInv
  OBVIOUS
<1>1. /\ document = [final |-> document.final, positionsComplete |-> document.positionsComplete,
                     peaks |-> document.peaks,
                     prefixRoot |-> [count |-> document.positionsComplete,
                                     peaks |-> document.peaks]]
      /\ IsFrontier(document.positionsComplete, document.peaks, dpr2)
  BY DEF HeaderInLandingInv, HeaderInv, Heads
<1>2. document.prefixRoot = [count |-> document.positionsComplete, peaks |-> document.peaks]
  BY <1>1
<1> QED
  BY <1>1, <1>2 DEF LandingInv, HeaderInLandingInv, HeaderInv

LEMMA HeaderInInvNext == HeaderInLandingInv' => LandingInv'
BY HeaderInInv, PTL

LEMMA LandingInit == Init => LandingInv
<1> SUFFICES ASSUME Init PROVE LandingInv
  OBVIOUS
<1>1. /\ document = [final |-> FALSE, positionsComplete |-> 0, peaks |-> <<>>,
                     prefixRoot |-> [count |-> 0, peaks |-> <<>>]]
      /\ dpr2 = [p \in Positions |-> null]
      /\ accepted = <<>>
      /\ outcome = "none"
      /\ sdk \in SDKs
  BY DEF Init, NoRoot
<1>2. /\ document.final = FALSE
      /\ document.positionsComplete = 0
      /\ document.peaks = <<>>
  BY <1>1
<1>3. <<>> \in Seq(Peaks) /\ <<>> \in Seq(PositionRoots) /\ Len(<<>>) = 0
  BY EmptySeq
<1>4. IsFrontier(0, <<>>, dpr2)
  BY <1>3 DEF IsFrontier
<1>5. Heads(document, document.final, document.positionsComplete, dpr2)
  BY <1>1, <1>2, <1>4 DEF Heads
<1>6. PositionCount \in Nat /\ \A p \in Positions : p \in Nat /\ ~ (p < 0)
  BY LandingAssumption DEF Positions
<1>7. \A p \in Positions : dpr2[p] # null <=> p < document.positionsComplete
  BY <1>1, <1>2, <1>6
<1>10. /\ document.final \in BOOLEAN
       /\ document.positionsComplete \in 0..PositionCount
       /\ dpr2 \in [Positions -> PositionRoots \cup {null}]
  BY <1>1, <1>2, <1>6
<1>8. HeaderInv
  BY <1>5, <1>7, <1>10 DEF HeaderInv
<1>9. LandedIsAccepted
  BY <1>1, <1>2, <1>3 DEF LandedIsAccepted
<1> QED
  BY <1>1, <1>3, <1>8, <1>9, HeaderInInv DEF HeaderInLandingInv, Codes

\* A call no check refuses begins where the document ends and fits in it.
LEMMA RefusalNone ==
  ASSUME LandingInv, NEW call \in Calls, Refusal(call) = "none"
  PROVE  /\ call.first = document.positionsComplete
         /\ document.positionsComplete + Len(call.roots) <= PositionCount
         /\ ~ document.final
<1>1. /\ ~ document.final
      /\ call.first = document.positionsComplete
      /\ ~ (call.first + Len(call.roots) > PositionCount)
  BY DEF Refusal
<1>2. call.first + Len(call.roots) \in Int /\ PositionCount \in Int
  BY <1>1, BatchTypes, LandingAssumption DEF LandingInv
<1> QED
  BY <1>1, <1>2

LEMMA RefusalIsCode ==
  ASSUME NEW call PROVE Refusal(call) \in Codes \cup {"none"}
BY DEF Refusal, Codes

LEMMA RefuseKeeps ==
  ASSUME LandingInv, UNCHANGED sdk, NEW code \in Codes, Refuse(code)
  PROVE  LandingInv'
BY DEF Refuse, LandingInv, LandedIsAccepted

\* A call that returns enters its roots in the header, the table and the list.
LEMMA AcceptKeeps ==
  ASSUME LandingInv, UNCHANGED sdk, NEW call \in Calls, Refusal(call) = "none",
         ~ HasZero(call.roots), Accept(call)
  PROVE  LandingInv'
<1> DEFINE first == document.positionsComplete
<1>1. HeaderInv /\ first \in Nat /\ accepted \in Seq(PositionRoots)
  BY InvHasHeader, LandingAssumption DEF LandingInv
<1>2. call.roots \in Seq(PositionRoots) /\ Len(call.roots) \in Nat
  BY BatchTypes
<1>3. call.first = first /\ first + Len(call.roots) <= PositionCount
  BY RefusalNone
<1>4. LandRoots(first, call.roots) /\ accepted' = accepted \o call.roots /\ outcome' = "landed"
  BY <1>3 DEF Accept
<1>5. /\ HeaderInv'
      /\ document'.positionsComplete = first + Len(call.roots)
      /\ \A p \in Positions :
           /\ p < first => dpr2'[p] = dpr2[p]
           /\ first <= p /\ p < document'.positionsComplete
                => dpr2'[p] = call.roots[p - first + 1]
  BY <1>1, <1>2, <1>3, <1>4, LandKeepsHeader
<1>6. /\ accepted' \in Seq(PositionRoots)
      /\ Len(accepted') = Len(accepted) + Len(call.roots)
      /\ \A k \in 1..(Len(accepted) + Len(call.roots)) :
           accepted'[k] = IF k <= Len(accepted) THEN accepted[k]
                                                ELSE call.roots[k - Len(accepted)]
  <2>1. accepted \in Seq(PositionRoots) /\ call.roots \in Seq(PositionRoots)
    BY <1>1, <1>2
  <2>2. /\ accepted \o call.roots \in Seq(PositionRoots)
        /\ Len(accepted \o call.roots) = Len(accepted) + Len(call.roots)
        /\ \A k \in 1..(Len(accepted) + Len(call.roots)) :
             (accepted \o call.roots)[k]
               = IF k <= Len(accepted) THEN accepted[k] ELSE call.roots[k - Len(accepted)]
    BY <2>1, ConcatProperties, Zenon
  <2> QED
    BY <1>4, <2>2
<1>7. LandedIsAccepted'
  <2> SUFFICES ASSUME sdk = "python"
               PROVE  /\ document'.positionsComplete = Len(accepted')
                      /\ \A p \in 0..(Len(accepted') - 1) : dpr2'[p] = accepted'[p + 1]
    BY DEF LandedIsAccepted
  <2>1. first = Len(accepted) /\ \A p \in 0..(Len(accepted) - 1) : dpr2[p] = accepted[p + 1]
    BY DEF LandingInv, LandedIsAccepted
  <2> HIDE DEF first
  <2>2. document'.positionsComplete = Len(accepted')
    BY <1>5, <1>6, <2>1
  <2>3. ASSUME NEW p \in 0..(Len(accepted') - 1) PROVE dpr2'[p] = accepted'[p + 1]
    <3>1. /\ p \in Nat
          /\ p \in Positions
          /\ p < first + Len(call.roots)
          /\ p + 1 \in 1..(Len(accepted) + Len(call.roots))
      BY <1>1, <1>2, <1>3, <1>6, <2>1, LandingAssumption DEF Positions
    <3>2. CASE p < first
      <4>1. p \in 0..(Len(accepted) - 1) /\ p + 1 <= Len(accepted)
        BY <1>1, <2>1, <3>1, <3>2
      <4> QED
        BY <1>5, <1>6, <2>1, <3>1, <3>2, <4>1
    <3>3. CASE ~ (p < first)
      <4>1. first <= p /\ ~ (p + 1 <= Len(accepted)) /\ p - first + 1 = p + 1 - Len(accepted)
        BY <1>1, <2>1, <3>1, <3>3
      <4>2. dpr2'[p] = call.roots[p - first + 1]
        BY <1>5, <3>1, <4>1
      <4> QED
        BY <1>6, <3>1, <4>1, <4>2
    <3> QED
      BY <3>2, <3>3
  <2> QED
    BY <2>2, <2>3
<1>8. sdk' \in SDKs /\ outcome' \in Codes \cup {"none", "landed", "final"}
  BY <1>4 DEF LandingInv
<1>9. HeaderInLandingInv'
  BY <1>5, <1>6, <1>7, <1>8 DEF HeaderInLandingInv
<1>10. HeaderInLandingInv' => LandingInv'
  BY HeaderInInvNext
<1> QED
  BY <1>9, <1>10

\* The TypeScript call that meets a zero root leaves the roots before it landed:
\* the header and the table still agree, and only the Python list is about calls.
LEMMA PartialKeeps ==
  ASSUME LandingInv, sdk # "python", UNCHANGED <<sdk, accepted>>,
         NEW call \in Calls, Refusal(call) = "none", HasZero(call.roots),
         LandRoots(call.first, Clean(call.roots)), outcome' = "CL_ROOT"
  PROVE  LandingInv'
<1> DEFINE first == document.positionsComplete
<1>1. HeaderInv /\ first \in Nat /\ PositionCount \in Nat
  BY InvHasHeader, LandingAssumption DEF LandingInv
<1>2. /\ Clean(call.roots) \in Seq(PositionRoots)
      /\ Len(Clean(call.roots)) < Len(call.roots)
      /\ Len(call.roots) \in Nat
      /\ Len(Clean(call.roots)) \in Nat
  BY BatchTypes, CleanRoots, LenProperties
<1>3. call.first = first /\ first + Len(call.roots) <= PositionCount
  BY RefusalNone
<1>4. first + Len(Clean(call.roots)) <= PositionCount
  BY <1>1, <1>2, <1>3
<1>5. HeaderInv'
  BY <1>1, <1>2, <1>3, <1>4, LandKeepsHeader
<1>6. /\ sdk' \in SDKs
      /\ accepted' \in Seq(PositionRoots)
      /\ LandedIsAccepted'
      /\ outcome' \in Codes \cup {"none", "landed", "final"}
  BY DEF LandingInv, LandedIsAccepted, Codes
<1>7. HeaderInLandingInv'
  BY <1>5, <1>6 DEF HeaderInLandingInv
<1> QED
  BY <1>7, HeaderInInvNext

LEMMA FinalizeKeeps ==
  ASSUME LandingInv, UNCHANGED sdk, Finalize PROVE LandingInv'
<1>1. /\ document = [final |-> document.final, positionsComplete |-> document.positionsComplete,
                     peaks |-> document.peaks, prefixRoot |-> document.prefixRoot]
      /\ document' = [document EXCEPT !.final = TRUE]
      /\ UNCHANGED <<dpr2, accepted>>
      /\ outcome' = "final"
  BY DEF LandingInv, Finalize
<1>2. document' = [final |-> TRUE, positionsComplete |-> document.positionsComplete,
                   peaks |-> document.peaks, prefixRoot |-> document.prefixRoot]
  BY <1>1
<1>3. /\ document'.final = TRUE
      /\ document'.positionsComplete = document.positionsComplete
      /\ document'.peaks = document.peaks
      /\ document'.prefixRoot = document.prefixRoot
  BY <1>2
<1> QED
  BY <1>1, <1>2, <1>3 DEF LandingInv, LandedIsAccepted

LEMMA LandingStep == LandingInv /\ [Next]_vars => LandingInv'
<1> SUFFICES ASSUME LandingInv, [Next]_vars PROVE LandingInv'
  OBVIOUS
<1>1. CASE Finalize /\ UNCHANGED sdk
  BY <1>1, FinalizeKeeps
<1>2. ASSUME NEW call \in Calls, Land(call), UNCHANGED sdk PROVE LandingInv'
  <2>1. CASE Refusal(call) # "none" /\ Refuse(Refusal(call))
    <3>1. Refusal(call) \in Codes
      BY <2>1, RefusalIsCode
    <3> QED
      BY <1>2, <2>1, <3>1, RefuseKeeps
  <2>2. CASE Refusal(call) = "none" /\ ~ HasZero(call.roots) /\ Accept(call)
    BY <1>2, <2>2, AcceptKeeps
  <2>3. CASE Refuse("CL_ROOT")
    <3>1. "CL_ROOT" \in Codes
      BY DEF Codes
    <3> QED
      BY <1>2, <2>3, <3>1, RefuseKeeps
  <2>4. CASE /\ sdk # "python"
             /\ Refusal(call) = "none"
             /\ HasZero(call.roots)
             /\ LandRoots(call.first, Clean(call.roots))
             /\ outcome' = "CL_ROOT"
             /\ UNCHANGED accepted
    BY <1>2, <2>4, PartialKeeps
  <2> QED
    BY <1>2, <2>1, <2>2, <2>3, <2>4 DEF Land, land_position_roots, landPositionRoots
<1>3. CASE UNCHANGED vars
  BY <1>3 DEF vars, LandingInv, LandedIsAccepted
<1> QED
  BY <1>1, <1>2, <1>3 DEF Next

-----------------------------------------------------------------------------
(* The theorems                                                            *)

\* The invariant behind the rest: the peaks are a mountain range over the landed
\* positions of the table, after any sequence of calls, refused ones included.
THEOREM LandingInductive == Spec => []LandingInv
BY LandingInit, LandingStep, PTL DEF Spec

\* The header has room for its peaks: each level is above the next by at least
\* one, the first peak stands for no more than COUNT_MAX positions, and those
\* have fewer than PEAK_SLOTS + 1 binary digits.
LEMMA PeaksFit ==
  ASSUME LandingInv PROVE Len(document.peaks) <= PEAK_SLOTS
<1> DEFINE peaks == document.peaks
           count == document.positionsComplete
           levels == Len(peaks)
<1>1. /\ IsFrontier(count, peaks, dpr2)
      /\ count \in Nat
      /\ count <= COUNT_MAX
      /\ COUNT_MAX \in Nat
      /\ PEAK_SLOTS \in Nat
      /\ COUNT_MAX < pow2[PEAK_SLOTS]
  BY LandingAssumption DEF LandingInv
<1> HIDE DEF peaks, count
<1>2. levels \in Nat
  BY <1>1, FrontierFacts, PeakTypes
<1>10. levels = Len(peaks)
  OBVIOUS
<1> HIDE DEF levels
<1>3. CASE levels = 0
  BY <1>1, <1>3, <1>10 DEF peaks
<1>4. CASE levels # 0
  <2>1. 1 \in 1..levels /\ levels \in 1..levels
    BY <1>2, <1>4
  <2>2. /\ peaks[1].level \in Nat
        /\ peaks[levels].level \in Nat
        /\ peaks[1].first \in Nat
        /\ Len(peaks[1].digest) = pow2[peaks[1].level]
        /\ peaks[1].first + Len(peaks[1].digest) <= count
    BY <1>1, <1>10, <2>1, FrontierFacts, PeakTypes
  <2>3. peaks[1].level >= peaks[levels].level + (levels - 1)
    <3>1. CASE levels = 1
      BY <2>2, <3>1
    <3>2. CASE levels # 1
      <4>1. 1 < levels
        BY <1>2, <1>4, <3>2
      <4> QED
        BY <1>1, <1>10, <2>1, <4>1, FrontierFacts
    <3> QED
      BY <3>1, <3>2
  <2>4. pow2[peaks[1].level] \in Nat /\ pow2[PEAK_SLOTS] \in Nat
    BY <1>1, <2>2, Pow2Values
  <2>5. pow2[peaks[1].level] < pow2[PEAK_SLOTS]
    BY <1>1, <2>2, <2>4
  <2>6. ~ (PEAK_SLOTS <= peaks[1].level)
    <3>1. ASSUME PEAK_SLOTS <= peaks[1].level PROVE FALSE
      <4>1. pow2[PEAK_SLOTS] <= pow2[peaks[1].level]
        BY <1>1, <2>2, <3>1, Pow2Grows
      <4> QED
        BY <2>4, <2>5, <4>1
    <3> QED
      BY <3>1
  <2>7. levels - 1 < PEAK_SLOTS
    BY <1>1, <1>2, <2>2, <2>3, <2>6
  <2>8. levels <= PEAK_SLOTS
    BY <1>1, <1>2, <2>7
  <2> QED
    BY <1>10, <2>8 DEF peaks
<1> QED
  BY <1>3, <1>4

\* The header and its table have the shape the encoder writes; the peaks never
\* outgrow the slots the header keeps for them.
THEOREM LandingTypeCorrect == Spec => []TypeOK
<1>1. ASSUME LandingInv PROVE TypeOK
  <2>1. \A i \in DOMAIN document.peaks : document.peaks[i] \in Peaks
    <3>1. document.peaks \in Seq(Peaks)
      BY <1>1 DEF LandingInv, IsFrontier
    <3> QED
      BY <3>1, LenProperties, ElementOfSeq
  <2>2. Len(document.peaks) <= PEAK_SLOTS
    BY <1>1, PeaksFit
  <2> QED
    BY <1>1, <2>1, <2>2 DEF LandingInv, TypeOK
<1> QED
  BY <1>1, LandingInductive, PTL

\* Whatever was landed, and whichever library landed it, the peaks are full, in
\* strictly falling levels, without a gap, over the very roots in the table; the
\* prefix root is theirs, and the next append finds that its peaks meet.
THEOREM HeaderStandsForTable == Spec => []FrontierMatchesTable
<1>1. ASSUME LandingInv PROVE FrontierMatchesTable
  <2> DEFINE peaks == document.peaks
             count == document.positionsComplete
  <2>1. /\ IsFrontier(count, peaks, dpr2)
        /\ document.prefixRoot = [count |-> count, peaks |-> peaks]
        /\ \A p \in Positions : dpr2[p] # null <=> p < count
    BY <1>1 DEF LandingInv
  <2> HIDE DEF peaks, count
  <2>2. Len(peaks) \in Nat /\ DOMAIN peaks = 1..Len(peaks)
    BY <2>1, FrontierFacts, LenProperties
  <2>3. ASSUME NEW i \in DOMAIN peaks
        PROVE  /\ Len(peaks[i].digest) = pow2[peaks[i].level]
               /\ i > 1 => peaks[i].level < peaks[i - 1].level
               /\ \A k \in DOMAIN peaks[i].digest :
                    peaks[i].digest[k] = dpr2[peaks[i].first + k - 1]
               /\ peaks[i].first + Len(peaks[i].digest)
                    = IF i = Len(peaks) THEN count ELSE peaks[i + 1].first
    <3>1. i \in 1..Len(peaks)
      BY <2>2
    <3>2. DOMAIN peaks[i].digest = 1..Len(peaks[i].digest)
      BY <2>1, <3>1, FrontierFacts, PeakTypes, LenProperties
    <3>3. ASSUME i > 1 PROVE peaks[i].level < peaks[i - 1].level
      <4>1. i - 1 \in 1..Len(peaks) /\ i - 1 < i /\ i - (i - 1) = 1
        BY <2>2, <3>1, <3>3
      <4>4. peaks[i - 1].level >= peaks[i].level + (i - (i - 1))
        BY <2>1, <3>1, <4>1, FrontierFacts
      <4>2. peaks[i - 1].level >= peaks[i].level + 1
        BY <4>1, <4>4
      <4>3. peaks[i - 1].level \in Nat /\ peaks[i].level \in Nat
        BY <2>1, <3>1, <4>1, FrontierFacts, PeakTypes
      <4> QED
        BY <4>2, <4>3
    <3> QED
      BY <2>1, <3>1, <3>2, <3>3, FrontierFacts
  <2>4. IF peaks = <<>> THEN count = 0 ELSE peaks[1].first = 0
    BY <2>1, FrontierFacts
  <2>5. MergesMeet(count, peaks)
    <3> SUFFICES ASSUME NEW i \in 0..(MergedPeaks(peaks) - 1)
                 PROVE  LET left  == peaks[Len(peaks) - i]
                            right == IF i = 0 THEN count ELSE peaks[Len(peaks) - i + 1].first
                        IN  left.first + pow2[left.level] = right
      BY DEF MergesMeet
    <3> DEFINE m == MergedPeaks(peaks)
    <3>2. m \in 0..Len(peaks) /\ i \in 0..(m - 1)
      BY <2>2, MergedFacts
    <3> HIDE DEF m
    <3>3. m \in Nat /\ m <= Len(peaks) /\ i \in Nat /\ i < m
      BY <2>2, <3>2
    <3>1. Len(peaks) - i \in 1..Len(peaks)
      BY <2>2, <3>3
    <3>4. /\ Len(peaks[Len(peaks) - i].digest) = pow2[peaks[Len(peaks) - i].level]
          /\ peaks[Len(peaks) - i].first + Len(peaks[Len(peaks) - i].digest)
               = IF Len(peaks) - i = Len(peaks) THEN count ELSE peaks[(Len(peaks) - i) + 1].first
      BY <2>1, <3>1, FrontierFacts
    <3>5. CASE i = 0
      <4>1. Len(peaks) - i = Len(peaks)
        BY <2>2, <3>5
      <4> QED
        BY <3>4, <3>5, <4>1
    <3>6. CASE i # 0
      <4>1. Len(peaks) - i # Len(peaks)
        <5> DEFINE n == Len(peaks)
        <5>1. n \in Nat /\ i \in Nat /\ i # 0
          BY <2>2, <3>3, <3>6
        <5> HIDE DEF n
        <5>2. n - i < n
          BY <5>1
        <5> QED
          BY <5>1, <5>2 DEF n
      <4> QED
        BY <3>4, <3>6, <4>1
    <3> QED
      BY <3>5, <3>6
  <2> QED
    BY <2>1, <2>3, <2>4, <2>5 DEF FrontierMatchesTable, peaks, count
<1> QED
  BY <1>1, LandingInductive, PTL

\* However the roots are cut into batches, and whatever is refused in between, the
\* Python table holds the roots of the calls that returned, in their order.
THEOREM PythonTableIsAccepted == Spec => []LandedIsAccepted
<1>1. LandingInv => LandedIsAccepted
  BY DEF LandingInv
<1> QED
  BY <1>1, LandingInductive, PTL

\* A Python call that is refused has changed neither the header nor the table.
THEOREM PythonRefusesWhole == Spec => PythonRefusalChangesNothing
<1>1. ASSUME [Next]_vars
      PROVE  [sdk = "python" /\ outcome' \in Codes => UNCHANGED <<document, dpr2>>]_vars
  <2> SUFFICES ASSUME Next, sdk = "python", outcome' \in Codes
               PROVE  UNCHANGED <<document, dpr2>>
    BY <1>1
  <2>1. CASE Finalize
    BY <2>1 DEF Finalize, Codes
  <2>2. ASSUME NEW call \in Calls, Land(call) PROVE UNCHANGED <<document, dpr2>>
    BY <2>2 DEF Land, land_position_roots, Refuse, Accept, Codes
  <2> QED
    BY <2>1, <2>2 DEF Next
<1> QED
  BY <1>1, PTL DEF Spec, PythonRefusalChangesNothing
=============================================================================
