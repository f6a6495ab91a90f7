---------------------------- MODULE TreesProofs -----------------------------
(***************************************************************************)
(* Proofs about the trees: a path folds a leaf to the root of a list only  *)
(* if it is the path of that leaf in that list, so a verifier that holds   *)
(* the root of a position accepts an attestation of an output exactly if   *)
(* it is the committer's; and lists with one root are one list.  They hold *)
(* for segments and positions of any size.                                 *)
(***************************************************************************)
EXTENDS Trees, DataLemmas, FiniteSetTheorems

-----------------------------------------------------------------------------
(* The number of binary digits                                             *)

\* The number of binary digits, for numbers as large as one likes.
LEMMA BitLengthUnfold ==
  bitLength = [n \in Nat |-> IF n = 0 THEN 0 ELSE 1 + bitLength[n \div 2]]
<1> DEFINE Fits(g, n) == g = [m \in 0..n |-> IF m = 0 THEN 0 ELSE 1 + g[m \div 2]]
           Some == {n \in Nat : \E g : Fits(g, n)}
           Upto(n) == CHOOSE g : Fits(g, n)
           all == [n \in Nat |-> Upto(n)[n]]
<1>0. \A m \in Nat \ {0} : m \div 2 \in 0..(m - 1)
  OBVIOUS
<1>1. 0 \in Some
  <2>1. Fits([m \in 0..0 |-> 0], 0)
    OBVIOUS
  <2> QED
    BY <2>1
<1>2. ASSUME NEW n \in Nat, n \in Some PROVE n + 1 \in Some
  <2>1. PICK g : Fits(g, n)
    BY <1>2
  <2> DEFINE h == [m \in 0..(n + 1) |-> IF m <= n THEN g[m] ELSE 1 + g[(n + 1) \div 2]]
  <2>2. ASSUME NEW m \in 0..(n + 1) PROVE h[m] = IF m = 0 THEN 0 ELSE 1 + h[m \div 2]
    <3>1. CASE m = 0
      BY <2>1, <3>1
    <3>2. CASE m \in 1..n
      <4>1. m \div 2 \in 0..n
        BY <1>0, <3>2
      <4> QED
        BY <2>1, <3>2, <4>1
    <3>3. CASE m = n + 1
      <4>1. m \div 2 \in 0..n
        BY <1>0, <3>3
      <4> QED
        BY <2>1, <3>3, <4>1
    <3> QED
      BY <3>1, <3>2, <3>3
  <2>3. Fits(h, n + 1)
    BY <2>2
  <2> HIDE DEF Fits, h
  <2>4. n + 1 \in Nat /\ \E f : Fits(f, n + 1)
    BY <2>3
  <2> QED
    BY <2>4
<1>3. Nat \subseteq Some
  BY <1>1, <1>2, SetInduction
<1>4. ASSUME NEW n \in Nat
      PROVE  Fits(Upto(n), n)
  <2>1. \E g : Fits(g, n)
    BY <1>3
  <2> HIDE DEF Fits
  <2> QED
    BY <2>1
<1>5. ASSUME NEW n \in Nat, NEW k \in 0..n PROVE Upto(n)[k] = Upto(k)[k]
  <2> DEFINE longer  == Upto(n)
             shorter == Upto(k)
             Same == {m \in Nat : \A l \in 0..m : l <= k => shorter[l] = longer[l]}
  <2>1. /\ longer = [m \in 0..n |-> IF m = 0 THEN 0 ELSE 1 + longer[m \div 2]]
        /\ shorter = [m \in 0..k |-> IF m = 0 THEN 0 ELSE 1 + shorter[m \div 2]]
    <3>1. k \in Nat
      OBVIOUS
    <3>2. Fits(longer, n)
      BY <1>4
    <3> HIDE DEF longer
    <3>3. Fits(shorter, k)
      BY <1>4, <3>1
    <3> HIDE DEF shorter
    <3> QED
      BY <3>2, <3>3
  <2> HIDE DEF shorter, longer
  <2>2. 0 \in Same
    BY <2>1
  <2>3. ASSUME NEW m \in Nat, m \in Same PROVE m + 1 \in Same
    <3> SUFFICES ASSUME m + 1 <= k PROVE shorter[m + 1] = longer[m + 1]
      BY <2>3
    <3>1. (m + 1) \div 2 \in 0..m /\ m + 1 \in 0..k /\ m + 1 \in 0..n /\ m + 1 # 0
      BY <1>0
    <3>2. shorter[(m + 1) \div 2] = longer[(m + 1) \div 2]
      BY <2>3, <3>1
    <3>3. /\ shorter[m + 1] = 1 + shorter[(m + 1) \div 2]
          /\ longer[m + 1] = 1 + longer[(m + 1) \div 2]
      BY <2>1, <3>1
    <3> QED
      BY <3>2, <3>3
  <2> HIDE DEF Same
  <2>4. k \in Same
    BY <2>2, <2>3, SetInduction
  <2>5. k \in Nat /\ k \in 0..k /\ k <= k
    OBVIOUS
  <2>6. shorter[k] = longer[k]
    BY <2>4, <2>5 DEF Same
  <2> QED
    BY <2>6 DEF shorter, longer
<1>6. ASSUME NEW n \in Nat PROVE all[n] = IF n = 0 THEN 0 ELSE 1 + all[n \div 2]
  <2> DEFINE upto == Upto(n)
  <2>1. upto = [m \in 0..n |-> IF m = 0 THEN 0 ELSE 1 + upto[m \div 2]]
    BY <1>4
  <2>2. CASE n = 0
    <3> HIDE DEF upto
    <3>1. upto[n] = 0
      BY <2>1, <2>2
    <3> QED
      BY <2>2, <3>1 DEF upto
  <2>3. CASE n # 0
    <3>1. n \div 2 \in 0..n /\ n \div 2 \in Nat
      BY <1>0, <2>3
    <3>2. Upto(n)[n \div 2] = Upto(n \div 2)[n \div 2]
      BY <1>5, <3>1
    <3>3. all[n] = upto[n] /\ all[n \div 2] = upto[n \div 2]
      BY <3>1, <3>2
    <3> HIDE DEF upto, all
    <3>4. upto[n] = 1 + upto[n \div 2]
      BY <2>1, <2>3
    <3> QED
      BY <2>3, <3>3, <3>4
  <2> QED
    BY <2>2, <2>3
<1>7. all = [n \in Nat |-> IF n = 0 THEN 0 ELSE 1 + all[n \div 2]]
  <2>1. all = [n \in Nat |-> all[n]]
    OBVIOUS
  <2> HIDE DEF all
  <2> QED
    BY <1>6, <2>1
<1> HIDE DEF all
<1>8. \E f : f = [n \in Nat |-> IF n = 0 THEN 0 ELSE 1 + f[n \div 2]]
  BY <1>7
<1> QED
  BY <1>8 DEF bitLength

\* What the recursion computes: no more digits than the number is large.
LEMMA BitLengthValues ==
  /\ bitLength[0] = 0
  /\ \A n \in Nat \ {0} : bitLength[n] = 1 + bitLength[n \div 2]
  /\ \A n \in Nat : bitLength[n] \in 0..n
<1> DEFINE bits == bitLength
           Upto == {n \in Nat : \A m \in 0..n : bits[m] \in 0..m}
<1>0. \A m \in Nat \ {0} : m \div 2 \in 0..(m - 1)
  OBVIOUS
<1>1. bits = [n \in Nat |-> IF n = 0 THEN 0 ELSE 1 + bits[n \div 2]]
  BY BitLengthUnfold
<1> HIDE DEF bits
<1>2. bits[0] = 0 /\ \A n \in Nat \ {0} : bits[n] = 1 + bits[n \div 2]
  BY <1>1
<1>3. 0 \in Upto
  BY <1>2
<1>4. ASSUME NEW n \in Nat, n \in Upto PROVE n + 1 \in Upto
  <2>1. (n + 1) \div 2 \in 0..n
    BY <1>0
  <2>2. bits[(n + 1) \div 2] \in 0..((n + 1) \div 2)
    BY <1>4, <2>1
  <2>3. bits[n + 1] = 1 + bits[(n + 1) \div 2]
    BY <1>2
  <2>4. bits[n + 1] \in 0..(n + 1)
    BY <2>1, <2>2, <2>3
  <2> QED
    BY <1>4, <2>4
<1> HIDE DEF Upto
<1>5. Nat \subseteq Upto
  BY <1>3, <1>4, SetInduction
<1>6. ASSUME NEW n \in Nat PROVE bits[n] \in 0..n
  <2>1. n \in 0..n
    OBVIOUS
  <2> QED
    BY <1>5, <2>1 DEF Upto
<1> QED
  BY <1>2, <1>6 DEF bits

\* A number whose digits are none is zero.
LEMMA NoDigits == ASSUME NEW n \in Nat, bitLength[n] = 0 PROVE n = 0
<1> SUFFICES ASSUME n # 0 PROVE FALSE
  OBVIOUS
<1>1. n \div 2 \in Nat
  OBVIOUS
<1>2. bitLength[n] = 1 + bitLength[n \div 2] /\ bitLength[n \div 2] \in Nat
  BY <1>1, BitLengthValues
<1> QED
  BY <1>2

-----------------------------------------------------------------------------
(* Lists of anything                                                       *)

\* A list, whatever it is a list of: the digests of a path are of no one set.
IsList(s) == s \in Seq({s[i] : i \in DOMAIN s})

\* The length of a list, as a name the provers know no theory of.
Width(s) == Len(s)

\* A function on 1..m is a list of m elements.
LEMMA ListOfFunction ==
  ASSUME NEW m \in Nat, NEW f, f = [i \in 1..m |-> f[i]]
  PROVE  IsList(f) /\ Len(f) = m /\ DOMAIN f = 1..m
<1>1. f \in [1..m -> {f[i] : i \in 1..m}] /\ DOMAIN f = 1..m
  OBVIOUS
<1>2. f \in Seq({f[i] : i \in 1..m}) /\ Len(f) = m
  BY <1>1, FunctionIsSequence
<1> QED
  BY <1>1, <1>2 DEF IsList

\* A list is the function of its elements.
LEMMA ListFacts ==
  ASSUME NEW s, IsList(s)
  PROVE  Len(s) \in Nat /\ DOMAIN s = 1..Len(s) /\ s = [i \in 1..Len(s) |-> s[i]]
BY LenProperties DEF IsList

\* A list with an element appended.
LEMMA AppendList ==
  ASSUME NEW s, IsList(s), NEW x
  PROVE  /\ IsList(Append(s, x))
         /\ Len(Append(s, x)) = Len(s) + 1
         /\ Append(s, x)[Len(s) + 1] = x
         /\ \A i \in 1..Len(s) : Append(s, x)[i] = s[i]
<1> DEFINE S == {s[i] : i \in DOMAIN s} \cup {x}
           t == Append(s, x)
<1>1. s \in Seq(S) /\ x \in S
  BY SeqMonotonic DEF IsList
<1> HIDE DEF S
<1>2. /\ t \in Seq(S)
      /\ Len(t) = Len(s) + 1
      /\ t[Len(s) + 1] = x
      /\ \A i \in 1..Len(s) : t[i] = s[i]
  BY <1>1, AppendProperties
<1> HIDE DEF t
<1>3. Len(t) \in Nat /\ t = [i \in 1..Len(t) |-> t[i]]
  BY <1>2, LenProperties
<1>4. IsList(t)
  BY <1>3, ListOfFunction
<1> QED
  BY <1>2, <1>4 DEF t

\* A list of one element.
LEMMA SingleList == ASSUME NEW x PROVE IsList(<<x>>) /\ Len(<<x>>) = 1 /\ <<x>>[1] = x
BY DEF IsList

\* The length of such a function by its other name.
LEMMA WidthOfFunction ==
  ASSUME NEW m \in Nat, NEW f, f = [i \in 1..m |-> f[i]]
  PROVE  IsList(f) /\ Width(f) = m
BY ListOfFunction DEF Width

\* The same of the lists the trees are made of.
LEMMA AppendWidth ==
  ASSUME NEW s, IsList(s), NEW x, NEW t, t = Append(s, x)
  PROVE  /\ IsList(t)
         /\ Width(s) \in Nat
         /\ Width(t) = Width(s) + 1
         /\ t[Width(s) + 1] = x
BY ListFacts, AppendList DEF Width

\* What is appended leaves the rest as it was.
LEMMA AppendKeeps ==
  ASSUME NEW s, IsList(s), NEW x, NEW t, t = Append(s, x), NEW i \in 1..Width(s)
  PROVE  t[i] = s[i]
BY ListFacts, AppendList DEF Width

-----------------------------------------------------------------------------
(* The levels of a tree                                                    *)

\* The levels of a tree after h rounds: the leaves, and one more as long as the last
\* has more than one node.
Leaves(values) == [i \in 1..Len(values) |-> LeafNode(values[i], i - 1)]
Taller(descriptor, kind, scope, h, built) ==
  IF Len(built[Len(built)]) = 1 THEN built
  ELSE Append(built, LevelAbove(descriptor, kind, scope, h, built[Len(built)]))

\* The lists of levels round by round, as many rounds as there are leaves.
IsRounds(rounds, descriptor, kind, scope, values) ==
  /\ rounds[0] = <<Leaves(values)>>
  /\ \A h \in Nat : rounds[h + 1] = Taller(descriptor, kind, scope, h + 1, rounds[h])
  /\ duplicateLevels(descriptor, kind, scope, values) = rounds[Len(values)]

\* The levels of duplicateLevels are such rounds.
LEMMA LevelsUnfold ==
  ASSUME NEW descriptor, NEW kind, NEW scope, NEW values
  PROVE  \E rounds : IsRounds(rounds, descriptor, kind, scope, values)
<1> DEFINE base == <<Leaves(values)>>
           Step(h, built) == Taller(descriptor, kind, scope, h, built)
           Fits(g, n) == g = [m \in 0..n |-> IF m = 0 THEN base ELSE Step(m, g[m - 1])]
           Some == {n \in Nat : \E g : Fits(g, n)}
           Upto(n) == CHOOSE g : Fits(g, n)
           all == [n \in Nat |-> Upto(n)[n]]
<1> HIDE DEF base, Step
<1>1. 0 \in Some
  <2>1. Fits([m \in 0..0 |-> base], 0)
    OBVIOUS
  <2> QED
    BY <2>1
<1>2. ASSUME NEW n \in Nat, n \in Some PROVE n + 1 \in Some
  <2>1. PICK g : Fits(g, n)
    BY <1>2
  <2> DEFINE h == [m \in 0..(n + 1) |-> IF m <= n THEN g[m] ELSE Step(n + 1, g[n])]
  <2>2. ASSUME NEW m \in 0..(n + 1) PROVE h[m] = IF m = 0 THEN base ELSE Step(m, h[m - 1])
    <3>1. CASE m = 0
      BY <2>1, <3>1
    <3>2. CASE m \in 1..n
      BY <2>1, <3>2
    <3>3. CASE m = n + 1
      BY <3>3
    <3> QED
      BY <3>1, <3>2, <3>3
  <2>3. Fits(h, n + 1)
    BY <2>2
  <2> HIDE DEF Fits, h
  <2>4. n + 1 \in Nat /\ \E f : Fits(f, n + 1)
    BY <2>3
  <2> QED
    BY <2>4
<1>3. Nat \subseteq Some
  BY <1>1, <1>2, SetInduction
<1>4. ASSUME NEW n \in Nat
      PROVE  Fits(Upto(n), n)
  <2>1. \E g : Fits(g, n)
    BY <1>3
  <2> HIDE DEF Fits
  <2> QED
    BY <2>1
<1>5. ASSUME NEW n \in Nat PROVE Upto(n + 1)[n] = Upto(n)[n]
  <2> DEFINE shorter == Upto(n)
             longer  == Upto(n + 1)
             Same == {m \in Nat : m <= n => shorter[m] = longer[m]}
  <2>1. /\ shorter = [m \in 0..n |-> IF m = 0 THEN base ELSE Step(m, shorter[m - 1])]
        /\ longer = [m \in 0..(n + 1) |-> IF m = 0 THEN base ELSE Step(m, longer[m - 1])]
    <3>1. Fits(shorter, n)
      BY <1>4
    <3>2. n + 1 \in Nat
      OBVIOUS
    <3> HIDE DEF shorter
    <3>3. Fits(longer, n + 1)
      BY <1>4, <3>2
    <3> HIDE DEF longer
    <3> QED
      BY <3>1, <3>3
  <2> HIDE DEF shorter, longer
  <2>2. 0 \in Same
    BY <2>1
  <2>3. ASSUME NEW m \in Nat, m \in Same PROVE m + 1 \in Same
    BY <2>1, <2>3
  <2>4. n \in Same
    BY <2>2, <2>3, SetInduction
  <2> QED
    BY <2>4 DEF shorter, longer
<1>6. ASSUME NEW n \in Nat PROVE all[n] = IF n = 0 THEN base ELSE Step(n, all[n - 1])
  <2> DEFINE upto == Upto(n)
  <2>1. upto = [m \in 0..n |-> IF m = 0 THEN base ELSE Step(m, upto[m - 1])]
    BY <1>4
  <2>2. CASE n = 0
    <3> HIDE DEF upto
    <3>1. upto[n] = base
      BY <2>1, <2>2
    <3> QED
      BY <2>2, <3>1 DEF upto
  <2>3. CASE n # 0
    <3>1. n - 1 \in Nat /\ (n - 1) + 1 = n
      BY <2>3
    <3>2. Upto(n)[n - 1] = Upto(n - 1)[n - 1]
      BY <1>5, <3>1
    <3>3. all[n] = upto[n] /\ all[n - 1] = upto[n - 1]
      BY <3>1, <3>2
    <3> HIDE DEF upto, all
    <3>4. upto[n] = Step(n, upto[n - 1])
      BY <2>1, <2>3
    <3> QED
      BY <2>3, <3>3, <3>4
  <2> QED
    BY <2>2, <2>3
<1>7. all = [n \in Nat |-> IF n = 0 THEN base ELSE Step(n, all[n - 1])]
  <2>1. all = [n \in Nat |-> all[n]]
    OBVIOUS
  <2> HIDE DEF all
  <2> QED
    BY <1>6, <2>1
<1> HIDE DEF all
<1> DEFINE levels == CHOOSE f : f = [n \in Nat |-> IF n = 0 THEN base ELSE Step(n, f[n - 1])]
<1>8. levels = [n \in Nat |-> IF n = 0 THEN base ELSE Step(n, levels[n - 1])]
  BY <1>7
<1>9. duplicateLevels(descriptor, kind, scope, values) = levels[Len(values)]
  BY DEF duplicateLevels, base, Step, Leaves, Taller
<1> HIDE DEF levels
<1>10. levels[0] = base /\ \A h \in Nat : levels[h + 1] = Step(h + 1, levels[h])
  BY <1>8
<1>11. IsRounds(levels, descriptor, kind, scope, values)
  BY <1>9, <1>10 DEF base, Step, IsRounds
<1> QED
  BY <1>11

\* A level has a node for every two of the level below it.
LEMMA LevelAboveWidth ==
  ASSUME NEW descriptor, NEW kind, NEW scope, NEW h, NEW below, Width(below) \in Nat \ {0},
         NEW above, above = LevelAbove(descriptor, kind, scope, h, below)
  PROVE  /\ Width(above) = (Width(below) + 1) \div 2
         /\ Width(above) \in Nat \ {0}
         /\ Width(above) - 1 = (Width(below) - 1) \div 2
         /\ \A i \in 1..Width(above) :
              above[i] = node(descriptor, kind, scope, h, below[2 * i - 1],
                              below[IF 2 * i <= Width(below) THEN 2 * i ELSE 2 * i - 1])
<1> DEFINE w == Width(below)
           m == (w + 1) \div 2
           Pair(i) == node(descriptor, kind, scope, h, below[2 * i - 1],
                           below[IF 2 * i <= w THEN 2 * i ELSE 2 * i - 1])
<1>2. above = [i \in 1..m |-> Pair(i)]
  BY DEF LevelAbove, Width
<1>5. w \in Nat \ {0}
  OBVIOUS
<1> HIDE DEF w
<1>1. m \in Nat \ {0} /\ m - 1 = (w - 1) \div 2
  BY <1>5
<1> HIDE DEF Pair, m
<1>3. above = [i \in 1..m |-> above[i]] /\ \A i \in 1..m : above[i] = Pair(i)
  BY <1>2
<1>4. Width(above) = m
  BY <1>1, <1>3, WidthOfFunction
<1> QED
  BY <1>1, <1>3, <1>4 DEF Pair, m, w

\* The levels built by h rounds over n leaves, of a tree of that height.
Grown(descriptor, kind, scope, values, top, built, h) ==
  /\ IsList(built)
  /\ Width(built) \in 1..(top + 1)
  /\ Width(built) = h + 1 \/ (Width(built) = top + 1 /\ h >= top)
  /\ built[1] = Leaves(values)
  /\ \A j \in 1..(Width(built) - 1) :
       built[j + 1] = LevelAbove(descriptor, kind, scope, j, built[j])
  /\ \A j \in 1..Width(built) :
       Width(built[j]) \in Nat \ {0} /\ bitLength[Width(built[j]) - 1] = top + 1 - j

\* One more round of the loop.
LEMMA GrownStep ==
  ASSUME NEW descriptor, NEW kind, NEW scope, NEW values,
         NEW top \in Nat, NEW h \in Nat, NEW built,
         Grown(descriptor, kind, scope, values, top, built, h)
  PROVE  Grown(descriptor, kind, scope, values, top,
               Taller(descriptor, kind, scope, h + 1, built), h + 1)
<1> DEFINE size == Width(built)
           last == built[size]
           next == LevelAbove(descriptor, kind, scope, h + 1, last)
           taller == Taller(descriptor, kind, scope, h + 1, built)
           wide == Width(last)
           rest == wide - 1
<1>2. /\ IsList(built)
      /\ size \in 1..(top + 1)
      /\ size = h + 1 \/ (size = top + 1 /\ h >= top)
      /\ built[1] = Leaves(values)
      /\ \A j \in 1..(size - 1) :
           built[j + 1] = LevelAbove(descriptor, kind, scope, j, built[j])
      /\ \A j \in 1..size :
           Width(built[j]) \in Nat \ {0} /\ bitLength[Width(built[j]) - 1] = top + 1 - j
  BY DEF Grown
<1>4. last = built[size] /\ next = LevelAbove(descriptor, kind, scope, h + 1, last)
  OBVIOUS
<1>5. /\ wide = 1 => taller = built
      /\ wide # 1 => taller = Append(built, next)
  BY DEF Taller, Width
<1>3. wide \in Nat \ {0} /\ bitLength[wide - 1] = top + 1 - size
  <2> HIDE DEF size
  <2> QED
    BY <1>2
<1>6. Width(next) \in Nat \ {0} /\ Width(next) - 1 = (wide - 1) \div 2
  <2> HIDE DEF last, next
  <2> QED
    BY <1>3, <1>4, LevelAboveWidth
<1> HIDE DEF size, last, next, taller, wide
<1>7. rest \in Nat /\ bitLength[rest] = top + 1 - size
  BY <1>3
<1>8. CASE wide = 1
  <2>1. taller = built
    BY <1>5, <1>8
  <2>2. bitLength[rest] = 0
    <3>1. rest = 0
      BY <1>8
    <3> QED
      BY <3>1, BitLengthValues
  <2>4. size = top + 1 /\ h + 1 >= top
    BY <1>2, <1>7, <2>2
  <2>5. Grown(descriptor, kind, scope, values, top, built, h + 1)
    BY <1>2, <2>4 DEF Grown, size
  <2> QED
    BY <2>1, <2>5 DEF taller
<1>9. CASE wide # 1
  <2>1. taller = Append(built, next)
    BY <1>5, <1>9
  <2> DEFINE half == bitLength[rest \div 2]
  <2>2. half \in Nat /\ 1 + half = top + 1 - size
    <3>1. rest \in Nat \ {0} /\ rest \div 2 \in Nat
      BY <1>3, <1>9
    <3> HIDE DEF rest
    <3>2. bitLength[rest] = 1 + half /\ half \in 0..(rest \div 2)
      BY <3>1, BitLengthValues
    <3> QED
      BY <1>7, <3>1, <3>2
  <2>4. bitLength[Width(next) - 1] = half
    BY <1>6
  <2> HIDE DEF half
  <2>5. bitLength[Width(next) - 1] = top - size
    BY <1>2, <2>2, <2>4
  <2>6. size = h + 1 /\ size <= top
    BY <1>2, <2>2
  <2>7. /\ IsList(taller)
        /\ Width(taller) = size + 1
        /\ taller[size + 1] = next
        /\ \A i \in 1..size : taller[i] = built[i]
    <3>1. IsList(built)
      BY <1>2
    <3>2. ASSUME NEW i \in 1..Width(built) PROVE taller[i] = built[i]
      BY <2>1, <3>1, AppendKeeps
    <3> QED
      BY <2>1, <3>1, <3>2, AppendWidth DEF size
  <2>8. \A j \in 1..(Width(taller) - 1) :
          taller[j + 1] = LevelAbove(descriptor, kind, scope, j, taller[j])
    <3> SUFFICES ASSUME NEW j \in 1..size
                 PROVE  taller[j + 1] = LevelAbove(descriptor, kind, scope, j, taller[j])
      BY <1>2, <2>7
    <3>1. CASE j = size
      <4>1. j = h + 1 /\ taller[j] = last /\ taller[j + 1] = next
        BY <1>2, <1>4, <2>6, <2>7, <3>1
      <4> QED
        BY <1>4, <4>1
    <3>2. CASE j # size
      <4>1. j \in 1..(size - 1) /\ j + 1 \in 1..size
        BY <1>2, <3>2
      <4> QED
        BY <1>2, <2>7, <4>1
    <3> QED
      BY <3>1, <3>2
  <2>9. \A j \in 1..Width(taller) :
          Width(taller[j]) \in Nat \ {0} /\ bitLength[Width(taller[j]) - 1] = top + 1 - j
    <3> SUFFICES ASSUME NEW j \in 1..(size + 1)
                 PROVE  Width(taller[j]) \in Nat \ {0} /\ bitLength[Width(taller[j]) - 1] = top + 1 - j
      BY <2>7
    <3>1. CASE j = size + 1
      BY <1>2, <1>6, <2>5, <2>7, <3>1
    <3>2. CASE j # size + 1
      <4>1. j \in 1..size
        BY <1>2, <3>2
      <4> QED
        BY <1>2, <2>7, <4>1
    <3> QED
      BY <3>1, <3>2
  <2>10. /\ Width(taller) \in 1..(top + 1)
         /\ Width(taller) = (h + 1) + 1
         /\ taller[1] = Leaves(values)
    BY <1>2, <2>6, <2>7
  <2>11. Grown(descriptor, kind, scope, values, top, taller, h + 1)
    BY <2>7, <2>8, <2>9, <2>10 DEF Grown
  <2> QED
    BY <2>11 DEF taller
<1> QED
  BY <1>8, <1>9 DEF taller

\* The tree of a kind over some leaves: the number of leaves less one has as many
\* digits as the tree has levels above the leaves, and the last has one node.
IsTree(levels, descriptor, kind, scope, values, top) ==
  /\ top \in Nat
  /\ top = bitLength[Width(values) - 1]
  /\ Width(levels) = top + 1
  /\ levels[1] = Leaves(values)
  /\ \A h \in 1..top : levels[h + 1] = LevelAbove(descriptor, kind, scope, h, levels[h])
  /\ \A h \in 1..(top + 1) : Width(levels[h]) \in Nat \ {0}
  /\ Width(levels[top + 1]) = 1

\* duplicateLevels builds such a tree, for a list of any length.
LEMMA LevelsShape ==
  ASSUME NEW descriptor, NEW kind, NEW scope, NEW values, Width(values) \in Nat \ {0}
  PROVE  \E top : IsTree(duplicateLevels(descriptor, kind, scope, values),
                         descriptor, kind, scope, values, top)
<1> DEFINE n == Width(values)
           top == bitLength[n - 1]
           levels == duplicateLevels(descriptor, kind, scope, values)
<1>0. n \in Nat \ {0}
  OBVIOUS
<1>2. PICK rounds : IsRounds(rounds, descriptor, kind, scope, values)
  BY LevelsUnfold
<1>3. /\ rounds[0] = <<Leaves(values)>>
      /\ \A h \in Nat : rounds[h + 1] = Taller(descriptor, kind, scope, h + 1, rounds[h])
      /\ levels = rounds[n]
  BY <1>2 DEF IsRounds, Width
<1>4. Width(Leaves(values)) = n
  <2>1. Leaves(values) = [i \in 1..n |-> Leaves(values)[i]]
    BY DEF Leaves, Width
  <2> QED
    BY <2>1, WidthOfFunction
<1> HIDE DEF n, levels
<1>1. n - 1 \in Nat /\ top \in Nat /\ top <= n - 1 /\ top = bitLength[n - 1]
  <2>1. n - 1 \in Nat
    BY <1>0
  <2> QED
    BY <2>1, BitLengthValues
<1> HIDE DEF top
<1> DEFINE Good == {h \in Nat : Grown(descriptor, kind, scope, values, top, rounds[h], h)}
           first == rounds[0]
<1>5. 0 \in Good
  <2>1. IsList(first) /\ Width(first) = 1 /\ first[1] = Leaves(values)
    BY <1>3, SingleList DEF Width
  <2> HIDE DEF first
  <2>2. /\ Width(first) \in 1..(top + 1)
        /\ Width(first) = 0 + 1
        /\ \A j \in 1..(Width(first) - 1) :
             first[j + 1] = LevelAbove(descriptor, kind, scope, j, first[j])
    BY <1>1, <2>1
  <2>3. ASSUME NEW j \in 1..Width(first)
        PROVE  /\ Width(first[j]) \in Nat \ {0}
               /\ bitLength[Width(first[j]) - 1] = top + 1 - j
    <3>1. j = 1 /\ Width(first[j]) = n
      BY <1>4, <2>1
    <3> QED
      BY <1>0, <1>1, <3>1
  <2>4. Grown(descriptor, kind, scope, values, top, first, 0)
    <3>1. Width(first) = 0 + 1 \/ (Width(first) = top + 1 /\ 0 >= top)
      <4>1. Width(first) = 0 + 1
        BY <2>2
      <4> QED
        BY <4>1
    <3> QED
      BY <2>1, <2>2, <2>3, <3>1, Zenon DEF Grown
  <2> QED
    BY <2>4 DEF first
<1>6. ASSUME NEW h \in Nat, h \in Good PROVE h + 1 \in Good
  <2>1. Grown(descriptor, kind, scope, values, top, rounds[h], h)
    BY <1>6
  <2>2. rounds[h + 1] = Taller(descriptor, kind, scope, h + 1, rounds[h])
    BY <1>3
  <2>3. Grown(descriptor, kind, scope, values, top,
              Taller(descriptor, kind, scope, h + 1, rounds[h]), h + 1)
    BY <1>1, <2>1, GrownStep
  <2> QED
    BY <2>2, <2>3
<1> HIDE DEF Good
<1>7. n \in Good
  BY <1>0, <1>5, <1>6, SetInduction
<1>8. Grown(descriptor, kind, scope, values, top, levels, n)
  BY <1>3, <1>7 DEF Good
<1>9. Width(levels) = top + 1 /\ (top + 1) - 1 = top
  <2>1. Width(levels) \in 1..(top + 1) /\ (Width(levels) = n + 1 \/ Width(levels) = top + 1)
    BY <1>8 DEF Grown
  <2> QED
    BY <1>0, <1>1, <2>1
<1>10. /\ levels[1] = Leaves(values)
       /\ \A j \in 1..top : levels[j + 1] = LevelAbove(descriptor, kind, scope, j, levels[j])
       /\ \A j \in 1..(top + 1) :
            Width(levels[j]) \in Nat \ {0} /\ bitLength[Width(levels[j]) - 1] = top + 1 - j
  BY <1>8, <1>9 DEF Grown
<1>11. Width(levels[top + 1]) = 1
  <2> DEFINE w == Width(levels[top + 1])
  <2>1. w \in Nat \ {0} /\ bitLength[w - 1] = 0
    BY <1>1, <1>10
  <2> HIDE DEF w
  <2>2. w - 1 \in Nat
    BY <2>1
  <2>3. w - 1 = 0
    BY <2>1, <2>2, NoDigits
  <2>4. w = 1
    BY <2>1, <2>3
  <2> QED
    BY <2>4 DEF w
<1>12. IsTree(levels, descriptor, kind, scope, values, top)
  BY <1>1, <1>9, <1>10, <1>11 DEF IsTree, n
<1> QED
  BY <1>12 DEF levels

-----------------------------------------------------------------------------
(* Ranges, and one round of a fold                                         *)

\* The nodes of a level stand for ranges of one span, of which the last may be cut.
Ranged(level, span, n) ==
  /\ Width(level) * span >= n
  /\ \A i \in 1..Width(level) :
       /\ level[i].first = (i - 1) * span
       /\ level[i].last = Least(i * span, n)

\* The nodes of the level above stand for ranges twice as long.
LEMMA RangedAbove ==
  ASSUME NEW descriptor, NEW kind, NEW scope, NEW h, NEW below, Width(below) \in Nat \ {0},
         NEW span \in Nat \ {0}, NEW n \in Nat, Ranged(below, span, n),
         NEW above, above = LevelAbove(descriptor, kind, scope, h, below)
  PROVE  Ranged(above, 2 * span, n)
<1> DEFINE w == Width(below)
           m == Width(above)
           Right(i) == IF 2 * i <= w THEN 2 * i ELSE 2 * i - 1
<1>1. /\ m = (w + 1) \div 2
      /\ m \in Nat \ {0}
      /\ \A i \in 1..m :
           above[i] = node(descriptor, kind, scope, h, below[2 * i - 1], below[Right(i)])
  BY LevelAboveWidth
<1>2. /\ w * span >= n
      /\ \A i \in 1..w :
           /\ below[i].first = (i - 1) * span
           /\ below[i].last = Least(i * span, n)
  BY DEF Ranged
<1>3. w \in Nat \ {0}
  OBVIOUS
<1> HIDE DEF w, m
<1>4. m * (2 * span) >= n
  <2>1. 2 * m >= w
    BY <1>1, <1>3
  <2>2. (2 * m) * span >= w * span
    BY <1>1, <1>3, <2>1
  <2>3. m * (2 * span) = (2 * m) * span
    BY <1>1
  <2> QED
    BY <1>1, <1>2, <1>3, <2>2, <2>3
<1>5. ASSUME NEW i \in 1..m
      PROVE  above[i].first = (i - 1) * (2 * span) /\ above[i].last = Least(i * (2 * span), n)
  <2>1. 2 * i - 1 \in 1..w /\ Right(i) \in 1..w
    BY <1>1, <1>3
  <2>2. /\ above[i].first = below[2 * i - 1].first
        /\ above[i].last = below[Right(i)].last
    <3>1. above[i] = node(descriptor, kind, scope, h, below[2 * i - 1], below[Right(i)])
      BY <1>1
    <3> HIDE DEF Right
    <3> QED
      BY <3>1 DEF node
  <2>3. /\ below[2 * i - 1].first = (2 * i - 1 - 1) * span
        /\ below[Right(i)].last = Least(Right(i) * span, n)
    BY <1>2, <2>1
  <2>4. (2 * i - 1 - 1) * span = (i - 1) * (2 * span)
    BY <1>1
  <2>5. Least(Right(i) * span, n) = Least(i * (2 * span), n)
    <3>1. CASE 2 * i <= w
      <4>1. Right(i) * span = i * (2 * span)
        BY <1>1, <3>1
      <4> QED
        BY <4>1
    <3>2. CASE ~ (2 * i <= w)
      <4>1. Right(i) = w
        BY <1>1, <1>3, <3>2
      <4>2. (2 * i) * span >= w * span
        BY <1>1, <1>3, <3>2
      <4>3. i * (2 * span) = (2 * i) * span
        BY <1>1
      <4>4. w * span \in Int /\ i * (2 * span) \in Int
        BY <1>1, <1>3
      <4> HIDE DEF Right
      <4>5. i * (2 * span) >= n /\ w * span >= n
        BY <1>2, <1>3, <4>2, <4>3, <4>4
      <4> DEFINE a == w * span
                 b == i * (2 * span)
      <4>6. Least(a, n) = n /\ Least(b, n) = n
        <5>1. a \in Int /\ b \in Int /\ a >= n /\ b >= n
          BY <4>4, <4>5
        <5> HIDE DEF a, b
        <5> QED
          BY <5>1 DEF Least
      <4> QED
        BY <4>1, <4>6
    <3> QED
      BY <3>1, <3>2
  <2> QED
    BY <2>2, <2>3, <2>4, <2>5
<1> QED
  BY <1>4, <1>5 DEF Ranged, m

\* A leaf stands for itself.
LEMMA RangedLeaves ==
  ASSUME NEW values, Width(values) \in Nat \ {0}
  PROVE  Ranged(Leaves(values), 1, Width(values)) /\ Width(Leaves(values)) = Width(values)
<1> DEFINE n == Width(values)
           leaves == Leaves(values)
<1>1. n \in Nat \ {0}
  OBVIOUS
<1>2. leaves = [i \in 1..n |-> LeafNode(values[i], i - 1)]
  BY DEF Leaves, Width
<1> HIDE DEF n, leaves
<1>3. Width(leaves) = n
  <2>1. leaves = [i \in 1..n |-> leaves[i]]
    BY <1>2
  <2> QED
    BY <1>1, <2>1, WidthOfFunction
<1>4. \A i \in 1..n : leaves[i].first = (i - 1) * 1 /\ leaves[i].last = Least(i * 1, n)
  BY <1>1, <1>2 DEF LeafNode, Least
<1> QED
  BY <1>1, <1>3, <1>4 DEF Ranged, n, leaves

\* Where a node is paired with itself it has itself for a neighbour.
Beside(width, at) == IF SiblingOf(at) < width THEN SiblingOf(at) ELSE at

\* A fold stands at a node of a level: its digest alone may be another.
Stands(state, level, at, span) ==
  /\ state.index = at
  /\ state.width = Width(level)
  /\ state.span = span
  /\ state.node.first = level[at + 1].first
  /\ state.node.last = level[at + 1].last

\* The digest of a node binds the digests of both nodes it pairs.
LEMMA NodeBinds ==
  ASSUME NEW descriptor, NEW kind, NEW scope, NEW h, NEW l, NEW r, NEW left, NEW right,
         l.first = left.first, r.last = right.last
  PROVE  LET a == node(descriptor, kind, scope, h, l, r)
             b == node(descriptor, kind, scope, h, left, right)
         IN  /\ a.first = b.first
             /\ a.last = b.last
             /\ a.digest = b.digest <=> l.digest = left.digest /\ r.digest = right.digest
BY DEF node

\* Where a fold stands is no failure.
LEMMA StateFields ==
  ASSUME NEW at, NEW index, NEW width, NEW span
  PROVE  LET state == FoldState(at, index, width, span)
         IN  /\ state # null
             /\ state.node = at
             /\ state.index = index
             /\ state.width = width
             /\ state.span = span
BY DEF FoldState, null

\* What a round of a fold makes of a node that stands at a level: it refuses, or
\* stands at the level above, where it has the digest of the level exactly if both
\* nodes it paired had theirs.
LEMMA ClimbBinds ==
  ASSUME NEW descriptor, NEW kind, NEW scope, NEW n \in Nat, NEW h,
         NEW level, Width(level) \in Nat \ {0},
         NEW span \in Nat \ {0}, Ranged(level, span, n),
         NEW at \in 0..(Width(level) - 1),
         NEW below, below # null, Stands(below, level, at, span), NEW digest,
         NEW above, above = LevelAbove(descriptor, kind, scope, h, level),
         NEW out, out = Climb(descriptor, kind, scope, n, h, below, digest)
  PROVE  /\ at \div 2 \in 0..(Width(above) - 1)
         /\ out # null => Stands(out, above, at \div 2, 2 * span)
         /\ (out # null /\ out.node.digest = above[(at \div 2) + 1].digest)
              <=> /\ below.node.digest = level[at + 1].digest
                  /\ digest = level[Beside(Width(level), at) + 1].digest
<1> DEFINE w == Width(level)
           half == at \div 2
           beside == SiblingOf(at)
           sibling == [digest |-> digest, first |-> beside * span,
                       last |-> Least((beside + 1) * span, n)]
           up == above[half + 1]
           State(pair) == FoldState(pair, half, (w + 1) \div 2, 2 * span)
           Pair(left, right) == node(descriptor, kind, scope, h, left, right)
<1>1. w \in Nat \ {0} /\ at \in 0..(w - 1) /\ half \in Nat
  OBVIOUS
<1>2. /\ Width(above) = (w + 1) \div 2
      /\ \A i \in 1..Width(above) :
           above[i] = Pair(level[2 * i - 1], level[IF 2 * i <= w THEN 2 * i ELSE 2 * i - 1])
  BY LevelAboveWidth
<1>3. \A i \in 1..w :
        level[i].first = (i - 1) * span /\ level[i].last = Least(i * span, n)
  BY DEF Ranged
<1>4. /\ below.index = at
      /\ below.width = w
      /\ below.span = span
      /\ below.node.first = level[at + 1].first
      /\ below.node.last = level[at + 1].last
  BY DEF Stands
<1>5. out = IF beside >= w
              THEN IF digest # below.node.digest THEN null
                   ELSE State(IF at % 2 = 0 THEN Pair(below.node, below.node)
                              ELSE Pair(below.node, below.node))
              ELSE State(IF at % 2 = 0 THEN Pair(below.node, sibling)
                         ELSE Pair(sibling, below.node))
  <2> HIDE DEF beside
  <2>1. below # null
    OBVIOUS
  <2>2. out = Climb(descriptor, kind, scope, n, h, below, digest)
    OBVIOUS
  <2> QED
    BY <1>4, <2>1, <2>2 DEF Climb, beside
<1> HIDE DEF w
<1>6. half + 1 \in 1..((w + 1) \div 2)
  BY <1>1
<1>7. up = Pair(level[2 * (half + 1) - 1],
                level[IF 2 * (half + 1) <= w THEN 2 * (half + 1) ELSE 2 * (half + 1) - 1])
  BY <1>2, <1>6
<1>8. ASSUME NEW l, NEW r, NEW left, NEW right, out = State(Pair(l, r)),
             up = Pair(left, right), l.first = left.first, r.last = right.last
      PROVE  /\ out # null
             /\ Stands(out, above, half, 2 * span)
             /\ out.node.digest = up.digest <=> l.digest = left.digest /\ r.digest = right.digest
  <2> DEFINE pair == Pair(l, r)
             node2 == Pair(left, right)
  <2>1. /\ pair.first = node2.first
        /\ pair.last = node2.last
        /\ pair.digest = node2.digest <=> l.digest = left.digest /\ r.digest = right.digest
    BY <1>8, NodeBinds
  <2> HIDE DEF Pair, pair, node2
  <2>2. /\ out # null
        /\ out.node = pair
        /\ out.index = half
        /\ out.width = (w + 1) \div 2
        /\ out.span = 2 * span
    BY <1>8, StateFields DEF pair
  <2>3. up = node2 /\ up = above[half + 1]
    BY <1>8 DEF node2
  <2> QED
    BY <1>2, <2>1, <2>2, <2>3 DEF Stands
<1> DEFINE mine == level[at + 1]
           next == level[Beside(w, at) + 1]
           Bound == /\ half \in 0..(Width(above) - 1)
                    /\ out # null => Stands(out, above, half, 2 * span)
                    /\ (out # null /\ out.node.digest = up.digest)
                         <=> below.node.digest = mine.digest /\ digest = next.digest
<1>9. half \in 0..(Width(above) - 1)
  BY <1>1, <1>2, <1>6
<1> HIDE DEF Pair, State
<1>10. ASSUME at % 2 = 0 /\ at + 1 < w PROVE Bound
  <2>1. /\ beside = at + 1
        /\ ~ (beside >= w)
        /\ Beside(w, at) = at + 1
        /\ 2 * (half + 1) - 1 = at + 1
        /\ 2 * (half + 1) = at + 2
        /\ at + 2 <= w
    BY <1>1, <1>10 DEF SiblingOf, Beside
  <2>2. out = State(Pair(below.node, sibling))
    BY <1>5, <1>10, <2>1
  <2>3. up = Pair(mine, next)
    <3>1. next = level[at + 2]
      BY <1>1, <2>1
    <3> HIDE DEF up, half, next
    <3> QED
      BY <1>7, <2>1, <3>1
  <2>4. /\ sibling.digest = digest
        /\ sibling.last = next.last
    <3>1. /\ sibling.digest = digest
          /\ sibling.last = Least((beside + 1) * span, n)
      OBVIOUS
    <3>2. next.last = Least((at + 2) * span, n) /\ beside + 1 = at + 2
      <4>1. at + 2 \in 1..w /\ Beside(w, at) + 1 = at + 2 /\ beside + 1 = at + 2
        BY <1>1, <2>1
      <4> HIDE DEF beside
      <4> QED
        BY <1>3, <4>1
    <3> HIDE DEF beside, sibling, next
    <3> QED
      BY <3>1, <3>2
  <2> HIDE DEF sibling, up, half, beside, mine, next
  <2>5. below.node.first = mine.first
    BY <1>4 DEF mine
  <2>6. /\ out # null
        /\ Stands(out, above, half, 2 * span)
        /\ out.node.digest = up.digest
             <=> below.node.digest = mine.digest /\ digest = next.digest
    BY <1>8, <2>2, <2>3, <2>4, <2>5
  <2> QED
    BY <1>9, <2>6
<1>11. ASSUME at % 2 = 0 /\ ~ (at + 1 < w) PROVE Bound
  <2>1. /\ beside = at + 1
        /\ beside >= w
        /\ Beside(w, at) = at
        /\ 2 * (half + 1) - 1 = at + 1
        /\ ~ (2 * (half + 1) <= w)
    BY <1>1, <1>11 DEF SiblingOf, Beside
  <2>2. out = IF digest # below.node.digest THEN null ELSE State(Pair(below.node, below.node))
    BY <1>5, <1>11, <2>1
  <2>3. up = Pair(mine, mine)
    <3> HIDE DEF up, half
    <3> QED
      BY <1>7, <2>1
  <2>4. next = mine
    BY <2>1
  <2> HIDE DEF sibling, up, half, beside, mine, next
  <2>5. below.node.first = mine.first /\ below.node.last = mine.last
    BY <1>4 DEF mine
  <2>6. CASE digest = below.node.digest
    <3>1. out = State(Pair(below.node, below.node))
      BY <2>2, <2>6
    <3>2. /\ out # null
          /\ Stands(out, above, half, 2 * span)
          /\ out.node.digest = up.digest <=> below.node.digest = mine.digest
      BY <1>8, <2>3, <2>5, <3>1
    <3>3. out.node.digest = up.digest
            <=> below.node.digest = mine.digest /\ digest = next.digest
      BY <2>4, <2>6, <3>2
    <3> QED
      BY <1>9, <3>2, <3>3
  <2>7. CASE digest # below.node.digest
    <3>1. out = null
      BY <2>2, <2>7
    <3> QED
      BY <1>9, <2>4, <2>7, <3>1
  <2> QED
    BY <2>6, <2>7
<1>12. ASSUME at % 2 # 0 PROVE Bound
  <2>1. /\ beside = at - 1
        /\ ~ (beside >= w)
        /\ Beside(w, at) = at - 1
        /\ 2 * (half + 1) - 1 = at
        /\ 2 * (half + 1) = at + 1
        /\ at + 1 <= w
        /\ at >= 1
    BY <1>1, <1>12 DEF SiblingOf, Beside
  <2>2. out = State(Pair(sibling, below.node))
    BY <1>5, <1>12, <2>1
  <2>3. up = Pair(next, mine)
    <3>1. next = level[at]
      BY <1>1, <2>1
    <3> HIDE DEF up, half, next
    <3> QED
      BY <1>7, <2>1, <3>1
  <2>4. /\ sibling.digest = digest
        /\ sibling.first = next.first
    <3>1. /\ sibling.digest = digest
          /\ sibling.first = beside * span
      OBVIOUS
    <3>2. next.first = (at - 1) * span /\ beside = at - 1
      <4>1. at \in 1..w /\ Beside(w, at) + 1 = at /\ beside = at - 1
        BY <1>1, <2>1
      <4> HIDE DEF beside
      <4> QED
        BY <1>3, <4>1
    <3> HIDE DEF beside, sibling, next
    <3> QED
      BY <3>1, <3>2
  <2> HIDE DEF sibling, up, half, beside, mine, next
  <2>5. below.node.last = mine.last
    BY <1>4 DEF mine
  <2>6. /\ out # null
        /\ Stands(out, above, half, 2 * span)
        /\ out.node.digest = up.digest
             <=> digest = next.digest /\ below.node.digest = mine.digest
    BY <1>8, <2>2, <2>3, <2>4, <2>5
  <2> QED
    BY <1>9, <2>6
<1>13. Bound
  <2> HIDE DEF Bound
  <2>1. at % 2 = 0 \/ at % 2 # 0
    OBVIOUS
  <2> QED
    BY <2>1, <1>10, <1>11, <1>12
<1> QED
  BY <1>13 DEF w, half, up

-----------------------------------------------------------------------------
(* A fold and a path                                                       *)

\* The states of a fold, round by round, and what it returns.
IsFolded(current, descriptor, kind, scope, count, index, value, path) ==
  /\ current[0] = FoldState(LeafNode(value, index), index, count, 1)
  /\ \A h \in 1..Width(path) :
       current[h] = Climb(descriptor, kind, scope, count, h, current[h - 1], path[h])
  /\ duplicateFold(descriptor, kind, scope, count, index, value, path)
       = IF index >= count \/ Width(path) # bitLength[count - 1] \/ current[Width(path)] = null
           THEN null ELSE current[Width(path)].node.digest

\* duplicateFold goes through such states.
LEMMA FoldUnfold ==
  ASSUME NEW descriptor, NEW kind, NEW scope, NEW count, NEW index, NEW value, NEW path,
         Width(path) \in Nat
  PROVE  \E current : IsFolded(current, descriptor, kind, scope, count, index, value, path)
<1> DEFINE base == FoldState(LeafNode(value, index), index, count, 1)
           Step(h, below) == Climb(descriptor, kind, scope, count, h, below, path[h])
           Fits(g, n) == g = [h \in 0..n |-> IF h = 0 THEN base ELSE Step(h, g[h - 1])]
           Some == {n \in Nat : \E g : Fits(g, n)}
<1> HIDE DEF base, Step
<1>1. 0 \in Some
  <2>1. Fits([h \in 0..0 |-> base], 0)
    OBVIOUS
  <2> QED
    BY <2>1
<1>2. ASSUME NEW n \in Nat, n \in Some PROVE n + 1 \in Some
  <2>1. PICK g : Fits(g, n)
    BY <1>2
  <2> DEFINE f == [h \in 0..(n + 1) |-> IF h <= n THEN g[h] ELSE Step(n + 1, g[n])]
  <2>2. ASSUME NEW h \in 0..(n + 1) PROVE f[h] = IF h = 0 THEN base ELSE Step(h, f[h - 1])
    <3>1. CASE h = 0
      BY <2>1, <3>1
    <3>2. CASE h \in 1..n
      BY <2>1, <3>2
    <3>3. CASE h = n + 1
      BY <3>3
    <3> QED
      BY <3>1, <3>2, <3>3
  <2>3. Fits(f, n + 1)
    BY <2>2
  <2> HIDE DEF Fits, f
  <2>4. n + 1 \in Nat /\ \E g2 : Fits(g2, n + 1)
    BY <2>3
  <2> QED
    BY <2>4
<1>3. Width(path) \in Some
  BY <1>1, <1>2, SetInduction
<1>4. PICK g : Fits(g, Width(path))
  BY <1>3
<1> DEFINE current == CHOOSE f : f = [h \in 0..Width(path) |->
                                        IF h = 0 THEN base ELSE Step(h, f[h - 1])]
<1>5. current = [h \in 0..Width(path) |-> IF h = 0 THEN base ELSE Step(h, current[h - 1])]
  BY <1>4
<1>6. duplicateFold(descriptor, kind, scope, count, index, value, path)
        = IF index >= count \/ Width(path) # bitLength[count - 1] \/ current[Width(path)] = null
            THEN null ELSE current[Width(path)].node.digest
  BY DEF duplicateFold, base, Step, Width
<1> HIDE DEF current
<1>7. /\ current[0] = base
      /\ \A h \in 1..Width(path) : current[h] = Step(h, current[h - 1])
  BY <1>5
<1>8. IsFolded(current, descriptor, kind, scope, count, index, value, path)
  BY <1>6, <1>7 DEF IsFolded, base, Step
<1> QED
  BY <1>8

\* The indices of a leaf and of the nodes over it, level by level, and its path.
IsHalved(halved, levels, index) ==
  /\ halved[1] = index
  /\ \A h \in 2..Width(levels) : halved[h] = halved[h - 1] \div 2
  /\ duplicatePath(levels, index)
       = [h \in 1..(Width(levels) - 1) |->
            levels[h][Beside(Width(levels[h]), halved[h]) + 1].digest]

\* duplicatePath goes by such indices.
LEMMA PathUnfold ==
  ASSUME NEW levels, NEW index, Width(levels) \in Nat \ {0}
  PROVE  \E halved : IsHalved(halved, levels, index)
<1> DEFINE m == Width(levels)
           Fits(g, n) == g = [h \in 1..n |-> IF h = 1 THEN index ELSE g[h - 1] \div 2]
           Some == {n \in Nat : \E g : Fits(g, n)}
<1>0. m \in Nat
  OBVIOUS
<1> HIDE DEF m
<1>1. 0 \in Some
  <2>1. Fits([h \in 1..0 |-> index], 0)
    OBVIOUS
  <2> QED
    BY <2>1
<1>2. ASSUME NEW n \in Nat, n \in Some PROVE n + 1 \in Some
  <2>1. PICK g : Fits(g, n)
    BY <1>2
  <2> DEFINE f == [h \in 1..(n + 1) |->
                     IF h <= n THEN g[h] ELSE IF h = 1 THEN index ELSE g[n] \div 2]
  <2>2. ASSUME NEW h \in 1..(n + 1) PROVE f[h] = IF h = 1 THEN index ELSE f[h - 1] \div 2
    <3>2. CASE h \in 1..n
      BY <2>1, <3>2
    <3>3. CASE h = n + 1
      BY <3>3
    <3> QED
      BY <3>2, <3>3
  <2>3. Fits(f, n + 1)
    BY <2>2
  <2> HIDE DEF Fits, f
  <2>4. n + 1 \in Nat /\ \E g2 : Fits(g2, n + 1)
    BY <2>3
  <2> QED
    BY <2>4
<1>3. m \in Some
  BY <1>0, <1>1, <1>2, SetInduction
<1>4. PICK g : Fits(g, m)
  BY <1>3
<1> DEFINE halved == CHOOSE f : f = [h \in 1..m |-> IF h = 1 THEN index ELSE f[h - 1] \div 2]
<1>5. halved = [h \in 1..m |-> IF h = 1 THEN index ELSE halved[h - 1] \div 2]
  BY <1>4
<1>6. duplicatePath(levels, index)
        = [h \in 1..(m - 1) |-> levels[h][Beside(Width(levels[h]), halved[h]) + 1].digest]
  BY DEF duplicatePath, Beside, Width, m
<1> HIDE DEF halved
<1>7. /\ halved[1] = index
      /\ \A h \in 2..m : halved[h] = halved[h - 1] \div 2
  <2>1. m \in Nat \ {0}
    BY DEF m
  <2> QED
    BY <1>5, <2>1
<1>8. IsHalved(halved, levels, index)
  BY <1>6, <1>7 DEF IsHalved, m
<1> QED
  BY <1>8

\* A path has, up to the h-th level, the digests of the neighbours of a leaf.
PathUpto(levels, halved, path, h) ==
  \A j \in 1..h : path[j] = levels[j][Beside(Width(levels[j]), halved[j]) + 1].digest

\* After h rounds a fold has failed or stands at the node over its leaf, and has
\* its digest exactly if it began with the leaf and took the digests of its path.
Folded(levels, halved, path, isLeaf, n, h, state) ==
  LET level == levels[h + 1]
      at    == halved[h + 1]
  IN  \E span \in Nat \ {0} :
        /\ Ranged(level, span, n)
        /\ at \in 0..(Width(level) - 1)
        /\ state # null => Stands(state, level, at, span)
        /\ (state # null /\ state.node.digest = level[at + 1].digest)
             <=> isLeaf /\ PathUpto(levels, halved, path, h)

\* A fold begins at its leaf.
LEMMA FoldedLeaf ==
  ASSUME NEW values, NEW n, Width(values) = n, n \in Nat \ {0}, NEW levels,
         levels[1] = Leaves(values), NEW index \in 0..(n - 1), NEW halved, halved[1] = index,
         NEW value, NEW path, NEW isLeaf \in BOOLEAN, isLeaf <=> value = values[index + 1],
         NEW first, first = FoldState(LeafNode(value, index), index, n, 1)
  PROVE  Folded(levels, halved, path, isLeaf, n, 0, first)
<1> DEFINE level == levels[0 + 1]
           at    == halved[0 + 1]
           state == first
<1>1. level = Leaves(values) /\ at = index
  OBVIOUS
<1>2. Ranged(level, 1, n) /\ Width(level) = n
  <2> HIDE DEF level
  <2> QED
    BY <1>1, RangedLeaves
<1>3. level[index + 1] = LeafNode(values[index + 1], index)
  <2> HIDE DEF level
  <2>1. level = [i \in 1..n |-> LeafNode(values[i], i - 1)]
    BY <1>1 DEF Leaves, Width
  <2>2. index + 1 \in 1..n /\ (index + 1) - 1 = index
    OBVIOUS
  <2> QED
    BY <2>1, <2>2
<1>4. /\ state # null
      /\ state.node = LeafNode(value, index)
      /\ state.index = index
      /\ state.width = n
      /\ state.span = 1
  BY StateFields
<1> HIDE DEF level, at, state
<1>5. Stands(state, level, at, 1)
  BY <1>1, <1>2, <1>3, <1>4 DEF Stands, LeafNode
<1>6. state.node.digest = level[at + 1].digest <=> value = values[index + 1]
  BY <1>1, <1>3, <1>4 DEF LeafNode
<1>10. isLeaf <=> value = values[index + 1]
  OBVIOUS
<1>7. PathUpto(levels, halved, path, 0)
  BY DEF PathUpto
<1>8. 1 \in Nat \ {0} /\ at \in 0..(Width(level) - 1)
  BY <1>1, <1>2
<1>9. \E span \in Nat \ {0} :
        /\ Ranged(level, span, n)
        /\ at \in 0..(Width(level) - 1)
        /\ state # null => Stands(state, level, at, span)
        /\ (state # null /\ state.node.digest = level[at + 1].digest)
             <=> isLeaf /\ PathUpto(levels, halved, path, 0)
  BY <1>2, <1>4, <1>5, <1>6, <1>10, <1>7, <1>8
<1> QED
  BY <1>9 DEF Folded, level, at, state

\* One more round of the fold.
LEMMA FoldedNode ==
  ASSUME NEW descriptor, NEW kind, NEW scope, NEW n \in Nat, NEW levels, NEW halved, NEW path,
         NEW isLeaf \in BOOLEAN, NEW h \in Nat,
         Width(levels[h + 1]) \in Nat \ {0},
         levels[(h + 1) + 1] = LevelAbove(descriptor, kind, scope, h + 1, levels[h + 1]),
         halved[(h + 1) + 1] = halved[h + 1] \div 2,
         NEW state, Folded(levels, halved, path, isLeaf, n, h, state),
         NEW next, next = Climb(descriptor, kind, scope, n, h + 1, state, path[h + 1])
  PROVE  Folded(levels, halved, path, isLeaf, n, h + 1, next)
<1> DEFINE level == levels[h + 1]
           above == levels[(h + 1) + 1]
           at    == halved[h + 1]
           up    == halved[(h + 1) + 1]
           beside == level[Beside(Width(level), at) + 1].digest
           digest == path[h + 1]
<1>1. PICK span \in Nat \ {0} :
        /\ Ranged(level, span, n)
        /\ at \in 0..(Width(level) - 1)
        /\ state # null => Stands(state, level, at, span)
        /\ (state # null /\ state.node.digest = level[at + 1].digest)
             <=> isLeaf /\ PathUpto(levels, halved, path, h)
  BY DEF Folded
<1>2. /\ Width(level) \in Nat \ {0}
      /\ above = LevelAbove(descriptor, kind, scope, h + 1, level)
      /\ up = at \div 2
      /\ next = Climb(descriptor, kind, scope, n, h + 1, state, digest)
  OBVIOUS
<1>3. PathUpto(levels, halved, path, h + 1)
        <=> PathUpto(levels, halved, path, h) /\ digest = beside
  <2>1. \A j \in 1..(h + 1) : j \in 1..h \/ j = h + 1
    OBVIOUS
  <2>2. h + 1 \in 1..(h + 1) /\ \A j \in 1..h : j \in 1..(h + 1)
    OBVIOUS
  <2> QED
    BY <2>1, <2>2 DEF PathUpto
<1> HIDE DEF level, above, at, up, beside, digest
<1>4. Ranged(above, 2 * span, n) /\ 2 * span \in Nat \ {0}
  BY <1>1, <1>2, RangedAbove
<1>5. /\ up \in 0..(Width(above) - 1)
      /\ next # null => Stands(next, above, up, 2 * span)
      /\ (next # null /\ next.node.digest = above[up + 1].digest)
           <=> isLeaf /\ PathUpto(levels, halved, path, h + 1)
  <2>1. CASE state = null
    <3>1. next = null
      BY <1>2, <2>1 DEF Climb
    <3>2. up \in 0..(Width(above) - 1)
      <4>1. Width(above) = (Width(level) + 1) \div 2
        BY <1>2, LevelAboveWidth
      <4> DEFINE w == Width(level)
      <4>2. w \in Nat \ {0} /\ at \in 0..(w - 1)
        BY <1>1, <1>2
      <4> HIDE DEF w
      <4>3. at \div 2 \in 0..(((w + 1) \div 2) - 1)
        BY <4>2
      <4> QED
        BY <1>2, <4>1, <4>3 DEF w
    <3>3. ~ (isLeaf /\ PathUpto(levels, halved, path, h))
      BY <1>1, <2>1
    <3> QED
      BY <1>3, <3>1, <3>2, <3>3
  <2>2. CASE state # null
    <3>1. Stands(state, level, at, span)
      BY <1>1, <2>2
    <3>2. /\ at \div 2 \in 0..(Width(above) - 1)
          /\ next # null => Stands(next, above, at \div 2, 2 * span)
          /\ (next # null /\ next.node.digest = above[(at \div 2) + 1].digest)
               <=> /\ state.node.digest = level[at + 1].digest
                   /\ digest = level[Beside(Width(level), at) + 1].digest
      BY <1>1, <1>2, <2>2, <3>1, ClimbBinds
    <3>3. (next # null /\ next.node.digest = above[up + 1].digest)
            <=> isLeaf /\ PathUpto(levels, halved, path, h + 1)
      BY <1>1, <1>2, <1>3, <2>2, <3>2 DEF beside
    <3> QED
      BY <1>2, <3>2, <3>3
  <2> QED
    BY <2>1, <2>2
<1>6. \E wider \in Nat \ {0} :
        /\ Ranged(above, wider, n)
        /\ up \in 0..(Width(above) - 1)
        /\ next # null => Stands(next, above, up, wider)
        /\ (next # null /\ next.node.digest = above[up + 1].digest)
             <=> isLeaf /\ PathUpto(levels, halved, path, h + 1)
  BY <1>4, <1>5
<1> QED
  BY <1>6 DEF Folded, above, up

\* A path folds a leaf to the root of a list exactly if the list has the leaf at its
\* index and the path is its path.
LEMMA FoldBinds ==
  ASSUME NEW descriptor, NEW kind, NEW scope, NEW values, NEW n, Width(values) = n,
         n \in Nat \ {0}, NEW levels, levels = duplicateLevels(descriptor, kind, scope, values),
         TopDigest(levels) # null, NEW index \in 0..(n - 1), NEW value, NEW path, IsList(path)
  PROVE  duplicateFold(descriptor, kind, scope, n, index, value, path) = TopDigest(levels)
           <=> value = values[index + 1] /\ path = duplicatePath(levels, index)
<1>1. PICK top : IsTree(levels, descriptor, kind, scope, values, top)
  BY LevelsShape
<1>2. /\ top \in Nat
      /\ top = bitLength[n - 1]
      /\ Width(levels) = top + 1
      /\ levels[1] = Leaves(values)
      /\ \A h \in 1..top : levels[h + 1] = LevelAbove(descriptor, kind, scope, h, levels[h])
      /\ \A h \in 1..(top + 1) : Width(levels[h]) \in Nat \ {0}
      /\ Width(levels[top + 1]) = 1
  BY <1>1 DEF IsTree
<1>3. Width(path) \in Nat /\ path = [h \in 1..Width(path) |-> path[h]]
  BY ListFacts DEF Width
<1>4. PICK current : IsFolded(current, descriptor, kind, scope, n, index, value, path)
  BY <1>3, FoldUnfold
<1>5. PICK halved : IsHalved(halved, levels, index)
  BY <1>2, PathUnfold
<1>6. /\ halved[1] = index
      /\ \A h \in 2..(top + 1) : halved[h] = halved[h - 1] \div 2
  BY <1>2, <1>5 DEF IsHalved
<1>7. duplicatePath(levels, index)
        = [h \in 1..top |-> levels[h][Beside(Width(levels[h]), halved[h]) + 1].digest]
  <2>1. (top + 1) - 1 = top
    BY <1>2
  <2> QED
    BY <1>2, <1>5, <2>1 DEF IsHalved
<1> DEFINE given == duplicatePath(levels, index)
           folded == duplicateFold(descriptor, kind, scope, n, index, value, path)
           isLeaf == value = values[index + 1]
           Upto(h) == Folded(levels, halved, path, isLeaf, n, h, current[h])
<1>8. Width(given) = top
  <2> HIDE DEF given
  <2>1. given = [h \in 1..top |-> given[h]]
    BY <1>7 DEF given
  <2> QED
    BY <1>2, <2>1, WidthOfFunction
<1>9. /\ current[0] = FoldState(LeafNode(value, index), index, n, 1)
      /\ \A h \in 1..Width(path) :
           current[h] = Climb(descriptor, kind, scope, n, h, current[h - 1], path[h])
      /\ Width(path) # top => folded = null
      /\ Width(path) = top => folded = IF current[top] = null THEN null
                                       ELSE current[top].node.digest
  <2>1. ~ (index >= n)
    OBVIOUS
  <2> QED
    BY <1>2, <1>4, <2>1 DEF IsFolded
<1>10. CASE Width(path) # top
  BY <1>8, <1>9, <1>10
<1>11. CASE Width(path) = top
  <2> DEFINE Done == {h \in Nat : h <= top => Upto(h)}
  <2>1. 0 \in Done
    <3>1. Upto(0)
      <4>1. isLeaf \in BOOLEAN /\ (isLeaf <=> value = values[index + 1])
        OBVIOUS
      <4> HIDE DEF isLeaf
      <4> QED
        BY <1>2, <1>6, <1>9, <4>1, FoldedLeaf
    <3> QED
      BY <3>1
  <2>2. ASSUME NEW h \in Nat, h \in Done PROVE h + 1 \in Done
    <3> SUFFICES ASSUME h + 1 <= top PROVE Upto(h + 1)
      OBVIOUS
    <3>1. Upto(h)
      BY <1>2, <2>2
    <3>2. /\ Width(levels[h + 1]) \in Nat \ {0}
          /\ levels[(h + 1) + 1] = LevelAbove(descriptor, kind, scope, h + 1, levels[h + 1])
          /\ halved[(h + 1) + 1] = halved[h + 1] \div 2
          /\ current[h + 1] = Climb(descriptor, kind, scope, n, h + 1, current[h], path[h + 1])
      <4>1. h + 1 \in 1..top /\ (h + 1) + 1 \in 2..(top + 1) /\ (h + 1) + 1 - 1 = h + 1
            /\ (h + 1) - 1 = h /\ h + 1 \in 1..(top + 1)
        BY <1>2
      <4> QED
        BY <1>2, <1>6, <1>9, <1>11, <4>1
    <3>3. isLeaf \in BOOLEAN /\ n \in Nat
      OBVIOUS
    <3> HIDE DEF isLeaf
    <3> QED
      BY <3>1, <3>2, <3>3, FoldedNode
  <2> HIDE DEF Done
  <2>3. top \in Done
    BY <1>2, <2>1, <2>2, SetInduction
  <2>4. Upto(top)
    BY <1>2, <2>3 DEF Done
  <2> DEFINE last == levels[top + 1]
             at == halved[top + 1]
             state == current[top]
  <2>5. /\ at \in 0..(Width(last) - 1)
        /\ (state # null /\ state.node.digest = last[at + 1].digest)
             <=> isLeaf /\ PathUpto(levels, halved, path, top)
    BY <2>4 DEF Folded
  <2>6. at = 0
    BY <1>2, <2>5
  <2>7. TopDigest(levels) = last[1].digest
    <3>1. Len(levels) = top + 1
      BY <1>2 DEF Width
    <3> QED
      BY <3>1 DEF TopDigest
  <2>8. path = given <=> PathUpto(levels, halved, path, top)
    <3> DEFINE Digest(h) == levels[h][Beside(Width(levels[h]), halved[h]) + 1].digest
    <3>1. given = [h \in 1..top |-> Digest(h)] /\ path = [h \in 1..top |-> path[h]]
      BY <1>3, <1>7, <1>11
    <3>2. PathUpto(levels, halved, path, top) <=> \A h \in 1..top : path[h] = Digest(h)
      BY DEF PathUpto
    <3> HIDE DEF given, Digest
    <3> QED
      BY <3>1, <3>2
  <2>9. folded = IF state = null THEN null ELSE state.node.digest
    BY <1>9, <1>11
  <2> HIDE DEF last, at, state, given, folded, isLeaf
  <2>10. folded = TopDigest(levels) <=> (state # null /\ state.node.digest = last[at + 1].digest)
    BY <2>6, <2>7, <2>9
  <2>11. folded = TopDigest(levels) <=> isLeaf /\ path = given
    BY <2>5, <2>8, <2>10
  <2> QED
    BY <2>11 DEF folded, isLeaf, given
<1> QED
  BY <1>10, <1>11

-----------------------------------------------------------------------------
(* Roots                                                                   *)

\* The digest of a node covers where its range ends; that of the top, the length of
\* the list.
NodeDigest(over, left, right) == [over |-> over, left |-> left, right |-> right]
CoversList(digest, descriptor, kind, scope, n) ==
  \E first, height, left, right :
    digest = NodeDigest(<<descriptor, kind, scope, first, n, height>>, left, right)

\* The root of a list of one is its leaf; that of a longer one covers its length.
LEMMA TopOfTree ==
  ASSUME NEW descriptor, NEW kind, NEW scope, NEW values, NEW n, Width(values) = n,
         n \in Nat \ {0}, NEW levels, levels = duplicateLevels(descriptor, kind, scope, values)
  PROVE  /\ n = 1 => TopDigest(levels) = values[1]
         /\ n # 1 => CoversList(TopDigest(levels), descriptor, kind, scope, n)
<1>1. PICK top : IsTree(levels, descriptor, kind, scope, values, top)
  BY LevelsShape
<1>2. /\ top \in Nat
      /\ top = bitLength[n - 1]
      /\ Width(levels) = top + 1
      /\ levels[1] = Leaves(values)
      /\ \A h \in 1..top : levels[h + 1] = LevelAbove(descriptor, kind, scope, h, levels[h])
      /\ \A h \in 1..(top + 1) : Width(levels[h]) \in Nat \ {0}
      /\ Width(levels[top + 1]) = 1
  BY <1>1 DEF IsTree
<1>3. TopDigest(levels) = levels[top + 1][1].digest
  <2>1. Len(levels) = top + 1
    BY <1>2 DEF Width
  <2> QED
    BY <2>1 DEF TopDigest
<1>4. n = 1 <=> top = 0
  <2>1. n - 1 \in Nat
    OBVIOUS
  <2>2. n = 1 => top = 0
    BY <1>2, BitLengthValues
  <2>3. top = 0 => n - 1 = 0
    BY <1>2, <2>1, NoDigits
  <2> QED
    BY <2>2, <2>3
<1>5. ASSUME n = 1 PROVE TopDigest(levels) = values[1]
  <2>1. TopDigest(levels) = levels[1][1].digest
    BY <1>3, <1>4, <1>5
  <2>2. Leaves(values) = [i \in 1..n |-> LeafNode(values[i], i - 1)]
    BY DEF Leaves, Width
  <2>3. Leaves(values)[1] = LeafNode(values[1], 1 - 1)
    BY <1>5, <2>2
  <2> QED
    BY <1>2, <2>1, <2>3 DEF LeafNode
<1>6. ASSUME n # 1
      PROVE  CoversList(TopDigest(levels), descriptor, kind, scope, n)
  <2>1. top \in 1..top /\ top - 1 \in Nat /\ top \in 1..(top + 1)
    BY <1>2, <1>4, <1>6
  <2> DEFINE Reached == {h \in Nat : h <= top =>
                           \E span \in Nat \ {0} : Ranged(levels[h + 1], span, n)}
  <2>2. 0 \in Reached
    <3>1. Ranged(levels[1], 1, n)
      BY <1>2, RangedLeaves
    <3> QED
      BY <3>1
  <2>3. ASSUME NEW h \in Nat, h \in Reached PROVE h + 1 \in Reached
    <3> SUFFICES ASSUME h + 1 <= top
                 PROVE  \E span \in Nat \ {0} : Ranged(levels[(h + 1) + 1], span, n)
      OBVIOUS
    <3>1. PICK span \in Nat \ {0} : Ranged(levels[h + 1], span, n)
      BY <1>2, <2>3
    <3>2. h + 1 \in 1..top /\ h + 1 \in 1..(top + 1) /\ n \in Nat
      BY <1>2
    <3>3. /\ levels[(h + 1) + 1] = LevelAbove(descriptor, kind, scope, h + 1, levels[h + 1])
          /\ Width(levels[h + 1]) \in Nat \ {0}
      BY <1>2, <3>2
    <3>4. Ranged(levels[(h + 1) + 1], 2 * span, n)
      BY <3>1, <3>2, <3>3, RangedAbove
    <3> QED
      BY <3>4
  <2> HIDE DEF Reached
  <2>4. top \in Reached
    BY <1>2, <2>2, <2>3, SetInduction
  <2>5. PICK span \in Nat \ {0} : Ranged(levels[top + 1], span, n)
    BY <1>2, <2>4 DEF Reached
  <2> DEFINE below == levels[top]
             above == levels[top + 1]
  <2>6. above = LevelAbove(descriptor, kind, scope, top, below) /\ Width(below) \in Nat \ {0}
        /\ Width(above) = 1
    BY <1>2, <2>1
  <2>7. above[1].last = n
    <3>1. 1 * span >= n /\ above[1].last = Least(1 * span, n)
      BY <2>5, <2>6 DEF Ranged
    <3> QED
      BY <3>1 DEF Least
  <2> HIDE DEF below, above
  <2>8. above[1] = node(descriptor, kind, scope, top, below[2 * 1 - 1],
                        below[IF 2 * 1 <= Width(below) THEN 2 * 1 ELSE 2 * 1 - 1])
    BY <2>6, LevelAboveWidth
  <2> DEFINE left  == below[2 * 1 - 1]
             right == below[IF 2 * 1 <= Width(below) THEN 2 * 1 ELSE 2 * 1 - 1]
  <2>9. above[1] = node(descriptor, kind, scope, top, left, right)
    BY <2>8
  <2> HIDE DEF left, right
  <2>10. /\ above[1].digest = NodeDigest(<<descriptor, kind, scope, left.first, right.last, top>>,
                                         left.digest, right.digest)
         /\ above[1].last = right.last
    BY <2>9 DEF node, NodeDigest
  <2>11. TopDigest(levels) = NodeDigest(<<descriptor, kind, scope, left.first, n, top>>,
                                        left.digest, right.digest)
    BY <1>3, <2>7, <2>10 DEF above
  <2> QED
    BY <2>11 DEF CoversList
<1> QED
  BY <1>5, <1>6

\* A root is no failure.
LEMMA TopIsDigest ==
  ASSUME NEW descriptor, NEW kind, NEW scope, NEW values, NEW n, Width(values) = n,
         n \in Nat \ {0}, NEW levels, levels = duplicateLevels(descriptor, kind, scope, values),
         values[1] # null
  PROVE  TopDigest(levels) # null
<1>1. \A over, left, right : NodeDigest(over, left, right) # null
  BY DEF NodeDigest, null
<1>2. CASE n = 1
  <2>1. TopDigest(levels) = values[1]
    BY <1>2, TopOfTree
  <2> QED
    BY <2>1
<1>3. CASE n # 1
  <2>1. CoversList(TopDigest(levels), descriptor, kind, scope, n)
    BY <1>3, TopOfTree
  <2> QED
    BY <1>1, <2>1 DEF CoversList
<1> QED
  BY <1>2, <1>3

\* The path of a leaf is a list.
LEMMA PathIsList ==
  ASSUME NEW descriptor, NEW kind, NEW scope, NEW values, Width(values) \in Nat \ {0},
         NEW levels, levels = duplicateLevels(descriptor, kind, scope, values), NEW index
  PROVE  IsList(duplicatePath(levels, index))
<1> DEFINE path == duplicatePath(levels, index)
<1>1. PICK top : IsTree(levels, descriptor, kind, scope, values, top)
  BY LevelsShape
<1>2. Width(levels) \in Nat \ {0} /\ Width(levels) - 1 \in Nat
  BY <1>1 DEF IsTree
<1>3. PICK halved : IsHalved(halved, levels, index)
  BY <1>2, PathUnfold
<1>4. path = [h \in 1..(Width(levels) - 1) |->
                levels[h][Beside(Width(levels[h]), halved[h]) + 1].digest]
  BY <1>3 DEF IsHalved
<1> HIDE DEF path
<1>5. path = [h \in 1..(Width(levels) - 1) |-> path[h]]
  BY <1>4
<1>6. IsList(path)
  BY <1>2, <1>5, WidthOfFunction
<1> QED
  BY <1>6 DEF path

\* Two lists of one length with one root are one list.
LEMMA SameLengthBinds ==
  ASSUME NEW descriptor, NEW kind, NEW scope, NEW n \in Nat \ {0},
         NEW v, NEW w, v = [i \in 1..n |-> v[i]], w = [i \in 1..n |-> w[i]], v[1] # null,
         TopDigest(duplicateLevels(descriptor, kind, scope, v))
           = TopDigest(duplicateLevels(descriptor, kind, scope, w))
  PROVE  v = w
<1> DEFINE vLevels == duplicateLevels(descriptor, kind, scope, v)
           wLevels == duplicateLevels(descriptor, kind, scope, w)
<1>1. Width(v) = n /\ Width(w) = n
  BY WidthOfFunction
<1>2. TopDigest(vLevels) # null /\ TopDigest(vLevels) = TopDigest(wLevels)
  BY <1>1, TopIsDigest
<1>4. /\ vLevels = duplicateLevels(descriptor, kind, scope, v)
      /\ wLevels = duplicateLevels(descriptor, kind, scope, w)
  OBVIOUS
<1> HIDE DEF vLevels, wLevels
<1>5. ASSUME NEW index \in 0..(n - 1) PROVE v[index + 1] = w[index + 1]
  <2> DEFINE path == duplicatePath(vLevels, index)
             leaf == v[index + 1]
             folded == duplicateFold(descriptor, kind, scope, n, index, leaf, path)
  <2>1. IsList(path)
    BY <1>1, <1>4, PathIsList
  <2>4. leaf = v[index + 1] /\ path = duplicatePath(vLevels, index)
        /\ folded = duplicateFold(descriptor, kind, scope, n, index, leaf, path)
    OBVIOUS
  <2> HIDE DEF path, leaf, folded
  <2>2. folded = TopDigest(vLevels) <=> leaf = v[index + 1] /\ path = duplicatePath(vLevels, index)
    BY <1>1, <1>2, <1>4, <2>1, <2>4, FoldBinds
  <2>3. folded = TopDigest(wLevels) <=> leaf = w[index + 1] /\ path = duplicatePath(wLevels, index)
    <3>1. TopDigest(wLevels) # null
      BY <1>2
    <3> QED
      BY <1>1, <1>4, <2>1, <2>4, <3>1, FoldBinds
  <2> QED
    BY <1>2, <2>2, <2>3, <2>4
<1>6. ASSUME NEW i \in 1..n PROVE v[i] = w[i]
  <2>1. i - 1 \in 0..(n - 1) /\ (i - 1) + 1 = i
    OBVIOUS
  <2> QED
    BY <1>5, <2>1
<1> QED
  BY <1>6

-----------------------------------------------------------------------------
(* Roots bind their lists                                                  *)

\* What the digests of a list are: of nothing in a tree.
DigestsOfNothing ==
  \A d \in Digests : d # null /\ \A over, left, right : d # NodeDigest(over, left, right)

\* The root duplicateLevels has for the entries of a segment.
SegmentTop(list) == TopDigest(duplicateLevels(DOCUMENT, SEGMENT_TREE, POSITION, list))

\* The root of a list of digests, of one element and of several.
LEMMA RootOfList ==
  ASSUME DigestsOfNothing, NEW n \in Nat \ {0}, NEW v \in [1..n -> Digests]
  PROVE  /\ n = 1 => SegmentTop(v) \in Digests
         /\ n # 1 => CoversList(SegmentTop(v), DOCUMENT, SEGMENT_TREE, POSITION, n)
<1>1. Width(v) = n
  <2>1. v = [i \in 1..n |-> v[i]]
    OBVIOUS
  <2> QED
    BY <2>1, WidthOfFunction
<1>2. n = 1 => SegmentTop(v) = v[1]
  BY <1>1, TopOfTree DEF SegmentTop
<1>3. n # 1 => CoversList(SegmentTop(v), DOCUMENT, SEGMENT_TREE, POSITION, n)
  BY <1>1, TopOfTree DEF SegmentTop
<1> QED
  BY <1>2, <1>3

\* Lists with one root of duplicateLevels are one list, whatever their lengths: a
\* list of odd length is folded as if its last leaf came twice, and is not mistaken
\* for the list in which it does, since a node covers the range it stands for.
THEOREM RootsBindLists ==
  ASSUME DigestsOfNothing, NEW n \in Nat \ {0}, NEW m \in Nat \ {0},
         NEW v \in [1..n -> Digests], NEW w \in [1..m -> Digests],
         SegmentTop(v) = SegmentTop(w)
  PROVE  v = w
<1>1. \A d \in Digests : ~ CoversList(d, DOCUMENT, SEGMENT_TREE, POSITION, n)
                         /\ ~ CoversList(d, DOCUMENT, SEGMENT_TREE, POSITION, m)
  BY DEF DigestsOfNothing, CoversList
<1>2. /\ n = 1 => SegmentTop(v) \in Digests
      /\ n # 1 => CoversList(SegmentTop(v), DOCUMENT, SEGMENT_TREE, POSITION, n)
  BY RootOfList
<1>3. /\ m = 1 => SegmentTop(w) \in Digests
      /\ m # 1 => CoversList(SegmentTop(w), DOCUMENT, SEGMENT_TREE, POSITION, m)
  BY RootOfList
<1>4. n = m
  <2>1. CASE n = 1 \/ m = 1
    BY <1>1, <1>2, <1>3, <2>1
  <2>2. CASE n # 1 /\ m # 1
    <3>1. PICK f1, h1, l1, r1 :
            SegmentTop(v) = NodeDigest(<<DOCUMENT, SEGMENT_TREE, POSITION, f1, n, h1>>, l1, r1)
      BY <1>2, <2>2 DEF CoversList
    <3>2. PICK f2, h2, l2, r2 :
            SegmentTop(w) = NodeDigest(<<DOCUMENT, SEGMENT_TREE, POSITION, f2, m, h2>>, l2, r2)
      BY <1>3, <2>2 DEF CoversList
    <3>3. NodeDigest(<<DOCUMENT, SEGMENT_TREE, POSITION, f1, n, h1>>, l1, r1)
            = NodeDigest(<<DOCUMENT, SEGMENT_TREE, POSITION, f2, m, h2>>, l2, r2)
      BY <3>1, <3>2
    <3>4. <<DOCUMENT, SEGMENT_TREE, POSITION, f1, n, h1>>
            = <<DOCUMENT, SEGMENT_TREE, POSITION, f2, m, h2>>
      BY <3>3 DEF NodeDigest
    <3> QED
      BY <3>4
  <2> QED
    BY <2>1, <2>2
<1>5. 1 \in 1..n /\ v[1] \in Digests
  OBVIOUS
<1>6. v[1] # null /\ v = [i \in 1..n |-> v[i]] /\ w = [i \in 1..n |-> w[i]]
  BY <1>4, <1>5 DEF DigestsOfNothing
<1>7. TopDigest(duplicateLevels(DOCUMENT, SEGMENT_TREE, POSITION, v))
        = TopDigest(duplicateLevels(DOCUMENT, SEGMENT_TREE, POSITION, w))
  BY DEF SegmentTop
<1> QED
  BY <1>6, <1>7, SameLengthBinds

\* The functions between two finite sets are finitely many.
LEMMA FiniteFunctions ==
  ASSUME NEW S, IsFiniteSet(S), NEW T, IsFiniteSet(T)
  PROVE  IsFiniteSet([S -> T])
<1> DEFINE Graph(f) == {pair \in S \X T : f[pair[1]] = pair[2]}
           graph == [f \in [S -> T] |-> Graph(f)]
<1>1. IsFiniteSet(SUBSET (S \X T))
  BY FS_Product, FS_SUBSET
<1>2. graph \in [[S -> T] -> SUBSET (S \X T)]
  OBVIOUS
<1>3. ASSUME NEW f \in [S -> T], NEW g \in [S -> T], graph[f] = graph[g] PROVE f = g
  <2>1. Graph(f) = Graph(g)
    BY <1>3
  <2>2. ASSUME NEW x \in S PROVE f[x] = g[x]
    <3>1. <<x, f[x]>> \in Graph(f)
      OBVIOUS
    <3>2. <<x, f[x]>> \in Graph(g)
      BY <2>1, <3>1
    <3> QED
      BY <3>2
  <2> QED
    BY <2>2
<1> HIDE DEF graph
<1>4. graph \in Injection([S -> T], SUBSET (S \X T))
  BY <1>2, <1>3 DEF Injection, IsInjective
<1> QED
  BY <1>1, <1>4, FS_Injection

\* There are as many roots of duplicateLevels as lists up to a length.
THEOREM RootsCountLists ==
  ASSUME DigestsOfNothing, IsFiniteSet(Digests), NEW most \in Nat \ {0}
  PROVE  LET lists == UNION {[1..n -> Digests] : n \in 1..most}
         IN  Cardinality({SegmentTop(list) : list \in lists}) = Cardinality(lists)
<1> DEFINE Lists(n) == [1..n -> Digests]
           families == {Lists(n) : n \in 1..most}
           lists == UNION families
           roots == {SegmentTop(list) : list \in lists}
           root == [list \in lists |-> SegmentTop(list)]
<1>1. IsFiniteSet(lists)
  <2>1. IsFiniteSet(families)
    <3> DEFINE family == [n \in 1..most |-> Lists(n)]
    <3>1. IsFiniteSet(1..most)
      BY FS_Interval
    <3>2. family \in Surjection(1..most, families)
      BY DEF Surjection
    <3> HIDE DEF family, families
    <3> QED
      BY <3>1, <3>2, FS_Surjection
  <2>2. ASSUME NEW family \in families PROVE IsFiniteSet(family)
    <3>1. PICK n \in 1..most : family = Lists(n)
      OBVIOUS
    <3>2. IsFiniteSet(1..n)
      BY FS_Interval
    <3>3. IsFiniteSet([1..n -> Digests])
      BY <3>2, FiniteFunctions
    <3> QED
      BY <3>1, <3>3
  <2> HIDE DEF families
  <2> QED
    BY <2>1, <2>2, FS_UNION
<1>2. ASSUME NEW v \in lists, NEW w \in lists, SegmentTop(v) = SegmentTop(w) PROVE v = w
  <2>1. PICK n \in 1..most : v \in [1..n -> Digests]
    OBVIOUS
  <2>2. PICK m \in 1..most : w \in [1..m -> Digests]
    OBVIOUS
  <2>3. n \in Nat \ {0} /\ m \in Nat \ {0}
    OBVIOUS
  <2> QED
    BY <1>2, <2>1, <2>2, <2>3, RootsBindLists
<1> HIDE DEF lists
<1>3. root \in Injection(lists, roots) /\ root \in Surjection(lists, roots)
  BY <1>2 DEF Injection, IsInjective, Surjection
<1> HIDE DEF root, roots
<1>4. Cardinality(roots) = Cardinality(lists)
  BY <1>1, <1>3, FS_Surjection
<1> QED
  BY <1>4 DEF roots, lists

-----------------------------------------------------------------------------
(* Attestations                                                            *)

\* A position of m segments of n entries.
IsPosition(segments, m, n) ==
  /\ m \in Nat \ {0}
  /\ n \in Nat \ {0}
  /\ Width(segments) = m
  /\ \A s \in 1..m : Width(segments[s]) = n

\* The committer's positions are of that form.
LEMMA PositionShape ==
  ASSUME NEW segments \in Positions
  PROVE  \E m, n : IsPosition(segments, m, n)
<1> DEFINE Filled(m, n, odd, two) ==
             [s \in 1..m |-> [l \in 1..n |-> IF <<s, l>> = odd THEN two[1] ELSE two[2]]]
           Odds(m, n) == {<<1, 1>>, <<m, n>>}
           Pairs == {pair \in Entries \X Entries : pair[1] # pair[2]}
           Of(m, n) == {Filled(m, n, odd, two) : odd \in Odds(m, n), two \in Pairs}
<1>0. Positions = UNION {Of(m, n) : m \in 1..MaxSegments, n \in 1..MaxEntries}
  BY DEF Positions
<1> HIDE DEF Filled, Odds, Pairs
<1>1. PICK m \in 1..MaxSegments, n \in 1..MaxEntries : segments \in Of(m, n)
  <2> HIDE DEF Of
  <2> QED
    BY <1>0
<1>2. PICK odd \in Odds(m, n), two \in Pairs : segments = Filled(m, n, odd, two)
  BY <1>1
<1> DEFINE Cell(s, l) == IF <<s, l>> = odd THEN two[1] ELSE two[2]
<1>3. segments = [s \in 1..m |-> [l \in 1..n |-> Cell(s, l)]]
  BY <1>2 DEF Filled
<1> HIDE DEF Cell
<1>4. m \in Nat \ {0} /\ n \in Nat \ {0}
  BY TreesAssumption
<1>5. Width(segments) = m
  <2>1. segments = [s \in 1..m |-> segments[s]]
    BY <1>3
  <2> QED
    BY <1>4, <2>1, WidthOfFunction
<1>6. ASSUME NEW s \in 1..m PROVE Width(segments[s]) = n
  <2> DEFINE segment == segments[s]
  <2>1. segment = [l \in 1..n |-> Cell(s, l)]
    BY <1>3
  <2> HIDE DEF segment
  <2>2. segment = [l \in 1..n |-> segment[l]]
    BY <2>1
  <2>3. Width(segment) = n
    BY <1>4, <2>2, WidthOfFunction
  <2> QED
    BY <2>3 DEF segment
<1>7. IsPosition(segments, m, n)
  BY <1>4, <1>5, <1>6 DEF IsPosition
<1> QED
  BY <1>7

\* The leaves of a segment.
EntryLeaves(segments, s) ==
  [i \in 1..Len(segments[s + 1]) |->
     LeafDigest(DOCUMENT, POSITION, s, i - 1, EntryLeaf(segments, s, i - 1))]

\* There are as many leaves as entries, each the digest of its entry's leaf.
LEMMA EntryLeavesShape ==
  ASSUME NEW segments, NEW m, NEW n, IsPosition(segments, m, n), NEW s \in 0..(m - 1)
  PROVE  /\ Width(EntryLeaves(segments, s)) = n
         /\ \A l \in 0..(n - 1) : EntryLeaves(segments, s)[l + 1]
                                    = LeafDigest(DOCUMENT, POSITION, s, l, EntryLeaf(segments, s, l))
<1> DEFINE leaves == EntryLeaves(segments, s)
           Leaf(i) == LeafDigest(DOCUMENT, POSITION, s, i - 1, EntryLeaf(segments, s, i - 1))
<1>1. m \in Nat \ {0} /\ n \in Nat \ {0} /\ s + 1 \in 1..m
  BY DEF IsPosition
<1>2. Len(segments[s + 1]) = n
  BY <1>1 DEF IsPosition, Width
<1>3. leaves = [i \in 1..n |-> Leaf(i)]
  BY <1>2 DEF EntryLeaves
<1> HIDE DEF leaves
<1>4. ASSUME NEW l \in 0..(n - 1)
      PROVE  leaves[l + 1] = LeafDigest(DOCUMENT, POSITION, s, l, EntryLeaf(segments, s, l))
  <2>1. l + 1 \in 1..n /\ (l + 1) - 1 = l
    BY <1>1
  <2>2. leaves[l + 1] = Leaf(l + 1)
    BY <1>3, <2>1
  <2> QED
    BY <2>1, <2>2
<1> HIDE DEF Leaf
<1>5. leaves = [i \in 1..n |-> leaves[i]]
  BY <1>3
<1>6. Width(leaves) = n
  BY <1>1, <1>5, WidthOfFunction
<1> QED
  BY <1>4, <1>6 DEF leaves

\* There are as many segment roots as segments, each over its entries.
LEMMA SegmentRootsShape ==
  ASSUME NEW segments, NEW m, NEW n, IsPosition(segments, m, n)
  PROVE  /\ Width(SegmentRoots(segments)) = m
         /\ \A s \in 0..(m - 1) :
              SegmentRoots(segments)[s + 1]
                = SegmentDigest(DOCUMENT, POSITION, s, n, TopDigest(EntryLevels(segments, s)))
<1> DEFINE roots == SegmentRoots(segments)
           Root(i) == SegmentDigest(DOCUMENT, POSITION, i - 1, Len(segments[i]),
                                    TopDigest(EntryLevels(segments, i - 1)))
<1>1. m \in Nat \ {0} /\ n \in Nat \ {0}
  BY DEF IsPosition
<1>2. Len(segments) = m /\ \A s \in 1..m : Len(segments[s]) = n
  BY DEF IsPosition, Width
<1>3. roots = [i \in 1..m |-> Root(i)]
  BY <1>2 DEF SegmentRoots
<1> HIDE DEF roots
<1>4. ASSUME NEW s \in 0..(m - 1)
      PROVE  roots[s + 1]
               = SegmentDigest(DOCUMENT, POSITION, s, n, TopDigest(EntryLevels(segments, s)))
  <2>1. s + 1 \in 1..m /\ (s + 1) - 1 = s
    BY <1>1
  <2>2. roots[s + 1] = Root(s + 1)
    BY <1>3, <2>1
  <2> QED
    BY <1>2, <2>1, <2>2
<1> HIDE DEF Root
<1>5. roots = [i \in 1..m |-> roots[i]]
  BY <1>3
<1>6. Width(roots) = m
  BY <1>1, <1>5, WidthOfFunction
<1> QED
  BY <1>4, <1>6 DEF roots

\* A leaf and a path lead to the root of a segment exactly if the leaf is that of
\* the entry and the path is its path.
LEMMA SegmentBinds ==
  ASSUME NEW segments, NEW m, NEW n, IsPosition(segments, m, n), NEW s \in 0..(m - 1),
         NEW l \in 0..(n - 1), NEW tail, NEW path, IsList(path)
  PROVE  segmentRootFromLeaf(DOCUMENT, POSITION, s, n, l,
                             LeafDigest(DOCUMENT, POSITION, s, l, tail), path)
           = SegmentRoots(segments)[s + 1]
         <=> /\ tail = EntryLeaf(segments, s, l)
             /\ path = duplicatePath(EntryLevels(segments, s), l)
<1> DEFINE leaves == EntryLeaves(segments, s)
           levels == EntryLevels(segments, s)
           leaf   == LeafDigest(DOCUMENT, POSITION, s, l, tail)
           folded == duplicateFold(DOCUMENT, SEGMENT_TREE, POSITION, n, l, leaf, path)
<1>1. n \in Nat \ {0}
  BY DEF IsPosition
<1>2. Width(leaves) = n /\ leaves[1] # null
      /\ leaves[l + 1] = LeafDigest(DOCUMENT, POSITION, s, l, EntryLeaf(segments, s, l))
  <2>1. 0 \in 0..(n - 1) /\ 0 + 1 = 1
    BY <1>1
  <2> DEFINE first == leaves[1]
  <2>2. first = LeafDigest(DOCUMENT, POSITION, s, 0, EntryLeaf(segments, s, 0))
    BY <2>1, EntryLeavesShape
  <2> HIDE DEF first
  <2>3. first # null
    BY <2>2 DEF LeafDigest, null
  <2> QED
    BY <2>3, EntryLeavesShape DEF first
<1>3. levels = duplicateLevels(DOCUMENT, SEGMENT_TREE, POSITION, leaves)
  BY DEF EntryLevels, EntryLeaves
<1> HIDE DEF leaves, levels, folded
<1>4. TopDigest(levels) # null
  BY <1>1, <1>2, <1>3, TopIsDigest
<1>5. folded = TopDigest(levels)
        <=> leaf = leaves[l + 1] /\ path = duplicatePath(levels, l)
  <2>1. leaf = LeafDigest(DOCUMENT, POSITION, s, l, tail)
    OBVIOUS
  <2> HIDE DEF leaf
  <2>2. folded = duplicateFold(DOCUMENT, SEGMENT_TREE, POSITION, n, l, leaf, path)
    BY DEF folded, leaf
  <2> QED
    BY <1>1, <1>2, <1>3, <1>4, <2>2, FoldBinds
<1>6. leaf = leaves[l + 1] <=> tail = EntryLeaf(segments, s, l)
  BY <1>2 DEF LeafDigest
<1> HIDE DEF leaf
<1>7. segmentRootFromLeaf(DOCUMENT, POSITION, s, n, l, leaf, path)
        = IF folded = null THEN null ELSE SegmentDigest(DOCUMENT, POSITION, s, n, folded)
  BY DEF segmentRootFromLeaf, folded
<1>8. SegmentRoots(segments)[s + 1]
        = SegmentDigest(DOCUMENT, POSITION, s, n, TopDigest(levels))
  BY SegmentRootsShape DEF levels
<1>9. /\ \A top : SegmentDigest(DOCUMENT, POSITION, s, n, top) # null
      /\ \A top, other : SegmentDigest(DOCUMENT, POSITION, s, n, top)
                           = SegmentDigest(DOCUMENT, POSITION, s, n, other) => top = other
  BY DEF SegmentDigest, null
<1>10. segmentRootFromLeaf(DOCUMENT, POSITION, s, n, l, leaf, path)
         = SegmentRoots(segments)[s + 1] <=> folded = TopDigest(levels)
  BY <1>4, <1>7, <1>8, <1>9
<1> QED
  BY <1>5, <1>6, <1>10 DEF leaf, levels

\* The tree over a position's segments, and the root landed for it.
PositionLevels(segments) ==
  duplicateLevels(DOCUMENT, POSITION_TREE, POSITION, SegmentRoots(segments))

PositionRoot(segments) == positionRoot(DOCUMENT, POSITION, TABLE, SegmentRoots(segments))

\* A segment root proves itself to the root of the position exactly if it is the
\* segment's that the proof names, over the committed table and by its path.
LEMMA PositionBinds ==
  ASSUME NEW segments, NEW m, NEW n, IsPosition(segments, m, n), NEW root, NEW spp1, NEW given,
         spp1.ordinal \in Nat, IsList(spp1.path)
  PROVE  verifySpp1(DOCUMENT, POSITION, m, root, spp1, PositionRoot(segments), given)
         <=> /\ spp1.ordinal < m
             /\ spp1.tableRoot = TABLE
             /\ root = SegmentRoots(segments)[spp1.ordinal + 1]
             /\ spp1.path = duplicatePath(PositionLevels(segments), spp1.ordinal)
<1> DEFINE roots  == SegmentRoots(segments)
           levels == PositionLevels(segments)
           at     == spp1.ordinal
           path   == spp1.path
           folded == duplicateFold(DOCUMENT, POSITION_TREE, POSITION, m, at, root, path)
<1>1. m \in Nat \ {0} /\ n \in Nat \ {0}
  BY DEF IsPosition
<1>2. Width(roots) = m /\ roots[1] # null
  <2>1. 0 \in 0..(m - 1) /\ 0 + 1 = 1
    BY <1>1
  <2> DEFINE first == roots[1]
  <2>2. first = SegmentDigest(DOCUMENT, POSITION, 0, n, TopDigest(EntryLevels(segments, 0)))
    BY <2>1, SegmentRootsShape
  <2> HIDE DEF first
  <2>3. first # null
    BY <2>2 DEF SegmentDigest, null
  <2> QED
    BY <2>3, SegmentRootsShape DEF first
<1>3. levels = duplicateLevels(DOCUMENT, POSITION_TREE, POSITION, roots)
  BY DEF PositionLevels
<1>4. PositionRoot(segments)
        = PositionDigest(DOCUMENT, POSITION, m, TABLE, TopDigest(levels))
  <2>1. Len(roots) = m
    BY <1>2 DEF Width
  <2> QED
    BY <2>1 DEF PositionRoot, positionRoot, PositionLevels
<1>5. verifySpp1(DOCUMENT, POSITION, m, root, spp1, PositionRoot(segments), given)
        <=> /\ "tableRoot" \in given => spp1.tableRoot = TABLE
            /\ at < m
            /\ folded # null
            /\ PositionDigest(DOCUMENT, POSITION, m, spp1.tableRoot, folded)
                 = PositionRoot(segments)
  BY DEF verifySpp1
<1>6. at \in Nat /\ IsList(path)
  OBVIOUS
<1>7. at = spp1.ordinal /\ path = spp1.path
      /\ folded = duplicateFold(DOCUMENT, POSITION_TREE, POSITION, m, at, root, path)
  OBVIOUS
<1> HIDE DEF roots, levels, at, path, folded
<1>8. TopDigest(levels) # null
  BY <1>1, <1>2, <1>3, TopIsDigest
<1>9. at < m => (folded = TopDigest(levels)
                   <=> root = roots[at + 1] /\ path = duplicatePath(levels, at))
  <2> SUFFICES ASSUME at < m
               PROVE  folded = TopDigest(levels)
                        <=> root = roots[at + 1] /\ path = duplicatePath(levels, at)
    OBVIOUS
  <2>1. at \in 0..(m - 1)
    BY <1>1, <1>6
  <2> QED
    BY <1>1, <1>2, <1>3, <1>6, <1>7, <1>8, <2>1, FoldBinds
<1>10. \A table, other, top, otherTop :
         PositionDigest(DOCUMENT, POSITION, m, table, top)
           = PositionDigest(DOCUMENT, POSITION, m, other, otherTop)
         <=> table = other /\ top = otherTop
  BY DEF PositionDigest
<1>11. verifySpp1(DOCUMENT, POSITION, m, root, spp1, PositionRoot(segments), given)
         <=> /\ at < m
             /\ spp1.tableRoot = TABLE
             /\ folded = TopDigest(levels)
  <2> DEFINE table == spp1.tableRoot
             top   == TopDigest(levels)
  <2>1. PositionDigest(DOCUMENT, POSITION, m, table, folded) = PositionRoot(segments)
          <=> table = TABLE /\ folded = top
    BY <1>4, <1>10
  <2>2. top # null
    BY <1>8
  <2>3. verifySpp1(DOCUMENT, POSITION, m, root, spp1, PositionRoot(segments), given)
          <=> /\ "tableRoot" \in given => table = TABLE
              /\ at < m
              /\ folded # null
              /\ PositionDigest(DOCUMENT, POSITION, m, table, folded) = PositionRoot(segments)
    BY <1>5
  <2> HIDE DEF table, top
  <2>4. verifySpp1(DOCUMENT, POSITION, m, root, spp1, PositionRoot(segments), given)
          <=> at < m /\ table = TABLE /\ folded = top
    BY <2>1, <2>2, <2>3
  <2> QED
    BY <2>4 DEF table, top
<1> QED
  BY <1>9, <1>11 DEF roots, levels, at, path

\* Nothing proves itself to the root of the position for another document, whether
\* or not the verifier expects one.
LEMMA DocumentBinds ==
  ASSUME NEW segments, NEW m, NEW n, IsPosition(segments, m, n), NEW descriptor, NEW root,
         NEW spp1, NEW given,
         verifySpp1(descriptor, POSITION, m, root, spp1, PositionRoot(segments), given)
  PROVE  descriptor = DOCUMENT
<1> DEFINE folded == duplicateFold(descriptor, POSITION_TREE, POSITION, m, spp1.ordinal, root,
                                   spp1.path)
           top    == TopDigest(PositionLevels(segments))
           table  == spp1.tableRoot
<1>1. PositionDigest(descriptor, POSITION, m, table, folded) = PositionRoot(segments)
  BY DEF verifySpp1
<1>2. PositionRoot(segments) = PositionDigest(DOCUMENT, POSITION, m, TABLE, top)
  <2>1. Len(SegmentRoots(segments)) = m
    BY SegmentRootsShape DEF Width
  <2> QED
    BY <2>1 DEF PositionRoot, positionRoot, PositionLevels
<1> HIDE DEF folded, top, table
<1>3. <<descriptor, POSITION, m>> = <<DOCUMENT, POSITION, m>>
  BY <1>1, <1>2 DEF PositionDigest
<1> QED
  BY <1>3

\* What encodeAttestation can write.
IsAttestation(a) ==
  /\ a = Attestation(a.descriptor, a.index, a.value, a.leaf, a.path, a.spp1)
  /\ a.spp1 = Spp1(a.spp1.ordinal, a.spp1.tableRoot, a.spp1.path)
  /\ a.spp1.ordinal \in Nat
  /\ IsList(a.path)
  /\ IsList(a.spp1.path)

\* The row of a value is among an entry's rows exactly if it is the value written there.
LEMMA RowBinds ==
  ASSUME NEW segments, NEW s, NEW l, NEW p \in Places, NEW v
  PROVE  HasRow(EntryLeaf(segments, s, l).rows,
                Row(p, WriteDigest(DOCUMENT, POSITION, s, l, p, v)))
           <=> v = segments[s + 1][l + 1][p]
<1> DEFINE rows  == EntryLeaf(segments, s, l).rows
           entry == segments[s + 1][l + 1]
           Digest(place, w) == WriteDigest(DOCUMENT, POSITION, s, l, place, w)
<1>1. rows = [place \in Places |-> Row(place, Digest(place, entry[place]))]
  BY DEF EntryLeaf, LeafTail
<1>2. \A w, x : Digest(p, w) = Digest(p, x) <=> w = x
  BY DEF WriteDigest
<1>3. \A q, r, d, e : Row(q, d) = Row(r, e) <=> q = r /\ d = e
  BY DEF Row
<1> HIDE DEF rows, entry, Digest
<1>4. (\E i \in DOMAIN rows : rows[i] = Row(p, Digest(p, v))) <=> v = entry[p]
  <2>1. DOMAIN rows = Places /\ \A i \in Places : rows[i] = Row(i, Digest(i, entry[i]))
    BY <1>1
  <2>2. \A i \in Places : rows[i] = Row(p, Digest(p, v)) <=> i = p /\ Digest(i, entry[i]) = Digest(p, v)
    BY <1>3, <2>1
  <2> QED
    BY <1>2, <2>1, <2>2
<1> QED
  BY <1>4 DEF HasRow, rows, entry, Digest

\* The committer's attestation with an index that is the prover's.
LEMMA HonestButIndex ==
  ASSUME NEW segments, NEW at, NEW a, IsAttestation(a)
  PROVE  a = [Honest(segments, at) EXCEPT !.index = a.index]
         <=> /\ a.descriptor = DOCUMENT
             /\ a.value = segments[at.segment + 1][at.local + 1][at.place]
             /\ a.leaf = EntryLeaf(segments, at.segment, at.local)
             /\ a.path = duplicatePath(EntryLevels(segments, at.segment), at.local)
             /\ a.spp1.ordinal = at.segment
             /\ a.spp1.tableRoot = TABLE
             /\ a.spp1.path = duplicatePath(PositionLevels(segments), at.segment)
<1> DEFINE s == at.segment
           value == segments[at.segment + 1][at.local + 1][at.place]
           tail == EntryLeaf(segments, at.segment, at.local)
           entryPath == duplicatePath(EntryLevels(segments, at.segment), at.local)
           segmentPath == duplicatePath(PositionLevels(segments), at.segment)
           proof == a.spp1
           index == a.index
<1>1. Honest(segments, at)
        = Attestation(DOCUMENT, INDEX, value, tail, entryPath, Spp1(s, TABLE, segmentPath))
  BY DEF Honest, PositionLevels
<1>2. \A d, i, v, r, q, o, d2, i2, v2, r2, q2, o2 :
        Attestation(d, i, v, r, q, o) = Attestation(d2, i2, v2, r2, q2, o2)
          <=> d = d2 /\ i = i2 /\ v = v2 /\ r = r2 /\ q = q2 /\ o = o2
  BY DEF Attestation
<1>3. \A o, t, q, o2, t2, q2 :
        Spp1(o, t, q) = Spp1(o2, t2, q2) <=> o = o2 /\ t = t2 /\ q = q2
  BY DEF Spp1
<1>4. /\ a = Attestation(a.descriptor, index, a.value, a.leaf, a.path, proof)
      /\ proof = Spp1(proof.ordinal, proof.tableRoot, proof.path)
  BY DEF IsAttestation
<1>5. \A d, i, v, r, q, o :
        [Attestation(d, i, v, r, q, o) EXCEPT !.index = index] = Attestation(d, index, v, r, q, o)
  BY DEF Attestation
<1> HIDE DEF s, value, tail, entryPath, segmentPath, proof, index
<1>6. [Honest(segments, at) EXCEPT !.index = index]
        = Attestation(DOCUMENT, index, value, tail, entryPath, Spp1(s, TABLE, segmentPath))
  BY <1>1, <1>5
<1>7. a = [Honest(segments, at) EXCEPT !.index = index]
        <=> /\ a.descriptor = DOCUMENT
            /\ a.value = value
            /\ a.leaf = tail
            /\ a.path = entryPath
            /\ proof = Spp1(s, TABLE, segmentPath)
  BY <1>2, <1>4, <1>6
<1>8. proof = Spp1(s, TABLE, segmentPath)
        <=> proof.ordinal = s /\ proof.tableRoot = TABLE /\ proof.path = segmentPath
  BY <1>3, <1>4
<1> QED
  BY <1>7, <1>8 DEF s, value, tail, entryPath, segmentPath, proof, index

\* verifyAttestation binds an output to its position: of all the attestations there
\* are, for a position of any size and whatever options the verifier gives, it accepts
\* the committer's own and no other.  What the value, the leaf and its rows, the paths,
\* the table root and the document are is not the prover's to choose, not even if all
\* are chosen together; the index is, unless the verifier expects one.
THEOREM OneProof ==
  ASSUME NEW segments, NEW m, NEW n, IsPosition(segments, m, n), NEW at,
         at.segment \in 0..(m - 1), at.local \in 0..(n - 1), at.place \in Places,
         NEW a, IsAttestation(a), NEW given, NEW options,
         options = [segmentCount |-> m, entries |-> n, segment |-> at.segment,
                    local |-> at.local, place |-> at.place,
                    landedRoot |-> PositionRoot(segments), given |-> given]
  PROVE  verifyAttestation(a, options)
         <=> /\ a = [Honest(segments, at) EXCEPT !.index = a.index]
             /\ "index" \in given => a.index = INDEX
<1> DEFINE s == at.segment
           l == at.local
           p == at.place
           leaf == LeafDigest(a.descriptor, POSITION, s, l, a.leaf)
           root == segmentRootFromLeaf(a.descriptor, POSITION, s, n, l, leaf, a.path)
           row  == Row(p, WriteDigest(a.descriptor, POSITION, s, l, p, a.value))
           IsLeaf == /\ a.leaf.reserved = 0
                     /\ a.leaf.writeCount = Len(a.leaf.rows)
                     /\ HasRow(a.leaf.rows, row)
           IndexOK == "index" \in given => a.index = INDEX
           tail == EntryLeaf(segments, s, l)
           entryPath == duplicatePath(EntryLevels(segments, s), l)
           segmentPath == duplicatePath(PositionLevels(segments), s)
           value == segments[s + 1][l + 1][p]
           Same == a = [Honest(segments, at) EXCEPT !.index = a.index]
<1>1. /\ m \in Nat \ {0}
      /\ n \in Nat \ {0}
      /\ s \in 0..(m - 1)
      /\ l \in 0..(n - 1)
      /\ p \in Places
      /\ a.spp1.ordinal \in Nat
      /\ IsList(a.path)
      /\ IsList(a.spp1.path)
  BY DEF IsPosition, IsAttestation
<1>2. verifyAttestation(a, options)
        <=> /\ "descriptor" \in given => a.descriptor = DOCUMENT
            /\ IndexOK
            /\ IsLeaf
            /\ root # null
            /\ verifySpp1(a.descriptor, POSITION, m, root, a.spp1, PositionRoot(segments), given)
  <2>1. /\ options.segmentCount = m
        /\ options.entries = n
        /\ options.segment = s
        /\ options.local = l
        /\ options.place = p
        /\ options.landedRoot = PositionRoot(segments)
        /\ options.given = given
    OBVIOUS
  <2> QED
    BY <2>1 DEF verifyAttestation
<1>3. Same <=> /\ a.descriptor = DOCUMENT
               /\ a.value = value
               /\ a.leaf = tail
               /\ a.path = entryPath
               /\ a.spp1.ordinal = s
               /\ a.spp1.tableRoot = TABLE
               /\ a.spp1.path = segmentPath
  BY HonestButIndex
<1>4. verifyAttestation(a, options) => a.descriptor = DOCUMENT
  <2> HIDE DEF root, IsLeaf, IndexOK, s, l, p
  <2> QED
    BY <1>2, DocumentBinds
<1>5. Same => a.descriptor = DOCUMENT
  BY <1>3
<1> SUFFICES ASSUME a.descriptor = DOCUMENT
             PROVE  verifyAttestation(a, options) <=> Same /\ IndexOK
  <2>1. verifyAttestation(a, options) \in BOOLEAN
    BY DEF verifyAttestation
  <2> QED
    BY <1>4, <1>5, <2>1
<1> DEFINE o == a.spp1.ordinal
           roots == SegmentRoots(segments)
<1>6. root = roots[s + 1] <=> a.leaf = tail /\ a.path = entryPath
  <2>1. segmentRootFromLeaf(DOCUMENT, POSITION, s, n, l,
                            LeafDigest(DOCUMENT, POSITION, s, l, a.leaf), a.path)
          = roots[s + 1] <=> a.leaf = tail /\ a.path = entryPath
    BY <1>1, SegmentBinds
  <2> QED
    BY <2>1
<1>7. verifySpp1(a.descriptor, POSITION, m, root, a.spp1, PositionRoot(segments), given)
        <=> /\ o < m
            /\ a.spp1.tableRoot = TABLE
            /\ root = roots[o + 1]
            /\ a.spp1.path = duplicatePath(PositionLevels(segments), o)
  <2> HIDE DEF root
  <2>1. verifySpp1(DOCUMENT, POSITION, m, root, a.spp1, PositionRoot(segments), given)
          <=> /\ o < m
              /\ a.spp1.tableRoot = TABLE
              /\ root = roots[o + 1]
              /\ a.spp1.path = duplicatePath(PositionLevels(segments), o)
    BY <1>1, PositionBinds
  <2> QED
    BY <2>1
<1>8. roots[s + 1] # null
  <2>1. roots[s + 1] = SegmentDigest(DOCUMENT, POSITION, s, n, TopDigest(EntryLevels(segments, s)))
    BY <1>1, SegmentRootsShape
  <2> HIDE DEF roots, s
  <2> QED
    BY <2>1 DEF SegmentDigest, null
<1>9. ASSUME o < m, root # null, root = roots[o + 1] PROVE o = s
  <2> DEFINE folded == duplicateFold(a.descriptor, SEGMENT_TREE, POSITION, n, l, leaf, a.path)
             top == TopDigest(EntryLevels(segments, o))
  <2>1. root = IF folded = null THEN null
               ELSE SegmentDigest(a.descriptor, POSITION, s, n, folded)
    BY DEF segmentRootFromLeaf
  <2>2. roots[o + 1] = SegmentDigest(DOCUMENT, POSITION, o, n, top)
    <3>1. o \in 0..(m - 1)
      BY <1>1, <1>9
    <3> QED
      BY <3>1, SegmentRootsShape
  <2> HIDE DEF root, roots, o, s, folded, top
  <2>3. SegmentDigest(a.descriptor, POSITION, s, n, folded)
          = SegmentDigest(DOCUMENT, POSITION, o, n, top)
    BY <1>9, <2>1, <2>2
  <2>4. <<a.descriptor, POSITION, s, n>> = <<DOCUMENT, POSITION, o, n>>
    BY <2>3 DEF SegmentDigest
  <2> QED
    BY <2>4
<1>10. a.leaf = tail => (IsLeaf <=> a.value = value)
  <2> SUFFICES ASSUME a.leaf = tail PROVE IsLeaf <=> a.value = value
    OBVIOUS
  <2>1. row = Row(p, WriteDigest(DOCUMENT, POSITION, s, l, p, a.value))
    OBVIOUS
  <2>2. HasRow(tail.rows, row) <=> a.value = value
    <3>1. HasRow(tail.rows, Row(p, WriteDigest(DOCUMENT, POSITION, s, l, p, a.value)))
            <=> a.value = value
      BY <1>1, RowBinds
    <3> QED
      BY <2>1, <3>1
  <2>3. tail.reserved = 0 /\ tail.writeCount = Len(tail.rows)
    <3> DEFINE rows == tail.rows
    <3>1. tail.reserved = 0 /\ tail.writeCount = MaxPlaces
      BY DEF EntryLeaf, LeafTail
    <3>2. DOMAIN rows = 1..MaxPlaces /\ rows = [i \in 1..MaxPlaces |-> rows[i]]
      BY DEF EntryLeaf, LeafTail, Places
    <3> HIDE DEF rows
    <3>3. Len(rows) = MaxPlaces
      BY <3>2, TreesAssumption
    <3> QED
      BY <3>1, <3>3 DEF rows
  <2> HIDE DEF row, tail, value
  <2> QED
    BY <2>2, <2>3
<1> HIDE DEF s, l, p, leaf, root, row, IsLeaf, IndexOK, tail, entryPath, segmentPath, value, Same, roots, o
<1>11. ASSUME verifyAttestation(a, options) PROVE Same /\ IndexOK
  <2>1. o = s
    BY <1>2, <1>7, <1>9, <1>11
  <2>2. root = roots[s + 1]
    BY <1>2, <1>7, <1>11, <2>1
  <2>3. a.leaf = tail /\ a.path = entryPath
    BY <1>6, <2>2
  <2>4. a.value = value
    BY <1>2, <1>10, <1>11, <2>3
  <2> QED
    BY <1>2, <1>3, <1>7, <1>11, <2>1, <2>3, <2>4 DEF o, segmentPath
<1>12. ASSUME Same, IndexOK PROVE verifyAttestation(a, options)
  <2>1. root = roots[s + 1] /\ o = s /\ o < m
    BY <1>1, <1>3, <1>6, <1>12 DEF o
  <2>2. IsLeaf
    BY <1>3, <1>10, <1>12
  <2> QED
    BY <1>2, <1>3, <1>7, <1>8, <1>12, <2>1, <2>2 DEF o, segmentPath
<1>13. verifyAttestation(a, options) \in BOOLEAN
  BY DEF verifyAttestation
<1> QED
  BY <1>11, <1>12, <1>13 DEF Same, IndexOK

\* The committer's attestations are such.
LEMMA HonestIsAttestation ==
  ASSUME NEW segments, NEW m, NEW n, IsPosition(segments, m, n), NEW at,
         at.segment \in 0..(m - 1), at.local \in 0..(n - 1)
  PROVE  IsAttestation(Honest(segments, at))
<1> DEFINE s == at.segment
           l == at.local
           value == segments[s + 1][l + 1][at.place]
           tail == EntryLeaf(segments, s, l)
           entryPath == duplicatePath(EntryLevels(segments, s), l)
           segmentPath == duplicatePath(PositionLevels(segments), s)
           a == Honest(segments, at)
<1>1. a = Attestation(DOCUMENT, INDEX, value, tail, entryPath, Spp1(s, TABLE, segmentPath))
  BY DEF Honest, PositionLevels
<1>2. m \in Nat \ {0} /\ n \in Nat \ {0} /\ s \in Nat
  BY DEF IsPosition
<1>3. IsList(entryPath)
  <2>1. Width(EntryLeaves(segments, s)) = n
    BY EntryLeavesShape
  <2>2. EntryLevels(segments, s)
          = duplicateLevels(DOCUMENT, SEGMENT_TREE, POSITION, EntryLeaves(segments, s))
    BY DEF EntryLevels, EntryLeaves
  <2> QED
    BY <1>2, <2>1, <2>2, PathIsList
<1>4. IsList(segmentPath)
  <2>1. Width(SegmentRoots(segments)) = m
    BY SegmentRootsShape
  <2> QED
    BY <1>2, <2>1, PathIsList DEF PositionLevels
<1> HIDE DEF s, l, value, tail, entryPath, segmentPath, a
<1>5. /\ a.descriptor = DOCUMENT
      /\ a.index = INDEX
      /\ a.value = value
      /\ a.leaf = tail
      /\ a.path = entryPath
      /\ a.spp1 = Spp1(s, TABLE, segmentPath)
  BY <1>1 DEF Attestation
<1>6. /\ a.spp1.ordinal = s
      /\ a.spp1.tableRoot = TABLE
      /\ a.spp1.path = segmentPath
  BY <1>5 DEF Spp1
<1>7. IsAttestation(a)
  BY <1>1, <1>2, <1>3, <1>4, <1>5, <1>6 DEF IsAttestation
<1> QED
  BY <1>7 DEF a

\* A path with a digest replaced, one more or the first one dropped is a path.
LEMMA ChangedPathIsList ==
  ASSUME NEW path, IsList(path), NEW other \in Replaced(path) \cup Resized(path)
  PROVE  IsList(other)
<1>1. Len(path) \in Nat /\ DOMAIN path = 1..Len(path)
  BY ListFacts
<1> DEFINE n == Len(path)
<1>2. CASE other \in Replaced(path)
  <2>1. PICK i \in DOMAIN path, d \in Digests : other = [path EXCEPT ![i] = d]
    BY <1>2 DEF Replaced
  <2>2. other = [j \in 1..n |-> other[j]]
    BY <1>1, <2>1
  <2>3. n \in Nat
    BY <1>1
  <2> HIDE DEF n
  <2> QED
    BY <2>2, <2>3, ListOfFunction
<1>3. CASE \E d \in Digests : other = Append(path, d)
  <2>1. PICK d \in Digests : other = Append(path, d)
    BY <1>3
  <2> QED
    BY <2>1, AppendList
<1>4. CASE path # <<>> /\ other = Tail(path)
  <2> DEFINE S == {path[i] : i \in DOMAIN path}
  <2>1. path \in Seq(S)
    BY DEF IsList
  <2> HIDE DEF S
  <2>2. Tail(path) \in Seq(S)
    BY <1>4, <2>1, HeadTailProperties
  <2>3. Len(other) \in Nat /\ other = [j \in 1..Len(other) |-> other[j]]
    BY <1>4, <2>2, LenProperties
  <2> QED
    BY <2>3, ListOfFunction
<1>5. other \in Replaced(path) \/ (\E d \in Digests : other = Append(path, d))
        \/ (path # <<>> /\ other = Tail(path))
  BY DEF Resized
<1> QED
  BY <1>2, <1>3, <1>4, <1>5

\* So is one of them with a part exchanged.
LEMMA ExchangedIsAttestation ==
  ASSUME NEW a, IsAttestation(a), NEW at, NEW b \in Exchanged(a, at)
  PROVE  IsAttestation(b)
<1> DEFINE proof == a.spp1
<1>1. /\ a = Attestation(a.descriptor, a.index, a.value, a.leaf, a.path, proof)
      /\ proof = Spp1(proof.ordinal, proof.tableRoot, proof.path)
      /\ proof.ordinal \in Nat
      /\ IsList(a.path)
      /\ IsList(proof.path)
  BY DEF IsAttestation
<1>2. \A d, i, v, r, q, p :
        /\ Attestation(d, i, v, r, q, p).descriptor = d
        /\ Attestation(d, i, v, r, q, p).index = i
        /\ Attestation(d, i, v, r, q, p).value = v
        /\ Attestation(d, i, v, r, q, p).leaf = r
        /\ Attestation(d, i, v, r, q, p).path = q
        /\ Attestation(d, i, v, r, q, p).spp1 = p
  BY DEF Attestation
<1>3. \A o, t, q :
        /\ Spp1(o, t, q).ordinal = o
        /\ Spp1(o, t, q).tableRoot = t
        /\ Spp1(o, t, q).path = q
  BY DEF Spp1
<1>4. ASSUME NEW d, NEW i, NEW v, NEW r, NEW q, NEW o \in Nat, NEW t, NEW u,
             IsList(q), IsList(u), b = Attestation(d, i, v, r, q, Spp1(o, t, u))
      PROVE  IsAttestation(b)
  BY <1>2, <1>3, <1>4 DEF IsAttestation
<1> DEFINE With(d, i, v, r, q, o, t, u) == Attestation(d, i, v, r, q, Spp1(o, t, u))
           D == a.descriptor
           I == a.index
           V == a.value
           R == a.leaf
           P == a.path
           O == proof.ordinal
           T == proof.tableRoot
           U == proof.path
<1>5. a = With(D, I, V, R, P, O, T, U)
  BY <1>1
<1>6. O \in Nat /\ IsList(P) /\ IsList(U)
  BY <1>1
<1>7. MaxSegments \in Nat
  BY TreesAssumption
<1> HIDE DEF D, I, V, R, P, O, T, U
<1>8. CASE \E d \in Descriptors : b = [a EXCEPT !.descriptor = d]
  <2>1. PICK d \in Descriptors : b = [a EXCEPT !.descriptor = d]
    BY <1>8
  <2>2. b = With(d, I, V, R, P, O, T, U)
    <3>1. [With(D, I, V, R, P, O, T, U) EXCEPT !.descriptor = d] = With(d, I, V, R, P, O, T, U)
      BY DEF Attestation, Spp1
    <3> HIDE DEF With
    <3> QED
      BY <1>5, <2>1, <3>1
  <2> QED
    BY <1>4, <1>6, <2>2
<1>9. CASE b = [a EXCEPT !.index = @ + 1]
  <2> DEFINE i == a.index + 1
  <2>1. b = [a EXCEPT !.index = i]
    BY <1>9
  <2> HIDE DEF i
  <2>2. b = With(D, i, V, R, P, O, T, U)
    <3>1. [With(D, I, V, R, P, O, T, U) EXCEPT !.index = i] = With(D, i, V, R, P, O, T, U)
      BY DEF Attestation, Spp1
    <3> HIDE DEF With
    <3> QED
      BY <1>5, <2>1, <3>1
  <2> QED
    BY <1>4, <1>6, <2>2
<1>10. CASE \E v \in Values : b = [a EXCEPT !.value = v]
  <2>1. PICK v \in Values : b = [a EXCEPT !.value = v]
    BY <1>10
  <2>2. b = With(D, I, v, R, P, O, T, U)
    <3>1. [With(D, I, V, R, P, O, T, U) EXCEPT !.value = v] = With(D, I, v, R, P, O, T, U)
      BY DEF Attestation, Spp1
    <3> HIDE DEF With
    <3> QED
      BY <1>5, <2>1, <3>1
  <2> QED
    BY <1>4, <1>6, <2>2
<1>11. CASE \E p \in Replaced(a.path) \cup Resized(a.path) : b = [a EXCEPT !.path = p]
  <2>1. PICK p \in Replaced(P) \cup Resized(P) : b = [a EXCEPT !.path = p]
    BY <1>11 DEF P
  <2>2. b = With(D, I, V, R, p, O, T, U)
    <3>1. [With(D, I, V, R, P, O, T, U) EXCEPT !.path = p] = With(D, I, V, R, p, O, T, U)
      BY DEF Attestation, Spp1
    <3> HIDE DEF With
    <3> QED
      BY <1>5, <2>1, <3>1
  <2>3. IsList(p)
    BY <1>6, ChangedPathIsList
  <2> QED
    BY <1>4, <1>6, <2>2, <2>3
<1>12. CASE \E p \in Replaced(proof.path) \cup Resized(proof.path) : b = [a EXCEPT !.spp1.path = p]
  <2>1. PICK p \in Replaced(U) \cup Resized(U) : b = [a EXCEPT !.spp1.path = p]
    BY <1>12 DEF U
  <2>2. b = With(D, I, V, R, P, O, T, p)
    <3>1. [With(D, I, V, R, P, O, T, U) EXCEPT !.spp1.path = p] = With(D, I, V, R, P, O, T, p)
      BY DEF Attestation, Spp1
    <3> HIDE DEF With
    <3> QED
      BY <1>5, <2>1, <3>1
  <2>3. IsList(p)
    BY <1>6, ChangedPathIsList
  <2> QED
    BY <1>4, <1>6, <2>2, <2>3
<1>13. CASE \E o \in 0..MaxSegments : b = [a EXCEPT !.spp1.ordinal = o]
  <2>1. PICK o \in 0..MaxSegments : b = [a EXCEPT !.spp1.ordinal = o]
    BY <1>13
  <2>2. b = With(D, I, V, R, P, o, T, U)
    <3>1. [With(D, I, V, R, P, O, T, U) EXCEPT !.spp1.ordinal = o] = With(D, I, V, R, P, o, T, U)
      BY DEF Attestation, Spp1
    <3> HIDE DEF With
    <3> QED
      BY <1>5, <2>1, <3>1
  <2>3. o \in Nat
    BY <1>7
  <2> QED
    BY <1>4, <1>6, <2>2, <2>3
<1>14. CASE \E t \in Digests : b = [a EXCEPT !.spp1.tableRoot = t]
  <2>1. PICK t \in Digests : b = [a EXCEPT !.spp1.tableRoot = t]
    BY <1>14
  <2>2. b = With(D, I, V, R, P, O, t, U)
    <3>1. [With(D, I, V, R, P, O, T, U) EXCEPT !.spp1.tableRoot = t] = With(D, I, V, R, P, O, t, U)
      BY DEF Attestation, Spp1
    <3> HIDE DEF With
    <3> QED
      BY <1>5, <2>1, <3>1
  <2> QED
    BY <1>4, <1>6, <2>2
<1>15. CASE \E r \in Altered(a.leaf) : b = [a EXCEPT !.leaf = r]
  <2>1. PICK r \in Altered(a.leaf) : b = [a EXCEPT !.leaf = r]
    BY <1>15
  <2>2. b = With(D, I, V, r, P, O, T, U)
    <3>1. [With(D, I, V, R, P, O, T, U) EXCEPT !.leaf = r] = With(D, I, V, r, P, O, T, U)
      BY DEF Attestation, Spp1
    <3> HIDE DEF With
    <3> QED
      BY <1>5, <2>1, <3>1
  <2> QED
    BY <1>4, <1>6, <2>2
<1>16. CASE \E v \in Values : \E r \in Fitted(a.leaf, at.place, RowFor(at, v)) :
              b = [a EXCEPT !.value = v, !.leaf = r]
  <2>1. PICK v \in Values : \E r \in Fitted(a.leaf, at.place, RowFor(at, v)) :
                               b = [a EXCEPT !.value = v, !.leaf = r]
    BY <1>16
  <2>2. PICK r \in Fitted(a.leaf, at.place, RowFor(at, v)) :
               b = [a EXCEPT !.value = v, !.leaf = r]
    BY <2>1
  <2>3. b = With(D, I, v, r, P, O, T, U)
    <3> DEFINE old == With(D, I, V, R, P, O, T, U)
               mid == With(D, I, v, R, P, O, T, U)
    <3>1. [old EXCEPT !.value = v] = mid
      BY DEF Attestation, Spp1
    <3>2. [mid EXCEPT !.leaf = r] = With(D, I, v, r, P, O, T, U)
      BY DEF Attestation, Spp1
    <3> HIDE DEF With, old, mid
    <3>3. [old EXCEPT !.value = v, !.leaf = r] = [[old EXCEPT !.value = v] EXCEPT !.leaf = r]
      OBVIOUS
    <3> QED
      BY <1>5, <2>2, <3>1, <3>2, <3>3 DEF old
  <2> QED
    BY <1>4, <1>6, <2>3
<1>17. \/ \E d \in Descriptors : b = [a EXCEPT !.descriptor = d]
       \/ b = [a EXCEPT !.index = @ + 1]
       \/ \E v \in Values : b = [a EXCEPT !.value = v]
       \/ \E r \in Altered(a.leaf) : b = [a EXCEPT !.leaf = r]
       \/ \E v \in Values : \E r \in Fitted(a.leaf, at.place, RowFor(at, v)) :
            b = [a EXCEPT !.value = v, !.leaf = r]
       \/ \E p \in Replaced(a.path) \cup Resized(a.path) : b = [a EXCEPT !.path = p]
       \/ \E p \in Replaced(proof.path) \cup Resized(proof.path) : b = [a EXCEPT !.spp1.path = p]
       \/ \E o \in 0..MaxSegments : b = [a EXCEPT !.spp1.ordinal = o]
       \/ \E t \in Digests : b = [a EXCEPT !.spp1.tableRoot = t]
  <2>1. b \in Refitted(a, at) =>
          \E v \in Values : \E r \in Fitted(a.leaf, at.place, RowFor(at, v)) :
            b = [a EXCEPT !.value = v, !.leaf = r]
    <3> DEFINE Fit(v) == {[a EXCEPT !.value = v, !.leaf = r] :
                            r \in Fitted(a.leaf, at.place, RowFor(at, v))}
    <3> SUFFICES ASSUME b \in Refitted(a, at)
                 PROVE  \E v \in Values : \E r \in Fitted(a.leaf, at.place, RowFor(at, v)) :
                          b = [a EXCEPT !.value = v, !.leaf = r]
      OBVIOUS
    <3>1. PICK v \in Values : b \in Fit(v)
      BY DEF Refitted
    <3> QED
      BY <3>1
  <2> DEFINE OtherDocument    == {[a EXCEPT !.descriptor = d] : d \in Descriptors}
             OtherIndex       == {[a EXCEPT !.index = @ + 1]}
             OtherValue       == {[a EXCEPT !.value = v] : v \in Values}
             OtherLeaf        == {[a EXCEPT !.leaf = r] : r \in Altered(a.leaf)}
             OtherPath        == {[a EXCEPT !.path = p] : p \in Replaced(a.path) \cup Resized(a.path)}
             OtherSegmentPath == {[a EXCEPT !.spp1.path = p] : p \in Replaced(a.spp1.path) \cup Resized(a.spp1.path)}
             OtherOrdinal     == {[a EXCEPT !.spp1.ordinal = o] : o \in 0..MaxSegments}
             OtherTable       == {[a EXCEPT !.spp1.tableRoot = t] : t \in Digests}
  <2>2. Exchanged(a, at)
          = OtherDocument \cup OtherIndex \cup OtherValue \cup OtherLeaf \cup Refitted(a, at)
              \cup OtherPath \cup OtherSegmentPath \cup OtherOrdinal \cup OtherTable
    BY DEF Exchanged
  <2> HIDE DEF OtherDocument, OtherIndex, OtherValue, OtherLeaf, OtherPath,
               OtherSegmentPath, OtherOrdinal, OtherTable
  <2>3. \/ b \in OtherDocument \cup OtherIndex \cup OtherValue \cup OtherLeaf
        \/ b \in Refitted(a, at)
        \/ b \in OtherPath \cup OtherSegmentPath \cup OtherOrdinal \cup OtherTable
    BY <2>2
  <2>4. CASE b \in OtherDocument \cup OtherIndex \cup OtherValue \cup OtherLeaf
    BY <2>4 DEF OtherDocument, OtherIndex, OtherValue, OtherLeaf
  <2>5. CASE b \in Refitted(a, at)
    BY <2>1, <2>5
  <2>6. CASE b \in OtherPath \cup OtherSegmentPath \cup OtherOrdinal \cup OtherTable
    BY <2>6 DEF OtherPath, OtherSegmentPath, OtherOrdinal, OtherTable
  <2> QED
    BY <2>3, <2>4, <2>5, <2>6
<1> QED
  BY <1>8, <1>9, <1>10, <1>11, <1>12, <1>13, <1>14, <1>15, <1>16, <1>17

-----------------------------------------------------------------------------
(* The prover and the verifier                                             *)

\* What a position is committed as, and what is asked of it.
CommittedTo(segments) ==
  committed = [segments |-> segments, root |-> PositionRoot(segments)]
TargetIs(segments, at) == target = [at |-> at, proof |-> Honest(segments, at)]

\* A position is committed as the committer's functions
\* commit it, and asked for as they prove it.
AskedOfCommitted ==
  \E segments \in Positions : \E at \in Coordinates(segments) :
    CommittedTo(segments) /\ TargetIs(segments, at)

\* The verdicts there are.
VerdictOK == verdict \in {"none", "accepted", "refused"}

\* The inductive invariant.
IInv == AskedOfCommitted /\ VerdictOK /\ AcceptedIffCommitted

\* A prover bound by nothing but the form of an attestation: any document, index,
\* value, leaf, paths and table root, made together in any way.
AnyProver ==
  Init /\ [][verdict = "none" /\ \E a, given : IsAttestation(a) /\ Present(a, given)]_vars

\* The coordinates of an output are within its position.
LEMMA CoordinatesShape ==
  ASSUME NEW segments, NEW m, NEW n, IsPosition(segments, m, n),
         NEW at \in Coordinates(segments)
  PROVE  at.segment \in 0..(m - 1) /\ at.local \in 0..(n - 1) /\ at.place \in Places
<1>1. m \in Nat \ {0} /\ 1 \in 1..m
  BY DEF IsPosition
<1>2. Len(segments) = m /\ Len(segments[1]) = n
  BY <1>1 DEF IsPosition, Width
<1>3. Coordinates(segments) = [segment : 0..(m - 1), local : 0..(n - 1), place : Places]
  BY <1>2 DEF Coordinates
<1> QED
  BY <1>3

\* The verdict of an attestation put to the verifier.
LEMMA PresentDecides ==
  ASSUME NEW segments \in Positions, NEW at \in Coordinates(segments),
         CommittedTo(segments), TargetIs(segments, at), NEW a, IsAttestation(a), NEW given,
         Present(a, given)
  PROVE  /\ presented' = a
         /\ expected' = given
         /\ VerdictOK'
         /\ AcceptedIffCommitted'
<1>1. PICK m, n : IsPosition(segments, m, n)
  BY PositionShape
<1>2. at.segment \in 0..(m - 1) /\ at.local \in 0..(n - 1) /\ at.place \in Places
  BY <1>1, CoordinatesShape
<1>3. Len(segments) = m /\ Len(segments[1]) = n
  <2>1. 1 \in 1..m
    BY <1>1 DEF IsPosition
  <2> QED
    BY <1>1, <2>1 DEF IsPosition, Width
<1>4. /\ committed.segments = segments
      /\ committed.root = PositionRoot(segments)
      /\ target.at = at
      /\ target.proof = Honest(segments, at)
  BY DEF CommittedTo, TargetIs
<1> DEFINE options == [segmentCount |-> m, entries |-> n, segment |-> at.segment,
                       local |-> at.local, place |-> at.place,
                       landedRoot |-> PositionRoot(segments), given |-> given]
<1>5. /\ presented' = a
      /\ expected' = given
      /\ target' = target
      /\ verdict' = IF verifyAttestation(a, options) THEN "accepted" ELSE "refused"
  BY <1>3, <1>4 DEF Present
<1>6. options = [segmentCount |-> m, entries |-> n, segment |-> at.segment,
                 local |-> at.local, place |-> at.place,
                 landedRoot |-> PositionRoot(segments), given |-> given]
  OBVIOUS
<1> DEFINE proof == [Honest(segments, at) EXCEPT !.index = a.index]
<1> HIDE DEF options
<1>7. verifyAttestation(a, options)
        <=> a = proof /\ ("index" \in given => a.index = INDEX)
  BY <1>1, <1>2, <1>6, OneProof
<1>8. proof = [target'.proof EXCEPT !.index = presented'.index]
  BY <1>4, <1>5
<1> HIDE DEF proof
<1>9. VerdictOK'
  BY <1>5 DEF VerdictOK
<1>10. AcceptedIffCommitted'
  BY <1>5, <1>7, <1>8 DEF AcceptedIffCommitted
<1> QED
  BY <1>5, <1>9, <1>10

\* The committer begins with such a position.
LEMMA InitInv == Init => IInv
<1> SUFFICES ASSUME Init PROVE IInv
  OBVIOUS
<1>0. PICK segments \in Positions : \E at \in Coordinates(segments) :
        /\ committed = [segments |-> segments,
                        root |-> positionRoot(DOCUMENT, POSITION, TABLE, SegmentRoots(segments))]
        /\ target = [at |-> at, proof |-> Honest(segments, at)]
        /\ presented = null
        /\ expected = {}
        /\ verdict = "none"
  BY DEF Init
<1>1. PICK at \in Coordinates(segments) :
        /\ committed = [segments |-> segments,
                        root |-> positionRoot(DOCUMENT, POSITION, TABLE, SegmentRoots(segments))]
        /\ target = [at |-> at, proof |-> Honest(segments, at)]
        /\ presented = null
        /\ expected = {}
        /\ verdict = "none"
  BY <1>0
<1>2. CommittedTo(segments) /\ TargetIs(segments, at)
  BY <1>1 DEF CommittedTo, TargetIs, PositionRoot
<1> QED
  BY <1>1, <1>2 DEF IInv, AskedOfCommitted, VerdictOK, AcceptedIffCommitted

\* No attestation breaks it.
LEMMA PresentInv ==
  ASSUME IInv, NEW a, IsAttestation(a), NEW given, Present(a, given) PROVE IInv'
<1>1. PICK segments \in Positions : \E at \in Coordinates(segments) :
        CommittedTo(segments) /\ TargetIs(segments, at)
  BY DEF IInv, AskedOfCommitted
<1>2. PICK at \in Coordinates(segments) : CommittedTo(segments) /\ TargetIs(segments, at)
  BY <1>1
<1>3. committed' = committed /\ target' = target
  BY DEF Present
<1>4. AskedOfCommitted'
  BY <1>2, <1>3 DEF AskedOfCommitted, CommittedTo, TargetIs
<1>5. VerdictOK' /\ AcceptedIffCommitted'
  BY <1>2, PresentDecides
<1> QED
  BY <1>4, <1>5 DEF IInv

\* What a prover of the model offers is an attestation.
LEMMA OfferedIsAttestation == ASSUME IInv, NEW a \in Offered PROVE IsAttestation(a)
<1>1. PICK segments \in Positions : \E at \in Coordinates(segments) :
        CommittedTo(segments) /\ TargetIs(segments, at)
  BY DEF IInv, AskedOfCommitted
<1>2. PICK at \in Coordinates(segments) : CommittedTo(segments) /\ TargetIs(segments, at)
  BY <1>1
<1>3. PICK m, n : IsPosition(segments, m, n)
  BY PositionShape
<1>4. /\ committed.segments = segments
      /\ target.at = at
      /\ target.proof = Honest(segments, at)
  BY <1>2 DEF CommittedTo, TargetIs
<1>5. at.segment \in 0..(m - 1) /\ at.local \in 0..(n - 1)
  BY <1>3, CoordinatesShape
<1>6. CASE a \in {Honest(segments, other) : other \in Coordinates(segments)}
  <2>1. PICK other \in Coordinates(segments) : a = Honest(segments, other)
    BY <1>6
  <2>2. other.segment \in 0..(m - 1) /\ other.local \in 0..(n - 1)
    BY <1>3, CoordinatesShape
  <2> QED
    BY <1>3, <2>1, <2>2, HonestIsAttestation
<1>7. CASE \E others \in Positions : SameSize(segments, others) /\ a = Honest(others, at)
  <2>1. PICK others \in Positions : SameSize(segments, others) /\ a = Honest(others, at)
    BY <1>7
  <2>2. PICK k, j : IsPosition(others, k, j)
    BY PositionShape
  <2>3. k = m /\ j = n
    <3>1. 1 \in 1..m /\ 1 \in 1..k
      BY <1>3, <2>2 DEF IsPosition
    <3> QED
      BY <1>3, <2>1, <2>2, <3>1 DEF IsPosition, Width, SameSize
  <2> QED
    BY <1>5, <2>1, <2>2, <2>3, HonestIsAttestation
<1>8. CASE a \in Exchanged(Honest(segments, at), at)
  <2>1. IsAttestation(Honest(segments, at))
    BY <1>3, <1>5, HonestIsAttestation
  <2> QED
    BY <1>8, <2>1, ExchangedIsAttestation
<1>9. \/ a \in {Honest(segments, other) : other \in Coordinates(segments)}
      \/ \E others \in Positions : SameSize(segments, others) /\ a = Honest(others, at)
      \/ a \in Exchanged(Honest(segments, at), at)
  BY <1>4 DEF Offered
<1> QED
  BY <1>6, <1>7, <1>8, <1>9

\* No attestation a prover of the model presents breaks the invariant.
LEMMA NextInv == IInv /\ [Next]_vars => IInv'
<1> SUFFICES ASSUME IInv, [Next]_vars PROVE IInv'
  OBVIOUS
<1>1. CASE Next
  <2>1. PICK a \in Offered, given \in SUBSET Optional : Present(a, given)
    BY <1>1 DEF Next
  <2> QED
    BY <2>1, OfferedIsAttestation, PresentInv
<1>2. CASE UNCHANGED vars
  BY <1>2 DEF vars, IInv, AskedOfCommitted, CommittedTo, TargetIs, VerdictOK, AcceptedIffCommitted
<1> QED
  BY <1>1, <1>2

\* verifyAttestation accepts an output exactly when it is proven the committed way,
\* for positions of any size and of every attestation that can be offered for it: the
\* committer's passes, and no other does, whichever parts of it were exchanged, alone
\* or together.
THEOREM Acceptance == AnyProver => []AcceptedIffCommitted
<1> DEFINE Step == verdict = "none" /\ \E a, given : IsAttestation(a) /\ Present(a, given)
<1>1. ASSUME IInv, [Step]_vars PROVE IInv'
  <2>1. CASE Step
    <3>1. PICK a, given : IsAttestation(a) /\ Present(a, given)
      BY <2>1
    <3> QED
      BY <1>1, <3>1, PresentInv
  <2>2. CASE UNCHANGED vars
    BY <1>1, <2>2
    DEF vars, IInv, AskedOfCommitted, CommittedTo, TargetIs, VerdictOK, AcceptedIffCommitted
  <2> QED
    BY <1>1, <2>1, <2>2
<1>2. IInv => AcceptedIffCommitted
  BY DEF IInv
<1> HIDE DEF IInv
<1> QED
  BY <1>1, <1>2, InitInv, PTL DEF AnyProver

\* The prover that the model is checked with is one of them.
THEOREM ModelProver == Spec => AnyProver
<1>1. ASSUME IInv, [Next]_vars
      PROVE  [verdict = "none" /\ \E a, given : IsAttestation(a) /\ Present(a, given)]_vars
  <2>1. CASE Next
    <3>1. PICK a \in Offered, given \in SUBSET Optional : Present(a, given)
      BY <2>1 DEF Next
    <3>2. verdict = "none" /\ IsAttestation(a) /\ Present(a, given)
      BY <1>1, <2>1, <3>1, OfferedIsAttestation DEF Next
    <3> QED
      BY <3>2
  <2> QED
    BY <1>1, <2>1
<1> HIDE DEF IInv
<1> QED
  BY <1>1, InitInv, NextInv, PTL DEF Spec, AnyProver

\* The digests are finitely many, and of nothing in a tree.
DigestsKnown == IsFiniteSet(Digests) /\ DigestsOfNothing

\* The roots of a position that is asked for bind their lists.
LEMMA BoundRoots == DigestsKnown /\ AskedOfCommitted => RootBindsLeaves
<1> SUFFICES ASSUME DigestsKnown, AskedOfCommitted PROVE RootBindsLeaves
  OBVIOUS
<1>1. PICK segments \in Positions : CommittedTo(segments)
  BY DEF AskedOfCommitted
<1>2. PICK m, n : IsPosition(segments, m, n)
  BY PositionShape
<1>3. n \in Nat \ {0} /\ Len(committed.segments[1]) = n
  <2>1. 1 \in 1..m /\ n \in Nat \ {0} /\ committed.segments = segments
    BY <1>1, <1>2 DEF IsPosition, CommittedTo
  <2> QED
    BY <1>2, <2>1 DEF IsPosition, Width
<1> DEFINE lists == UNION {[1..k -> Digests] : k \in 1..n}
<1>4. Cardinality({SegmentTop(list) : list \in lists}) = Cardinality(lists)
  BY <1>3, RootsCountLists DEF DigestsKnown
<1> QED
  BY <1>3, <1>4 DEF RootBindsLeaves, SegmentTop

\* duplicateLevels has a root of its own for every list of leaves up to the length of
\* a segment, given finitely many digests that are of nothing in a tree.
THEOREM Binding == DigestsKnown /\ Spec => []RootBindsLeaves
<1>1. DigestsKnown => DigestsKnown'
  OBVIOUS
<1>2. IInv => AskedOfCommitted
  BY DEF IInv
<1> QED
  BY <1>1, <1>2, InitInv, NextInv, BoundRoots, PTL DEF Spec
=============================================================================
