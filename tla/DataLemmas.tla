------------------------------ MODULE DataLemmas ------------------------------
(***************************************************************************)
(* What the proofs of several components need to know of the library's       *)
(* operators on sequences, sets of numbers and maps.                         *)
(***************************************************************************)
EXTENDS Integers, Sequences, SequencesExt, FiniteSets, FiniteSetTheorems, SequenceTheorems,
        WellFoundedInduction, TLAPS

LEMMA UpTo == ASSUME NEW n \in Nat PROVE IsFiniteSet(1..n) /\ Cardinality(1..n) = n
  BY FS_Interval

\* The highest of bounded numbers, or -1 when there are none.
LEMMA MaxIsHighest ==
  ASSUME NEW S \in SUBSET Nat, NEW top \in Nat, \A o \in S : o <= top
  PROVE  LET m == Max(S \cup {-1}) IN m \in S \cup {-1} /\ \A o \in S : o <= m
<1> DEFINE Above == {n \in Nat : \A o \in S : o <= n}
<1>1. Above \subseteq Nat /\ Above # {}
  OBVIOUS
<1>2. PICK b \in Above : \A y \in Above : ~(<<y, b>> \in OpToRel(<, Nat))
  <2> HIDE DEF Above
  <2> QED
    BY <1>1, NatLessThanWellFounded, WFMin
<1>3. \A y \in Above : b <= y
  <2> SUFFICES ASSUME NEW y \in Above, y < b PROVE FALSE
    OBVIOUS
  <2>1. <<y, b>> \in OpToRel(<, Nat)
    BY DEF OpToRel
  <2> QED
    BY <1>2, <2>1
<1>4. \E m \in S \cup {-1} : \A o \in S \cup {-1} : m >= o
  <2>1. CASE b \in S
    BY <2>1
  <2>2. CASE b \notin S
    <3>1. \A o \in S : o < b
      BY <2>2
    <3>2. b = 0
      <4>1. CASE b > 0
        <5>1. b - 1 \in Above
          BY <3>1, <4>1
        <5> QED
          BY <1>3, <5>1
      <4> QED
        BY <4>1
    <3> QED
      BY <3>1, <3>2
  <2> QED
    BY <2>1, <2>2
<1> QED
  BY <1>4 DEF Max

\* RemoveAt, position by position.
LEMMA RemovedAt ==
  ASSUME NEW T, NEW s \in Seq(T), NEW k \in 1..Len(s)
  PROVE  /\ RemoveAt(s, k) \in Seq(T) /\ Len(RemoveAt(s, k)) = Len(s) - 1
         /\ \A i \in 1..Len(s) - 1 : RemoveAt(s, k)[i] = IF i < k THEN s[i] ELSE s[i + 1]
<1> DEFINE a == SubSeq(s, 1, k - 1)
           b == SubSeq(s, k + 1, Len(s))
<1>1. a \in Seq(T) /\ Len(a) = k - 1 /\ \A i \in 1..k - 1 : a[i] = s[i]
  OBVIOUS
<1>2. b \in Seq(T) /\ Len(b) = Len(s) - k /\ \A i \in 1..Len(s) - k : b[i] = s[i + k]
  OBVIOUS
<1>3. RemoveAt(s, k) = a \o b
  BY DEF RemoveAt
<1> HIDE DEF a, b
<1>4. a \o b \in Seq(T) /\ Len(a \o b) = Len(s) - 1
  <2>1. a \o b \in Seq(T) /\ Len(a \o b) = Len(a) + Len(b)
    BY <1>1, <1>2, ConcatProperties
  <2> QED
    BY <1>1, <1>2, <2>1
<1>5. \A i \in 1..Len(s) - 1 : (a \o b)[i] = IF i < k THEN a[i] ELSE b[i - (k - 1)]
  BY <1>1, <1>2
<1>6. ASSUME NEW i \in 1..Len(s) - 1, ~(i < k) PROVE b[i - (k - 1)] = s[i + 1]
  <2>1. i - (k - 1) \in 1..Len(s) - k /\ (i - (k - 1)) + k = i + 1
    BY <1>6
  <2> QED
    BY <1>2, <2>1
<1> QED
  BY <1>1, <1>3, <1>4, <1>5, <1>6

\* Induction on numbers, for a set of them: the provers cannot instantiate the library's
\* theorem, which takes a predicate.
LEMMA AllNumbers ==
  ASSUME NEW T, 0 \in T, \A n \in Nat : n \in T => n + 1 \in T
  PROVE  Nat \subseteq T
<1> SUFFICES ASSUME NEW z \in Nat \ T PROVE FALSE
  OBVIOUS
<1> DEFINE Left == Nat \ T
<1>1. PICK b \in Left : \A y \in Left : ~(<<y, b>> \in OpToRel(<, Nat))
  <2>1. Left \subseteq Nat /\ Left # {}
    OBVIOUS
  <2> HIDE DEF Left
  <2> QED
    BY <2>1, NatLessThanWellFounded, WFMin
<1>2. b \in Nat /\ b \notin T /\ b # 0
  OBVIOUS
<1>3. b - 1 \in Nat /\ (b - 1) + 1 = b
  BY <1>2
<1>4. b - 1 \in Left
  BY <1>2, <1>3
<1>5. <<b - 1, b>> \in OpToRel(<, Nat)
  BY <1>2, <1>3 DEF OpToRel
<1> QED
  BY <1>1, <1>4, <1>5

\* A function with values in V goes from the first one, by the steps, up to top.
Reaches(V, first, step, top) ==
    \E f \in [0..top -> V] : f[0] = first /\ \A n \in 1..top : f[n] = step[n][f[n - 1]]

\* There is one, built a step at a time.
LEMMA StepwiseFunction ==
  ASSUME NEW V, NEW first \in V, NEW step \in [Nat -> [V -> V]], NEW top \in Nat
  PROVE  Reaches(V, first, step, top)
<1> DEFINE Good(k, f) == f[0] = first /\ \A n \in 1..k : f[n] = step[n][f[n - 1]]
           T == {k \in Nat : \E f \in [0..k -> V] : Good(k, f)}
<1>1. 0 \in T
  <2>1. [i \in 0..0 |-> first] \in [0..0 -> V] /\ Good(0, [i \in 0..0 |-> first])
    OBVIOUS
  <2> QED
    BY <2>1
<1>2. ASSUME NEW k \in Nat, k \in T PROVE k + 1 \in T
  <2>1. PICK f \in [0..k -> V] : Good(k, f)
    BY <1>2
  <2> DEFINE g == [i \in 0..k + 1 |-> IF i <= k THEN f[i] ELSE step[k + 1][f[k]]]
  <2>2. f[k] \in V /\ step[k + 1][f[k]] \in V
    OBVIOUS
  <2>3. g \in [0..k + 1 -> V]
    BY <2>2
  <2>4. g[0] = first
    BY <2>1
  <2>5. ASSUME NEW n \in 1..k + 1 PROVE g[n] = step[n][g[n - 1]]
    <3>1. n - 1 \in 0..k /\ g[n - 1] = f[n - 1]
      OBVIOUS
    <3>2. CASE n <= k
      BY <2>1, <3>1, <3>2
    <3>3. CASE n = k + 1
      BY <3>1, <3>3
    <3> QED
      BY <3>2, <3>3
  <2>6. Good(k + 1, g)
    BY <2>4, <2>5
  <2> HIDE DEF g, Good
  <2> QED
    BY <2>3, <2>6
<1>3. top \in T
  <2> HIDE DEF T
  <2> QED
    BY <1>1, <1>2, AllNumbers
<1> QED
  BY <1>3 DEF Reaches

\* A set of numbers that has any has a least one.
LEMMA LeastOf ==
  ASSUME NEW S \in SUBSET Nat, S # {}
  PROVE  \E m \in S : \A n \in S : m <= n
<1>1. PICK m \in S : \A y \in S : ~(<<y, m>> \in OpToRel(<, Nat))
  BY NatLessThanWellFounded, WFMin
<1>2. ASSUME NEW n \in S PROVE m <= n
  <2>1. ~(n < m)
    BY <1>1 DEF OpToRel
  <2> QED
    BY <2>1
<1> QED
  BY <1>2

\* InsertAt, position by position.
LEMMA InsertedAt ==
  ASSUME NEW T, NEW s \in Seq(T), NEW e \in T, NEW k \in 1..Len(s) + 1
  PROVE  /\ InsertAt(s, k, e) \in Seq(T)
         /\ InsertAt(s, k, e) =
              [i \in 1..Len(s) + 1 |-> IF i < k THEN s[i] ELSE IF i = k THEN e ELSE s[i - 1]]
<1> DEFINE a == SubSeq(s, 1, k - 1)
           b == <<e>>
           c == SubSeq(s, k, Len(s))
<1>1. a \in Seq(T) /\ Len(a) = k - 1 /\ \A i \in 1..k - 1 : a[i] = s[i]
  OBVIOUS
<1>2. b \in Seq(T) /\ Len(b) = 1 /\ b[1] = e
  OBVIOUS
<1>3. c \in Seq(T) /\ Len(c) = Len(s) + 1 - k /\ \A i \in 1..Len(s) + 1 - k : c[i] = s[i + k - 1]
  OBVIOUS
<1>4. InsertAt(s, k, e) = (a \o b) \o c
  BY DEF InsertAt
<1> HIDE DEF a, b, c
<1>5. /\ a \o b \in Seq(T) /\ Len(a \o b) = k
      /\ \A i \in 1..k : (a \o b)[i] = IF i < k THEN s[i] ELSE e
  <2>1. /\ a \o b \in Seq(T) /\ Len(a \o b) = Len(a) + Len(b)
        /\ \A i \in 1..Len(a) + Len(b) : (a \o b)[i] = IF i <= Len(a) THEN a[i] ELSE b[i - Len(a)]
    BY <1>1, <1>2, ConcatProperties
  <2> QED
    BY <1>1, <1>2, <2>1
<1> DEFINE d == a \o b
<1>6. /\ d \o c \in Seq(T) /\ Len(d \o c) = Len(s) + 1
      /\ \A i \in 1..Len(s) + 1 : (d \o c)[i] = IF i <= k THEN d[i] ELSE c[i - k]
  <2> HIDE DEF d
  <2>1. d \in Seq(T) /\ Len(d) = k
    BY <1>5 DEF d
  <2>2. /\ d \o c \in Seq(T) /\ Len(d \o c) = Len(d) + Len(c)
        /\ \A i \in 1..Len(d) + Len(c) : (d \o c)[i] = IF i <= Len(d) THEN d[i] ELSE c[i - Len(d)]
    BY <1>3, <2>1, ConcatProperties
  <2> QED
    BY <1>3, <2>1, <2>2
<1>7. ASSUME NEW i \in 1..k - 1 PROVE (d \o c)[i] = s[i]
  BY <1>5, <1>6
<1>8. (d \o c)[k] = e
  BY <1>5, <1>6
<1>9. ASSUME NEW i \in k + 1..Len(s) + 1 PROVE (d \o c)[i] = s[i - 1]
  <2>1. i - k \in 1..Len(s) + 1 - k /\ (i - k) + k - 1 = i - 1
    OBVIOUS
  <2>2. c[i - k] = s[i - 1]
    BY <1>3, <2>1
  <2> QED
    BY <1>6, <2>2
<1> DEFINE t == d \o c
<1>10. /\ t \in Seq(T) /\ Len(t) = Len(s) + 1
       /\ \A i \in 1..k - 1 : t[i] = s[i]
       /\ t[k] = e
       /\ \A i \in k + 1..Len(s) + 1 : t[i] = s[i - 1]
  BY <1>6, <1>7, <1>8, <1>9
<1>11. InsertAt(s, k, e) = t
  BY <1>4
<1> HIDE DEF t
<1>12. t = [i \in 1..Len(s) + 1 |-> t[i]]
  BY <1>10
<1>13. ASSUME NEW i \in 1..Len(s) + 1
       PROVE  t[i] = IF i < k THEN s[i] ELSE IF i = k THEN e ELSE s[i - 1]
  BY <1>10
<1> QED
  BY <1>10, <1>11, <1>12, <1>13
=============================================================================
