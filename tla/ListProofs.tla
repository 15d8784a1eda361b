----------------------------- MODULE ListProofs ------------------------------
(***************************************************************************)
(* Lists that are built step by step, and what is kept of a list: the      *)
(* lemmas that the proofs of the back office and of the pages share.       *)
(* Induction is by sets of numbers: what is shown of a number stands in    *)
(* the set.                                                                *)
(***************************************************************************)
EXTENDS Lists, Integers, Sequences, FiniteSetTheorems, SequenceTheorems,
        WellFoundedInduction, TLAPS

\* A set of numbers has a least one.
LEMMA Less ==
  ASSUME NEW T, T \subseteq Nat, T # {}
  PROVE  \E x \in T : \A y \in T : x <= y
<1> DEFINE R == OpToRel(<, Nat)
<1>1. IsWellFoundedOn(R, Nat)
  BY NatLessThanWellFounded
<1>2. \A x, y \in Nat : y < x => <<y, x>> \in R
  BY DEF OpToRel
<1> HIDE DEF R
<1>3. \E x \in T : \A y \in T : ~ (<<y, x>> \in R)
  BY <1>1, WFMin
<1>4. PICK x \in T : \A y \in T : ~ (<<y, x>> \in R)
  BY <1>3
<1>5. \A y \in T : ~(y < x)
  BY <1>2, <1>4
<1> QED
  BY <1>4, <1>5

LEMMA SetInduction ==
  ASSUME NEW T, 0 \in T, \A n \in Nat : n \in T => n + 1 \in T
  PROVE  Nat \subseteq T
<1> SUFFICES ASSUME Nat \ T # {} PROVE FALSE
  OBVIOUS
<1>1. PICK x \in Nat \ T : \A y \in Nat \ T : x <= y
  BY Less
<1>2. x - 1 \in Nat /\ x - 1 \in T
  BY <1>1
<1> QED
  BY <1>1, <1>2

\* f[k] is what k steps make of base.
BuiltBy(A, base, N, step, f) ==
    /\ f \in [0 .. N -> A] /\ f[0] = base
    /\ \A k \in 1 .. N : f[k] = step[<<f[k - 1], k>>]

\* What is built step by step is well defined.
LEMMA Recursion ==
  ASSUME NEW A, NEW base \in A, NEW N \in Nat, NEW step \in [A \X (1 .. N) -> A]
  PROVE  \E f : BuiltBy(A, base, N, step, f)
<1> DEFINE Good(n, f) == /\ f \in [0 .. n -> A] /\ f[0] = base
                         /\ \A k \in 1 .. n : f[k] = step[<<f[k - 1], k>>]
<1> DEFINE T == {n \in Nat : n <= N => \E f : Good(n, f)}
<1>1. 0 \in T
  <2>1. Good(0, [k \in 0 .. 0 |-> base])
    OBVIOUS
  <2> QED
    BY <2>1
<1>2. ASSUME NEW n \in Nat, n \in T PROVE n + 1 \in T
  <2> SUFFICES ASSUME n + 1 <= N PROVE \E f : Good(n + 1, f)
    OBVIOUS
  <2>1. PICK f : Good(n, f)
    BY <1>2
  <2>2. f[n] \in A
    BY <2>1
  <2> DEFINE next == step[<<f[n], n + 1>>]
             g == [k \in 0 .. n + 1 |-> IF k = n + 1 THEN next ELSE f[k]]
  <2>3. next \in A
    BY <2>2
  <2> HIDE DEF next
  <2>4. g \in [0 .. n + 1 -> A] /\ g[0] = base
    BY <2>1, <2>3
  <2>5. ASSUME NEW k \in 1 .. n + 1 PROVE g[k] = step[<<g[k - 1], k>>]
    <3>1. CASE k = n + 1
      <4>1. n \in 0 .. n + 1 /\ n + 1 \in 0 .. n + 1 /\ n # n + 1 /\ k - 1 = n
        BY <3>1
      <4>2. g[n] = f[n] /\ g[n + 1] = next
        BY <4>1
      <4> QED
        BY <3>1, <4>1, <4>2 DEF next
    <3>2. CASE k # n + 1
      <4>1. k \in 1 .. n /\ k - 1 \in 0 .. n /\ k - 1 # n + 1
        BY <3>2
      <4> QED
        BY <2>1, <4>1
    <3> QED
      BY <3>1, <3>2
  <2>6. Good(n + 1, g)
    BY <2>4, <2>5
  <2> QED
    BY <2>6
<1> HIDE DEF T
<1>3. N \in T
  BY <1>1, <1>2, SetInduction
<1>4. \E f : Good(N, f)
  BY <1>3 DEF T
<1> QED
  BY <1>4 DEF BuiltBy

\* The k-th of a set of places exists.
LEMMA NthExists ==
  ASSUME NEW n \in Nat, NEW I \in SUBSET (1 .. n)
  PROVE  /\ IsFiniteSet(I) /\ Cardinality(I) \in 0 .. n
         /\ \A k \in 1 .. Cardinality(I) : \E i \in I : Cardinality({j \in I : j <= i}) = k
<1> DEFINE Places(J, k) == \E i \in J : Cardinality({j \in J : j <= i}) = k
           T == {m \in Nat : \A J \in SUBSET (1 .. m) :
                                \A k \in 1 .. Cardinality(J) : Places(J, k)}
<1>1. \A m \in Nat : \A J \in SUBSET (1 .. m) :
         IsFiniteSet(J) /\ Cardinality(J) \in 0 .. m
  <2> TAKE m \in Nat
  <2> TAKE J \in SUBSET (1 .. m)
  <2>1. IsFiniteSet(1 .. m) /\ Cardinality(1 .. m) = m
    BY FS_Interval
  <2>2. IsFiniteSet(J) /\ Cardinality(J) <= m
    BY <2>1, FS_Subset
  <2> QED
    BY <2>2, FS_CardinalityType
<1>2. 0 \in T
  <2>1. ASSUME NEW J \in SUBSET (1 .. 0) PROVE 1 .. Cardinality(J) = {}
    BY <1>1
  <2> QED
    BY <2>1
<1>3. ASSUME NEW m \in Nat, m \in T PROVE m + 1 \in T
  <2> SUFFICES ASSUME NEW J \in SUBSET (1 .. m + 1), NEW k \in 1 .. Cardinality(J)
               PROVE  Places(J, k)
    OBVIOUS
  <2>0. m + 1 \in Nat
    OBVIOUS
  <2>1. CASE m + 1 \notin J
    <3>1. J \in SUBSET (1 .. m)
      BY <2>1
    <3> QED
      BY <1>3, <3>1
  <2>2. CASE m + 1 \in J
    <3> DEFINE H == J \ {m + 1}
    <3>1. H \in SUBSET (1 .. m) /\ m + 1 \notin H
      OBVIOUS
    <3>2. IsFiniteSet(J) /\ IsFiniteSet(H) /\ Cardinality(H) \in Nat
      BY <1>1, <2>0, <3>1
    <3>3. Cardinality(J) = Cardinality(H) + 1
      <4>1. Cardinality(H) = Cardinality(J) - 1 /\ Cardinality(J) \in Nat
        BY <2>2, <3>2, FS_RemoveElement, FS_CardinalityType
      <4> QED
        BY <4>1
    <3>4. CASE k = Cardinality(J)
      <4>1. \A j \in J : j <= m + 1
        OBVIOUS
      <4>2. {j \in J : j <= m + 1} = J
        BY <4>1
      <4> QED
        BY <2>2, <3>4, <4>2
    <3>5. CASE k # Cardinality(J)
      <4>1. k \in 1 .. Cardinality(H)
        BY <3>2, <3>3, <3>5
      <4>2. Places(H, k)
        BY <1>3, <3>1, <4>1
      <4>3. PICK i \in H : Cardinality({j \in H : j <= i}) = k
        BY <4>2
      <4>4. {j \in J : j <= i} = {j \in H : j <= i}
        BY <3>1
      <4> QED
        BY <4>3, <4>4
    <3> QED
      BY <3>4, <3>5
  <2> QED
    BY <2>1, <2>2
<1> HIDE DEF T
<1>4. n \in T
  BY <1>2, <1>3, SetInduction
<1>5. \A k \in 1 .. Cardinality(I) : Places(I, k)
  BY <1>4 DEF T
<1> QED
  BY <1>1, <1>5

\* The places of a set are numbered in their order.
LEMMA NthInOrder ==
  ASSUME NEW n \in Nat, NEW I \in SUBSET (1 .. n)
  PROVE  /\ \A k \in 1 .. Cardinality(I) : Nth(I, k) \in I
         /\ \A k, l \in 1 .. Cardinality(I) : k < l => Nth(I, k) < Nth(I, l)
<1> DEFINE UpTo(i) == {j \in I : j <= i}
<1>1. ASSUME NEW k \in 1 .. Cardinality(I)
      PROVE  Nth(I, k) \in I /\ Cardinality(UpTo(Nth(I, k))) = k
  <2> DEFINE P(i) == Cardinality(UpTo(i)) = k
  <2>1. \E i \in I : P(i)
    BY NthExists
  <2>2. Nth(I, k) = CHOOSE i \in I : P(i)
    BY DEF Nth
  <2> HIDE DEF P
  <2>3. Nth(I, k) \in I /\ P(Nth(I, k))
    BY <2>1, <2>2
  <2> QED
    BY <2>3 DEF P
<1>2. ASSUME NEW k \in 1 .. Cardinality(I), NEW l \in 1 .. Cardinality(I), k < l
      PROVE  Nth(I, k) < Nth(I, l)
  <2> DEFINE a == Nth(I, k)
             b == Nth(I, l)
  <2>1. a \in I /\ b \in I /\ Cardinality(UpTo(a)) = k /\ Cardinality(UpTo(b)) = l
    BY <1>1
  <2> HIDE DEF a, b
  <2>2. a \in Nat /\ b \in Nat
    BY <2>1
  <2>3. CASE b <= a
    <3>1. UpTo(b) \subseteq UpTo(a)
      <4>1. \A j \in Nat : j <= b => j <= a
        BY <2>2, <2>3
      <4>2. I \subseteq Nat
        OBVIOUS
      <4> QED
        BY <4>1, <4>2
    <3>2. IsFiniteSet(UpTo(a))
      <4>1. IsFiniteSet(I) /\ UpTo(a) \subseteq I
        BY NthExists
      <4> QED
        BY <4>1, FS_Subset
    <3>3. Cardinality(UpTo(b)) <= Cardinality(UpTo(a))
      BY <3>1, <3>2, FS_Subset
    <3>4. k \in Nat /\ l \in Nat
      BY NthExists
    <3> QED
      BY <2>1, <3>3, <3>4, <1>2
  <2> QED
    BY <2>2, <2>3 DEF a, b
<1> QED
  BY <1>1, <1>2

\* What is kept of a list is of its entries, in their order.
LEMMA KeptInOrder ==
  ASSUME NEW S, NEW list \in Seq(S), NEW I \in SUBSET DOMAIN list
  PROVE  /\ Kept(list, I) \in Seq(S)
         /\ Len(Kept(list, I)) = Cardinality(I) /\ Cardinality(I) \in 0 .. Len(list)
         /\ \A k \in 1 .. Cardinality(I) :
               Nth(I, k) \in I /\ Kept(list, I)[k] = list[Nth(I, k)]
         /\ \A k, l \in 1 .. Cardinality(I) : k < l => Nth(I, k) < Nth(I, l)
<1>1. Len(list) \in Nat /\ I \in SUBSET (1 .. Len(list)) /\ DOMAIN list = 1 .. Len(list)
  OBVIOUS
<1>2. Cardinality(I) \in 0 .. Len(list) /\ Cardinality(I) \in Nat
  BY <1>1, NthExists
<1>3. \A k \in 1 .. Cardinality(I) : Nth(I, k) \in I
  BY <1>1, NthInOrder
<1>4. \A k \in 1 .. Cardinality(I) : list[Nth(I, k)] \in S
  BY <1>1, <1>3
<1>5. Kept(list, I) \in Seq(S) /\ Len(Kept(list, I)) = Cardinality(I)
  BY <1>2, <1>4, IsASeq DEF Kept
<1>6. \A k \in 1 .. Cardinality(I) : Kept(list, I)[k] = list[Nth(I, k)]
  BY DEF Kept
<1> QED
  BY <1>1, <1>2, <1>3, <1>5, <1>6, NthInOrder

\* The places from a to b, and what is kept of them.
LEMMA NthOfInterval ==
  ASSUME NEW a \in Nat \ {0}, NEW b \in Nat, a <= b + 1
  PROVE  /\ Cardinality(a .. b) = b - a + 1
         /\ \A k \in 1 .. b - a + 1 : Nth(a .. b, k) = a + k - 1
<1> DEFINE I == a .. b
           P(k, i) == Cardinality({j \in I : j <= i}) = k
<1>1. Cardinality(a .. b) = b - a + 1
  <2>1. CASE a <= b
    BY <2>1, FS_Interval
  <2>2. CASE a = b + 1
    <3>1. a .. b = {} /\ b - a + 1 = 0
      BY <2>2
    <3> QED
      BY <3>1, FS_EmptySet
  <2> QED
    BY <2>1, <2>2
<1>2. ASSUME NEW i \in I PROVE Cardinality({j \in I : j <= i}) = i - a + 1
  <2>1. {j \in I : j <= i} = a .. i /\ a <= i /\ i \in Nat
    OBVIOUS
  <2>2. Cardinality(a .. i) = i - a + 1
    BY <2>1, FS_Interval
  <2> QED
    BY <2>1, <2>2
<1>3. ASSUME NEW k \in 1 .. b - a + 1 PROVE Nth(I, k) = a + k - 1
  <2> DEFINE m == a + k - 1
  <2>1. m \in I /\ m - a + 1 = k
    OBVIOUS
  <2>2. P(k, m)
    BY <1>2, <2>1
  <2>3. Nth(I, k) = CHOOSE i \in I : P(k, i)
    BY DEF Nth
  <2>4. Nth(I, k) \in I /\ P(k, Nth(I, k))
    <3> HIDE DEF P, I, m
    <3> QED
      BY <2>1, <2>2, <2>3
  <2>5. Nth(I, k) - a + 1 = k /\ Nth(I, k) \in Nat
    BY <1>2, <2>4
  <2> QED
    BY <2>5
<1> QED
  BY <1>1, <1>3

LEMMA KeptOfInterval ==
  ASSUME NEW S, NEW list \in Seq(S), NEW a \in Nat \ {0}, NEW b \in 0 .. Len(list), a <= b + 1
  PROVE  /\ Kept(list, a .. b) \in Seq(S) /\ Len(Kept(list, a .. b)) = b - a + 1
         /\ \A k \in 1 .. b - a + 1 : Kept(list, a .. b)[k] = list[a + k - 1]
<1>1. b \in Nat /\ (a .. b) \in SUBSET DOMAIN list
  OBVIOUS
<1>2. /\ Cardinality(a .. b) = b - a + 1
      /\ \A k \in 1 .. b - a + 1 : Nth(a .. b, k) = a + k - 1
  BY <1>1, NthOfInterval
<1>3. /\ Kept(list, a .. b) \in Seq(S) /\ Len(Kept(list, a .. b)) = Cardinality(a .. b)
      /\ \A k \in 1 .. Cardinality(a .. b) : Kept(list, a .. b)[k] = list[Nth(a .. b, k)]
  BY <1>1, KeptInOrder
<1> QED
  BY <1>2, <1>3

\* Places of a list that are, with each, all before it, are its first ones.
LEMMA FirstPlaces ==
  ASSUME NEW n \in Nat, NEW D \in SUBSET (1 .. n),
         \A i \in D : \A j \in 1 .. n : j <= i => j \in D
  PROVE  \E m \in 0 .. n : D = 1 .. m
<1> DEFINE T == {x \in 1 .. n + 1 : x \notin D}
<1>1. n + 1 \in T /\ T \subseteq Nat
  OBVIOUS
<1>2. PICK x \in T : \A y \in T : x <= y
  BY <1>1, Less
<1>3. x \in 1 .. n + 1 /\ x \notin D
  OBVIOUS
<1>4. ASSUME NEW j \in 1 .. x - 1 PROVE j \in D
  <2>1. j \in 1 .. n + 1 /\ j < x
    BY <1>3
  <2> QED
    BY <1>2, <2>1
<1>5. ASSUME NEW i \in D PROVE i \in 1 .. x - 1
  <2>1. i \in 1 .. n /\ i # x
    BY <1>3
  <2>2. ~(x < i)
    <3>1. ASSUME x < i PROVE x \in D
      BY <1>3, <2>1, <3>1
    <3> QED
      BY <1>3, <3>1
  <2> QED
    BY <1>3, <2>1, <2>2
<1>6. x - 1 \in 0 .. n
  BY <1>3
<1>7. D \subseteq 1 .. x - 1 /\ 1 .. x - 1 \subseteq D
  BY <1>4, <1>5
<1> QED
  BY <1>6, <1>7

LEMMA KeptJoins ==
  ASSUME NEW S, NEW list \in Seq(S), NEW b \in 0 .. Len(list), NEW a \in 0 .. b
  PROVE  Kept(list, 1 .. a) \o Kept(list, a + 1 .. b) = Kept(list, 1 .. b)
<1> DEFINE p == Kept(list, 1 .. a)
           q == Kept(list, a + 1 .. b)
           r == Kept(list, 1 .. b)
<1>1. a \in Nat /\ b \in Nat /\ a \in 0 .. Len(list) /\ a <= b
  OBVIOUS
<1>2. p \in Seq(S) /\ Len(p) = a /\ \A k \in 1 .. a : p[k] = list[k]
  <2>1. 1 \in Nat \ {0} /\ 1 <= a + 1 /\ a - 1 + 1 = a
    BY <1>1
  <2>2. /\ p \in Seq(S) /\ Len(p) = a - 1 + 1
        /\ \A k \in 1 .. a - 1 + 1 : p[k] = list[1 + k - 1]
    BY <1>1, <2>1, KeptOfInterval
  <2> QED
    BY <2>1, <2>2
<1>3. q \in Seq(S) /\ Len(q) = b - a /\ \A k \in 1 .. b - a : q[k] = list[a + k]
  <2>1. a + 1 \in Nat \ {0} /\ a + 1 <= b + 1 /\ b - (a + 1) + 1 = b - a
    BY <1>1
  <2>2. /\ q \in Seq(S) /\ Len(q) = b - (a + 1) + 1
        /\ \A k \in 1 .. b - (a + 1) + 1 : q[k] = list[(a + 1) + k - 1]
    BY <2>1, KeptOfInterval
  <2>3. ASSUME NEW k \in 1 .. b - a PROVE (a + 1) + k - 1 = a + k
    BY <1>1
  <2> QED
    BY <2>1, <2>2, <2>3
<1>4. r \in Seq(S) /\ Len(r) = b /\ \A k \in 1 .. b : r[k] = list[k]
  <2>1. 1 \in Nat \ {0} /\ 1 <= b + 1 /\ b - 1 + 1 = b
    BY <1>1
  <2>2. /\ r \in Seq(S) /\ Len(r) = b - 1 + 1
        /\ \A k \in 1 .. b - 1 + 1 : r[k] = list[1 + k - 1]
    BY <1>1, <2>1, KeptOfInterval
  <2> QED
    BY <2>1, <2>2
<1> HIDE DEF p, q, r
<1>5. /\ p \o q \in Seq(S) /\ Len(p \o q) = b
      /\ \A k \in 1 .. b : (p \o q)[k] = list[k]
  <2>1. p \o q \in Seq(S) /\ Len(p \o q) = Len(p) + Len(q)
        /\ \A k \in 1 .. Len(p) + Len(q) :
              (p \o q)[k] = IF k <= Len(p) THEN p[k] ELSE q[k - Len(p)]
    BY <1>2, <1>3, ConcatProperties
  <2>2. a + (b - a) = b
    BY <1>1
  <2>3. ASSUME NEW k \in 1 .. b PROVE (p \o q)[k] = list[k]
    <3>1. CASE k <= a
      <4>1. k \in 1 .. a
        BY <1>1, <3>1
      <4> QED
        BY <1>2, <1>3, <2>1, <2>2, <3>1, <4>1
    <3>2. CASE ~(k <= a)
      <4>1. k - a \in 1 .. b - a /\ a + (k - a) = k
        BY <1>1, <3>2
      <4> QED
        BY <1>2, <1>3, <2>1, <2>2, <3>2, <4>1
    <3> QED
      BY <3>1, <3>2
  <2> QED
    BY <1>2, <1>3, <2>1, <2>2, <2>3
<1>6. p \o q = r
  BY <1>4, <1>5, SeqEqual
<1> QED
  BY <1>6 DEF p, q, r

\* Every place has a number.
LEMMA NthOnto ==
  ASSUME NEW n \in Nat, NEW I \in SUBSET (1 .. n), NEW i \in I
  PROVE  \E k \in 1 .. Cardinality(I) : Nth(I, k) = i
<1> DEFINE UpTo(x) == {j \in I : j <= x}
           k == Cardinality(UpTo(i))
           b == Nth(I, k)
<1>1. IsFiniteSet(I) /\ Cardinality(I) \in Nat /\ \A x \in I : UpTo(x) \in SUBSET I
  BY NthExists
<1>2. \A x \in I : IsFiniteSet(UpTo(x)) /\ Cardinality(UpTo(x)) <= Cardinality(I)
                   /\ Cardinality(UpTo(x)) \in Nat
  <2> HIDE DEF UpTo
  <2> QED
    BY <1>1, FS_Subset, FS_CardinalityType
<1>3. k # 0
  <2>1. i \in UpTo(i)
    OBVIOUS
  <2>2. UpTo(i) # {}
    BY <2>1
  <2> HIDE DEF UpTo
  <2> QED
    BY <1>2, <2>2, FS_EmptySet
<1>4. k \in 1 .. Cardinality(I)
  BY <1>1, <1>2, <1>3
<1>5. \E x \in I : Cardinality({j \in I : j <= x}) = k
  BY <1>4, NthExists
<1> DEFINE P(x) == Cardinality({j \in I : j <= x}) = k
<1>6. b \in I /\ P(b)
  <2>1. b = CHOOSE x \in I : P(x)
    BY DEF Nth
  <2>2. \E x \in I : P(x)
    BY <1>5
  <2> HIDE DEF P, b, k
  <2> QED
    BY <2>1, <2>2
<1>7. Cardinality(UpTo(b)) = k /\ b \in I
  BY <1>6
<1> HIDE DEF b
<1>8. I \subseteq Nat
  OBVIOUS
<1>9. ASSUME NEW x \in I, NEW y \in I, x < y,
             Cardinality(UpTo(x)) = k, Cardinality(UpTo(y)) = k
      PROVE  FALSE
  <2>1. UpTo(x) \subseteq UpTo(y)
    <3>1. \A j \in Nat : j <= x => j <= y
      BY <1>8, <1>9
    <3> QED
      BY <1>8, <3>1
  <2>2. y \in UpTo(y) /\ y \notin UpTo(x)
    BY <1>8, <1>9
  <2>3. UpTo(x) \in SUBSET UpTo(y)
    BY <2>1
  <2> HIDE DEF UpTo
  <2>4. UpTo(y) = UpTo(x)
    BY <1>2, <1>9, <2>3, FS_Subset
  <2> QED
    BY <2>2, <2>4
<1>10. b = i
  <2>1. b \in Nat /\ i \in Nat
    BY <1>7, <1>8
  <2>2. ~(b < i) /\ ~(i < b)
    BY <1>7, <1>9
  <2> QED
    BY <2>1, <2>2
<1> QED
  BY <1>4, <1>10 DEF b

\* A set of numbers with a bound has a greatest one.
LEMMA Greatest ==
  ASSUME NEW T, NEW bound \in Int, T # {}, \A x \in T : x \in Int /\ x <= bound
  PROVE  \E x \in T : \A y \in T : x >= y
<1> DEFINE D == {bound - x : x \in T}
<1>1. D \subseteq Nat /\ D # {}
  OBVIOUS
<1>2. PICK d \in D : \A e \in D : d <= e
  BY <1>1, Less
<1>3. PICK x \in T : d = bound - x
  OBVIOUS
<1>4. ASSUME NEW y \in T PROVE x >= y
  <2>1. bound - y \in D
    OBVIOUS
  <2>2. bound - x <= bound - y
    BY <1>2, <1>3, <2>1
  <2> QED
    BY <2>2
<1> QED
  BY <1>4

\* What step makes of a function is told at x by its values where m is less.
Descends(D, X, m, step) ==
    /\ m \in [D -> Nat] /\ step \in [[D -> X] -> [D -> X]]
    /\ \A f, g \in [D -> X], x \in D :
         (\A y \in D : m[y] < m[x] => f[y] = g[y]) => step[f][x] = step[g][x]

\* A function that depends on its own values in this way is well defined.
LEMMA MeasureRecursion ==
  ASSUME NEW D, NEW X, X # {}, NEW m, NEW step, Descends(D, X, m, step)
  PROVE  \E f \in [D -> X] : f = step[f]
<1>0. /\ m \in [D -> Nat] /\ step \in [[D -> X] -> [D -> X]]
      /\ \A f, g \in [D -> X], x \in D :
           (\A y \in D : m[y] < m[x] => f[y] = g[y]) => step[f][x] = step[g][x]
  BY DEF Descends
<1>9. PICK base \in X : TRUE
  OBVIOUS
<1> USE <1>0
<1> DEFINE Good(f, n) == f \in [D -> X] /\ \A y \in D : m[y] < n => f[y] = step[f][y]
           T == {n \in Nat : \E f : Good(f, n)}
<1>1. 0 \in T
  <2>1. [x \in D |-> base] \in [D -> X]
    OBVIOUS
  <2>2. \A y \in D : ~(m[y] < 0)
    OBVIOUS
  <2> QED
    BY <2>1, <2>2
<1>2. ASSUME NEW n \in Nat, n \in T PROVE n + 1 \in T
  <2>1. PICK f : Good(f, n)
    BY <1>2
  <2>2. step[f] \in [D -> X]
    BY <2>1
  <2>3. ASSUME NEW y \in D, m[y] < n + 1 PROVE step[f][y] = step[step[f]][y]
    <3>1. ASSUME NEW z \in D, m[z] < m[y] PROVE f[z] = step[f][z]
      <4>1. m[z] < n
        BY <2>3, <3>1
      <4> QED
        BY <2>1, <4>1
    <3> QED
      BY <2>1, <2>2, <3>1
  <2>4. Good(step[f], n + 1)
    BY <2>2, <2>3
  <2> HIDE DEF Good
  <2> QED
    BY <2>4
<1> HIDE DEF T
<1>3. \A n \in Nat : \E f : Good(f, n)
  BY <1>1, <1>2, SetInduction DEF T
<1>4. ASSUME NEW f, NEW g, NEW n \in Nat, Good(f, n), Good(g, n), NEW x \in D, m[x] < n
      PROVE  f[x] = g[x]
  <2> DEFINE S == {k \in Nat : \A y \in D : m[y] < k /\ m[y] < n => f[y] = g[y]}
  <2>1. 0 \in S
    OBVIOUS
  <2>2. ASSUME NEW k \in Nat, k \in S PROVE k + 1 \in S
    <3>1. ASSUME NEW y \in D, m[y] < k + 1, m[y] < n PROVE f[y] = g[y]
      <4>1. ASSUME NEW z \in D, m[z] < m[y] PROVE f[z] = g[z]
        <5>1. m[z] < k /\ m[z] < n
          BY <3>1, <4>1
        <5> QED
          BY <2>2, <5>1
      <4>2. step[f][y] = step[g][y]
        BY <1>4, <4>1
      <4>3. f[y] = step[f][y] /\ g[y] = step[g][y]
        BY <1>4, <3>1
      <4> QED
        BY <4>2, <4>3
    <3> QED
      BY <3>1
  <2> HIDE DEF S
  <2>3. n \in S
    BY <2>1, <2>2, SetInduction
  <2> QED
    BY <1>4, <2>3 DEF S
<1> DEFINE G(n) == CHOOSE f : Good(f, n)
<1>5. \A n \in Nat : Good(G(n), n)
  BY <1>3
<1> HIDE DEF G
<1> DEFINE F == [x \in D |-> G(m[x] + 1)[x]]
<1>6. F \in [D -> X]
  BY <1>5
<1>7. ASSUME NEW x \in D PROVE F[x] = step[F][x]
  <2>1. m[x] + 1 \in Nat /\ Good(G(m[x] + 1), m[x] + 1)
    BY <1>5
  <2>2. ASSUME NEW y \in D, m[y] < m[x] PROVE F[y] = G(m[x] + 1)[y]
    <3>1. m[y] + 1 \in Nat /\ m[y] < m[y] + 1 /\ m[y] + 1 <= m[x] + 1
      BY <2>2
    <3>2. Good(G(m[y] + 1), m[y] + 1)
      BY <1>5, <3>1
    <3>3. Good(G(m[x] + 1), m[y] + 1)
      BY <2>1, <3>1
    <3>4. G(m[y] + 1)[y] = G(m[x] + 1)[y]
      BY <1>4, <3>1, <3>2, <3>3
    <3> QED
      BY <3>4
  <2>3. step[F][x] = step[G(m[x] + 1)][x]
    BY <1>6, <2>1, <2>2
  <2>4. G(m[x] + 1)[x] = step[G(m[x] + 1)][x]
    BY <2>1
  <2> QED
    BY <2>3, <2>4
<1>8. F = step[F]
  <2> HIDE DEF F
  <2>1. step[F] \in [D -> X]
    BY <1>6
  <2> QED
    BY <1>6, <1>7, <2>1
<1> HIDE DEF F
<1> QED
  BY <1>6, <1>8

\* Tuples one longer.

LEMMA AppendTwo ==
  ASSUME NEW i, NEW j
  PROVE  <<i>> \o <<j>> = <<i, j>>
<1> DEFINE T == {i, j}
           s == <<i>>
           a == Append(s, j)
           b == <<i, j>>
<1>1. s \in Seq(T) /\ Len(s) = 1 /\ s[1] = i /\ j \in T
  OBVIOUS
<1>2. b \in Seq(T) /\ Len(b) = 2 /\ b[1] = i /\ b[2] = j
  OBVIOUS
<1> HIDE DEF T, s, b
<1>0. s \in Seq(T) /\ j \in T
  BY <1>1
<1>3. a = s \o <<j>>
  BY <1>0, AppendIsConcat
<1>4. /\ a \in Seq(T) /\ Len(a) = Len(s) + 1 /\ a[Len(s) + 1] = j
      /\ \A n \in 1 .. Len(s) : a[n] = s[n]
  BY <1>0, AppendProperties
<1> HIDE DEF a
<1>5. \A n \in 1 .. 2 : a[n] = b[n]
  <2>1. a[1] = i /\ a[2] = j
    BY <1>1, <1>4
  <2> QED
    BY <1>2, <2>1
<1>6. a = b
  <2>1. a \in Seq(T) /\ b \in Seq(T) /\ Len(a) = 2 /\ Len(b) = 2
    BY <1>1, <1>2, <1>4
  <2> QED
    BY <1>5, <2>1, SeqEqual
<1> QED
  BY <1>3, <1>6 DEF b, s

LEMMA AppendThree ==
  ASSUME NEW i, NEW j, NEW k
  PROVE  <<i, j>> \o <<k>> = <<i, j, k>>
<1> DEFINE T == {i, j, k}
           s == <<i, j>>
           a == Append(s, k)
           b == <<i, j, k>>
<1>1. s \in Seq(T) /\ Len(s) = 2 /\ s[1] = i /\ s[2] = j /\ k \in T
  OBVIOUS
<1>2. b \in Seq(T) /\ Len(b) = 3 /\ b[1] = i /\ b[2] = j /\ b[3] = k
  OBVIOUS
<1> HIDE DEF T, s, b
<1>0. s \in Seq(T) /\ k \in T
  BY <1>1
<1>3. a = s \o <<k>>
  BY <1>0, AppendIsConcat
<1>4. /\ a \in Seq(T) /\ Len(a) = Len(s) + 1 /\ a[Len(s) + 1] = k
      /\ \A n \in 1 .. Len(s) : a[n] = s[n]
  BY <1>0, AppendProperties
<1> HIDE DEF a
<1>5. \A n \in 1 .. 3 : a[n] = b[n]
  <2>1. a[1] = i /\ a[2] = j /\ a[3] = k
    BY <1>1, <1>4
  <2> QED
    BY <1>2, <2>1
<1>6. a = b
  <2>1. a \in Seq(T) /\ b \in Seq(T) /\ Len(a) = 3 /\ Len(b) = 3
    BY <1>1, <1>2, <1>4
  <2> QED
    BY <1>5, <2>1, SeqEqual
<1> QED
  BY <1>3, <1>6 DEF b, s

LEMMA AppendFour ==
  ASSUME NEW i, NEW j, NEW k, NEW l
  PROVE  <<i, j, k>> \o <<l>> = <<i, j, k, l>>
<1> DEFINE T == {i, j, k, l}
           s == <<i, j, k>>
           a == Append(s, l)
           b == <<i, j, k, l>>
<1>1. s \in Seq(T) /\ Len(s) = 3 /\ s[1] = i /\ s[2] = j /\ s[3] = k /\ l \in T
  OBVIOUS
<1>2. b \in Seq(T) /\ Len(b) = 4 /\ b[1] = i /\ b[2] = j /\ b[3] = k /\ b[4] = l
  OBVIOUS
<1> HIDE DEF T, s, b
<1>0. s \in Seq(T) /\ l \in T
  BY <1>1
<1>3. a = s \o <<l>>
  BY <1>0, AppendIsConcat
<1>4. /\ a \in Seq(T) /\ Len(a) = Len(s) + 1 /\ a[Len(s) + 1] = l
      /\ \A n \in 1 .. Len(s) : a[n] = s[n]
  BY <1>0, AppendProperties
<1> HIDE DEF a
<1>5. \A n \in 1 .. 4 : a[n] = b[n]
  <2>1. a[1] = i /\ a[2] = j /\ a[3] = k /\ a[4] = l
    BY <1>1, <1>4
  <2> QED
    BY <1>2, <2>1
<1>6. a = b
  <2>1. a \in Seq(T) /\ b \in Seq(T) /\ Len(a) = 4 /\ Len(b) = 4
    BY <1>1, <1>2, <1>4
  <2> QED
    BY <1>5, <2>1, SeqEqual
<1> QED
  BY <1>3, <1>6 DEF b, s

=============================================================================
