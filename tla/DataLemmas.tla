------------------------------ MODULE DataLemmas ------------------------------
(***************************************************************************)
(* Induction as facts about sets, what follows from it about minima, and   *)
(* the parts of a list.                                                    *)
(*                                                                         *)
(* The induction theorems of the library take a predicate as a parameter.  *)
(* Here induction is over a set of numbers instead, which every leaf can   *)
(* cite: it rests on the strict inclusion of finite sets being well        *)
(* founded.                                                                *)
(***************************************************************************)
EXTENDS Sublists, SequencesExt, SequenceTheorems, FiniteSetTheorems, TLAPS

\* Of the numbers of a set, one is the least.
LEMMA LeastNatural ==
  ASSUME NEW T, T \subseteq Nat, T # {}
  PROVE  \E x \in T : \A y \in T : x <= y
<1>1. PICK n \in T : TRUE
  OBVIOUS
<1> DEFINE S == 0..n
           C == {0..m : m \in {k \in T : k <= n}}
           R == StrictSubsetOrdering(S)
<1>2. IsWellFoundedOn(R, SUBSET S)
  <2>1. IsFiniteSet(S)
    BY <1>1, FS_Interval
  <2> HIDE DEF S
  <2> QED
    BY <2>1, FS_FiniteSubsetsOfFinite, FS_StrictSubsetOrderingWellFounded
<1>3. C \subseteq SUBSET S /\ C # {}
  BY <1>1
<1>4. PICK c \in C : \A d \in C : <<d, c>> \notin R
  <2> HIDE DEF C, R, S
  <2> QED
    BY <1>2, <1>3, WFMin
<1>5. PICK m \in T : m <= n /\ c = 0..m
  BY <1>4
<1>6. ASSUME NEW y \in T PROVE m <= y
  <2> SUFFICES ASSUME y < m PROVE FALSE
    BY <1>1, <1>5
  <2>1. y <= n /\ 0..y \in C
    BY <1>1, <1>5
  <2>2. 0..y \subseteq 0..m /\ m \in 0..m /\ m \notin 0..y
    BY <1>5
  <2>3. <<0..y, c>> \in R
    BY <1>1, <1>3, <1>4, <1>5, <2>1, <2>2 DEF StrictSubsetOrdering
  <2> QED
    BY <1>4, <2>1, <2>3
<1> QED
  BY <1>5, <1>6

\* Induction: a set of numbers that holds 0 and every successor holds them all.
LEMMA InductionOnNat ==
  ASSUME NEW S, 0 \in S, \A n \in Nat : n \in S => n + 1 \in S
  PROVE  \A n \in Nat : n \in S
<1> SUFFICES ASSUME Nat \ S # {} PROVE FALSE
  OBVIOUS
<1>1. PICK m \in Nat \ S : \A y \in Nat \ S : m <= y
  BY LeastNatural
<1>2. m - 1 \in Nat
  BY <1>1
<1>3. m - 1 \in S
  BY <1>1, <1>2
<1> QED
  BY <1>1, <1>2, <1>3

\* What Min of the community modules returns.
LEMMA MinIsLeast ==
  ASSUME NEW T, T \subseteq Nat, T # {}
  PROVE  Min(T) \in T /\ \A y \in T : Min(T) <= y
<1>1. \E x \in T : \A y \in T : x <= y
  BY LeastNatural
<1> QED
  BY <1>1 DEF Min

\* A set of numbers from 1 up to its greatest is as long as it has members.
LEMMA PrefixIsInterval ==
  ASSUME NEW n \in Nat, NEW S, S \subseteq 1..n,
         \A i \in S : \A j \in 1..i : j \in S
  PROVE  Cardinality(S) \in 0..n /\ S = 1..Cardinality(S)
<1>1. (1..(n + 1)) \ S \subseteq Nat /\ n + 1 \in (1..(n + 1)) \ S
  OBVIOUS
<1>2. PICK m \in (1..(n + 1)) \ S : \A y \in (1..(n + 1)) \ S : m <= y
  BY <1>1, LeastNatural
<1>3. ASSUME NEW i \in S PROVE i \in 1..(m - 1)
  <2>1. i < m
    <3> SUFFICES ASSUME m <= i PROVE FALSE
      BY <1>2
    <3> QED
      BY <1>2
  <2> QED
    BY <2>1, <1>2
<1>4. ASSUME NEW i \in 1..(m - 1) PROVE i \in S
  <2>1. i \in 1..(n + 1) /\ ~(m <= i)
    BY <1>2
  <2> QED
    BY <2>1, <1>2
<1>5. S = 1..(m - 1)
  BY <1>3, <1>4
<1>6. m - 1 \in 0..n /\ Cardinality(1..(m - 1)) = m - 1
  BY <1>2, FS_Interval
<1> QED
  BY <1>5, <1>6

\* The first m numbers of each of R blocks of n.
Blocks(n, m, R) == {k * n + j : k \in 0..(R - 1), j \in 1..m}

LEMMA BlocksCount ==
  ASSUME NEW n \in Nat, NEW m \in 0..n, NEW R \in Nat
  PROVE  IsFiniteSet(Blocks(n, m, R)) /\ Cardinality(Blocks(n, m, R)) = R * m
<1> DEFINE G(r) == {k * n + j : k \in 0..(r - 1), j \in 1..m}
           Good == {r \in Nat : /\ IsFiniteSet(G(r)) /\ Cardinality(G(r)) = r * m
                                /\ \A x \in G(r) : x \in Nat /\ x <= r * n}
<1>1. 0 \in Good
  <2>1. G(0) = {}
    <3>1. 0..(0 - 1) = {}
      OBVIOUS
    <3> QED
      BY <3>1
  <2>2. 0 * m = 0
    OBVIOUS
  <2> HIDE DEF G
  <2> QED
    BY <2>1, <2>2, FS_EmptySet
<1>2. ASSUME NEW r \in Nat, r \in Good PROVE r + 1 \in Good
  <2> DEFINE Block == {r * n + j : j \in 1..m}
  <2>1. G(r + 1) = G(r) \union Block
    <3>1. \A k : k \in 0..(r + 1 - 1) <=> k \in 0..(r - 1) \/ k = r
      OBVIOUS
    <3>2. ASSUME NEW x \in G(r + 1) PROVE x \in G(r) \union Block
      <4>1. PICK k \in 0..(r + 1 - 1), j \in 1..m : x = k * n + j
        OBVIOUS
      <4> QED
        BY <3>1, <4>1
    <3>3. ASSUME NEW x \in G(r) PROVE x \in G(r + 1)
      <4>1. PICK k \in 0..(r - 1), j \in 1..m : x = k * n + j
        OBVIOUS
      <4> QED
        BY <3>1, <4>1
    <3>4. ASSUME NEW x \in Block PROVE x \in G(r + 1)
      BY <3>1
    <3> HIDE DEF G, Block
    <3> QED
      BY <3>2, <3>3, <3>4
  <2>2. r * n \in Nat
    OBVIOUS
  <2>3. IsFiniteSet(Block) /\ Cardinality(Block) = m
    <3> DEFINE rn == r * n
    <3>1. rn \in Nat
      BY <2>2
    <3>2. Block = (rn + 1)..(rn + m)
      <4> HIDE DEF rn
      <4>1. {rn + j : j \in 1..m} \subseteq (rn + 1)..(rn + m)
        BY <3>1
      <4>2. ASSUME NEW x \in (rn + 1)..(rn + m) PROVE x \in {rn + j : j \in 1..m}
        <5>1. x - rn \in 1..m /\ x = rn + (x - rn)
          BY <3>1
        <5> QED
          BY <5>1
      <4>3. {rn + j : j \in 1..m} = (rn + 1)..(rn + m)
        BY <4>1, <4>2
      <4> QED
        BY <4>3 DEF rn
    <3> HIDE DEF rn
    <3>3. IsFiniteSet((rn + 1)..(rn + m)) /\ Cardinality((rn + 1)..(rn + m)) = m
      BY <3>1, FS_Interval
    <3> QED
      BY <3>2, <3>3
  <2>4. G(r) \intersect Block = {}
    <3> SUFFICES ASSUME NEW x \in G(r), x \in Block PROVE FALSE
      OBVIOUS
    <3>1. x \in Nat /\ x <= r * n
      BY <1>2
    <3>2. PICK j \in 1..m : x = r * n + j
      OBVIOUS
    <3> QED
      BY <2>2, <3>1, <3>2
  <2>5. IsFiniteSet(G(r)) /\ Cardinality(G(r)) = r * m
    BY <1>2
  <2>6. \A x \in G(r + 1) : x \in Nat /\ x <= (r + 1) * n
    <3>1. (r + 1) * n = r * n + n
      OBVIOUS
    <3>2. \A x \in G(r) : x \in Nat /\ x <= r * n
      BY <1>2
    <3>3. \A x \in Block : x \in Nat /\ x <= r * n + n
      BY <2>2
    <3> HIDE DEF G, Block
    <3> QED
      BY <2>1, <2>2, <3>1, <3>2, <3>3
  <2>7. IsFiniteSet(G(r + 1)) /\ Cardinality(G(r + 1)) = r * m + m
    <3> HIDE DEF G, Block
    <3>1. Cardinality({}) = 0
      BY FS_EmptySet
    <3>2. r * m \in Nat
      OBVIOUS
    <3> QED
      BY <2>1, <2>3, <2>4, <2>5, <3>1, <3>2, FS_Union
  <2>8. (r + 1) * m = r * m + m
    OBVIOUS
  <2> HIDE DEF G
  <2> QED
    BY <2>6, <2>7, <2>8
<1> HIDE DEF Good
<1>3. R \in Good
  BY <1>1, <1>2, InductionOnNat
<1> QED
  BY <1>3 DEF Good, Blocks
-----------------------------------------------------------------------------
(* Lists and their parts. A list is known by its members, and by which of  *)
(* them stand before which: a part keeps the pairs of its members.         *)

Pairs(s) ==
  {p \in ToSet(s) \X ToSet(s) : \E i, j \in DOMAIN s : i < j /\ p = <<s[i], s[j]>>}

LEMMA PairsAre ==
  ASSUME NEW X, NEW s \in Seq(X)
  PROVE  /\ \A i, j \in DOMAIN s : i < j => <<s[i], s[j]>> \in Pairs(s)
         /\ \A x, y : <<x, y>> \in Pairs(s) =>
              \E i, j \in DOMAIN s : i < j /\ x = s[i] /\ y = s[j]
<1>1. ASSUME NEW i \in DOMAIN s, NEW j \in DOMAIN s, i < j PROVE <<s[i], s[j]>> \in Pairs(s)
  BY <1>1 DEF Pairs, ToSet
<1>2. ASSUME NEW x, NEW y, <<x, y>> \in Pairs(s)
      PROVE  \E i, j \in DOMAIN s : i < j /\ x = s[i] /\ y = s[j]
  BY <1>2 DEF Pairs
<1> QED
  BY <1>1, <1>2

LEMMA ListIs ==
  ASSUME NEW X, NEW s \in Seq(X)
  PROVE  /\ Len(s) \in Nat /\ DOMAIN s = 1..Len(s)
         /\ \A i \in DOMAIN s : s[i] \in X
         /\ ToSet(s) \subseteq X /\ \A x : x \in ToSet(s) <=> \E i \in DOMAIN s : s[i] = x
<1>1. s \in [1..Len(s) -> X] /\ Len(s) \in Nat /\ DOMAIN s = 1..Len(s)
  BY LenProperties
<1> QED
  BY <1>1 DEF ToSet

\* A list without repeats, said with its pairs.
LEMMA DistinctPairs ==
  ASSUME NEW X, NEW s \in Seq(X)
  PROVE  IsInjective(s) <=> \A x : <<x, x>> \notin Pairs(s)
<1>1. DOMAIN s = 1..Len(s) /\ Len(s) \in Nat
  BY ListIs
<1>2. ASSUME IsInjective(s), NEW x, <<x, x>> \in Pairs(s) PROVE FALSE
  <2>1. PICK i \in DOMAIN s, j \in DOMAIN s : i < j /\ x = s[i] /\ x = s[j]
    BY <1>2, PairsAre
  <2>2. i = j
    BY <1>2, <2>1 DEF IsInjective
  <2> QED
    BY <1>1, <2>1, <2>2
<1>3. ASSUME \A x : <<x, x>> \notin Pairs(s), NEW i \in DOMAIN s, NEW j \in DOMAIN s, s[i] = s[j]
      PROVE  i = j
  <2>1. ~(i < j)
    <3> SUFFICES ASSUME i < j PROVE FALSE
      OBVIOUS
    <3>1. <<s[i], s[j]>> \in Pairs(s)
      BY PairsAre
    <3> QED
      BY <1>3, <3>1
  <2>2. ~(j < i)
    <3> SUFFICES ASSUME j < i PROVE FALSE
      OBVIOUS
    <3>1. <<s[j], s[i]>> \in Pairs(s)
      BY PairsAre
    <3> QED
      BY <1>3, <3>1
  <2> QED
    BY <1>1, <2>1, <2>2
<1> QED
  BY <1>2, <1>3 DEF IsInjective

\* Nth counts the positions of a set in their order.
LEMMA NthCounts ==
  ASSUME NEW n \in Nat, NEW at, at \subseteq 1..n
  PROVE  /\ Cardinality(at) \in Nat
         /\ \A k \in 1..Cardinality(at) : Nth(at, k) \in at
         /\ \A k, l \in 1..Cardinality(at) : k < l => Nth(at, k) < Nth(at, l)
         /\ \A i \in at : \E k \in 1..Cardinality(at) : Nth(at, k) = i
<1> DEFINE N == Cardinality(at)
           Upto(i) == {j \in at : j <= i}
           c == [i \in at |-> Cardinality(Upto(i))]
<1>1. IsFiniteSet(at) /\ N \in Nat
  <2>1. IsFiniteSet(1..n)
    BY FS_Interval
  <2>2. IsFiniteSet(at)
    BY <2>1, FS_Subset
  <2> QED
    BY <2>2, FS_CardinalityType
<1>2. ASSUME NEW i \in at PROVE IsFiniteSet(Upto(i)) /\ c[i] \in 1..N /\ c[i] = Cardinality(Upto(i))
  <2>1. Upto(i) \subseteq at /\ i \in Upto(i)
    OBVIOUS
  <2>2. c[i] = Cardinality(Upto(i))
    OBVIOUS
  <2> HIDE DEF Upto, c, N
  <2>3. IsFiniteSet(Upto(i)) /\ Cardinality(Upto(i)) <= N
    BY <1>1, <2>1, FS_Subset DEF N
  <2>4. Cardinality(Upto(i)) \in Nat /\ Cardinality(Upto(i)) # 0
    BY <2>1, <2>3, FS_CardinalityType, FS_EmptySet
  <2> QED
    BY <1>1, <2>2, <2>3, <2>4
<1>3. ASSUME NEW i \in at, NEW j \in at, i < j PROVE c[i] < c[j]
  <2>1. Upto(i) \subseteq Upto(j) /\ j \in Upto(j) /\ j \notin Upto(i)
    <3>1. \A x \in at : x \in Int
      OBVIOUS
    <3>2. \A x \in at : x <= i => x <= j
      BY <1>3, <3>1
    <3>3. ~(j <= i) /\ j <= j
      BY <1>3, <3>1
    <3> QED
      BY <3>2, <3>3
  <2>2. IsFiniteSet(Upto(j)) /\ IsFiniteSet(Upto(i)) /\ c[i] \in 1..N /\ c[j] \in 1..N
        /\ c[i] = Cardinality(Upto(i)) /\ c[j] = Cardinality(Upto(j))
    BY <1>2
  <2> HIDE DEF Upto, c, N
  <2>3. Cardinality(Upto(i)) <= Cardinality(Upto(j)) /\ Cardinality(Upto(i)) # Cardinality(Upto(j))
    BY <2>1, <2>2, FS_Subset
  <2> QED
    BY <1>1, <2>2, <2>3
<1>4. \A i, j \in at : c[i] = c[j] => i = j
  <2> SUFFICES ASSUME NEW i \in at, NEW j \in at, c[i] = c[j] PROVE i = j
    OBVIOUS
  <2>1. c[i] \in 1..N /\ c[j] \in 1..N /\ i \in Nat /\ j \in Nat
    BY <1>2
  <2>2. ~(i < j) /\ ~(j < i)
    <3> HIDE DEF c
    <3> QED
      BY <1>1, <1>3, <2>1
  <2> QED
    BY <2>1, <2>2
<1>5. ASSUME NEW k \in 1..N PROVE \E i \in at : c[i] = k
  <2> DEFINE I == {c[i] : i \in at}
  <2>1. I \subseteq 1..N
    BY <1>2
  <2>2. c \in Bijection(at, I)
    <3>1. c \in [at -> I]
      OBVIOUS
    <3>2. \A y \in I : \E i \in at : c[i] = y
      OBVIOUS
    <3>3. IsInjective(c)
      <4>1. DOMAIN c = at
        OBVIOUS
      <4> HIDE DEF c
      <4> QED
        BY <1>4, <4>1 DEF IsInjective
    <3> HIDE DEF c, I
    <3> QED
      BY <3>1, <3>2, <3>3 DEF Bijection, Injection, Surjection, IsInjective
  <2>3. IsFiniteSet(1..N) /\ Cardinality(1..N) = N
    BY <1>1, FS_Interval
  <2> HIDE DEF c, I, N
  <2>4. Cardinality(I) = Cardinality(at)
    <3>1. ExistsBijection(at, I)
      BY <2>2 DEF ExistsBijection
    <3> QED
      BY <1>1, <3>1, FS_Bijection
  <2>5. I = 1..N
    BY <2>1, <2>3, <2>4, FS_Subset DEF N
  <2> QED
    BY <2>5 DEF I
<1>6. ASSUME NEW k \in 1..N PROVE Nth(at, k) \in at /\ c[Nth(at, k)] = k
  <2>1. PICK i \in at : Cardinality({j \in at : j <= i}) = k
    BY <1>5
  <2>2. Nth(at, k) \in at /\ Cardinality({j \in at : j <= Nth(at, k)}) = k
    BY <2>1 DEF Nth
  <2> QED
    BY <2>2
<1>7. ASSUME NEW k \in 1..N, NEW l \in 1..N, k < l PROVE Nth(at, k) < Nth(at, l)
  <2>1. Nth(at, k) \in at /\ Nth(at, l) \in at /\ c[Nth(at, k)] = k /\ c[Nth(at, l)] = l
    BY <1>6
  <2> DEFINE x == Nth(at, k)
             y == Nth(at, l)
  <2> HIDE DEF c, x, y
  <2>2. x \in at /\ y \in at /\ c[x] = k /\ c[y] = l
    BY <2>1 DEF x, y
  <2>3. ~(y < x) /\ x # y
    BY <1>1, <1>3, <1>7, <2>2
  <2>4. x \in Nat /\ y \in Nat
    BY <2>2
  <2> QED
    BY <2>3, <2>4 DEF x, y
<1>8. ASSUME NEW i \in at PROVE \E k \in 1..N : Nth(at, k) = i
  <2>1. c[i] \in 1..N
    BY <1>2
  <2>2. Nth(at, c[i]) \in at /\ c[Nth(at, c[i])] = c[i]
    <3> HIDE DEF c
    <3> QED
      BY <1>6, <2>1
  <2> HIDE DEF c
  <2> QED
    BY <1>4, <2>1, <2>2
<1> QED
  BY <1>1, <1>6, <1>7, <1>8

LEMMA PickIs ==
  ASSUME NEW X, NEW s \in Seq(X), NEW at, at \subseteq DOMAIN s
  PROVE  /\ Pick(s, at) \in Seq(X) /\ DOMAIN Pick(s, at) = 1..Cardinality(at)
         /\ \A k \in 1..Cardinality(at) : Pick(s, at)[k] = s[Nth(at, k)]
         /\ \A x : x \in ToSet(Pick(s, at)) <=> \E i \in at : s[i] = x
         /\ \A x, y : <<x, y>> \in Pairs(Pick(s, at)) =>
              \E i, j \in at : i < j /\ x = s[i] /\ y = s[j]
<1> DEFINE N == Cardinality(at)
           p == Pick(s, at)
<1>1. Len(s) \in Nat /\ DOMAIN s = 1..Len(s) /\ \A i \in DOMAIN s : s[i] \in X
  BY ListIs
<1>2. /\ N \in Nat /\ \A k \in 1..N : Nth(at, k) \in at
      /\ \A k, l \in 1..N : k < l => Nth(at, k) < Nth(at, l)
      /\ \A i \in at : \E k \in 1..N : Nth(at, k) = i
  BY <1>1, NthCounts
<1>3. p = [k \in 1..N |-> s[Nth(at, k)]]
  BY DEF Pick
<1> HIDE DEF N, p
<1>4. \A k \in 1..N : s[Nth(at, k)] \in X
  BY <1>1, <1>2
<1>5. p \in [1..N -> X]
  BY <1>3, <1>4
<1>6. p \in Seq(X) /\ DOMAIN p = 1..N
  BY <1>2, <1>5, SeqDef
<1>7. ASSUME NEW x PROVE x \in ToSet(p) <=> \E i \in at : s[i] = x
  <2>1. x \in ToSet(p) <=> \E k \in 1..N : p[k] = x
    BY <1>6 DEF ToSet
  <2>2. (\E k \in 1..N : p[k] = x) => \E i \in at : s[i] = x
    BY <1>2, <1>3
  <2>3. (\E i \in at : s[i] = x) => \E k \in 1..N : p[k] = x
    BY <1>2, <1>3
  <2> QED
    BY <2>1, <2>2, <2>3
<1>8. ASSUME NEW x, NEW y, <<x, y>> \in Pairs(p)
      PROVE  \E i, j \in at : i < j /\ x = s[i] /\ y = s[j]
  <2>1. PICK k \in DOMAIN p, l \in DOMAIN p : k < l /\ x = p[k] /\ y = p[l]
    BY <1>8 DEF Pairs
  <2> QED
    BY <1>2, <1>3, <1>6, <2>1
<1> QED
  BY <1>3, <1>6, <1>7, <1>8 DEF N, p

LEMMA KeepIs ==
  ASSUME NEW X, NEW s \in Seq(X), NEW S
  PROVE  /\ Keep(s, S) \in Seq(X) /\ ToSet(Keep(s, S)) = ToSet(s) \intersect S
         /\ \A x, y : <<x, y>> \in Pairs(Keep(s, S)) => <<x, y>> \in Pairs(s) /\ x \in S /\ y \in S
<1> DEFINE at == {i \in DOMAIN s : s[i] \in S}
           p == Keep(s, S)
<1>1. p = Pick(s, at) /\ at \subseteq DOMAIN s
  BY DEF Keep
<1>2. \A i \in at : i \in DOMAIN s /\ s[i] \in S
  OBVIOUS
<1>3. \A i \in DOMAIN s : s[i] \in S => i \in at
  OBVIOUS
<1> HIDE DEF p, at
<1>4. /\ p \in Seq(X) /\ \A x : x \in ToSet(p) <=> \E i \in at : s[i] = x
      /\ \A x, y : <<x, y>> \in Pairs(p) => \E i, j \in at : i < j /\ x = s[i] /\ y = s[j]
  BY <1>1, PickIs
<1>5. ToSet(p) = ToSet(s) \intersect S
  BY <1>2, <1>3, <1>4, ListIs
<1>6. ASSUME NEW x, NEW y, <<x, y>> \in Pairs(p) PROVE <<x, y>> \in Pairs(s) /\ x \in S /\ y \in S
  <2>1. PICK i \in at, j \in at : i < j /\ x = s[i] /\ y = s[j]
    BY <1>4, <1>6
  <2> QED
    BY <1>2, <2>1, PairsAre
<1> QED
  BY <1>4, <1>5, <1>6 DEF p

LEMMA DropIs ==
  ASSUME NEW X, NEW s \in Seq(X), NEW S
  PROVE  /\ Drop(s, S) \in Seq(X) /\ ToSet(Drop(s, S)) = ToSet(s) \ S
         /\ \A x, y : <<x, y>> \in Pairs(Drop(s, S)) =>
              <<x, y>> \in Pairs(s) /\ x \notin S /\ y \notin S
<1> DEFINE at == {i \in DOMAIN s : s[i] \notin S}
           p == Drop(s, S)
<1>1. p = Pick(s, at) /\ at \subseteq DOMAIN s
  BY DEF Drop
<1>2. \A i \in at : i \in DOMAIN s /\ s[i] \notin S
  OBVIOUS
<1>3. \A i \in DOMAIN s : s[i] \notin S => i \in at
  OBVIOUS
<1> HIDE DEF p, at
<1>4. /\ p \in Seq(X) /\ \A x : x \in ToSet(p) <=> \E i \in at : s[i] = x
      /\ \A x, y : <<x, y>> \in Pairs(p) => \E i, j \in at : i < j /\ x = s[i] /\ y = s[j]
  BY <1>1, PickIs
<1>5. ToSet(p) = ToSet(s) \ S
  BY <1>2, <1>3, <1>4, ListIs
<1>6. ASSUME NEW x, NEW y, <<x, y>> \in Pairs(p)
      PROVE  <<x, y>> \in Pairs(s) /\ x \notin S /\ y \notin S
  <2>1. PICK i \in at, j \in at : i < j /\ x = s[i] /\ y = s[j]
    BY <1>4, <1>6
  <2> QED
    BY <1>2, <2>1, PairsAre
<1> QED
  BY <1>4, <1>5, <1>6 DEF p

\* x stands somewhere before the first y, if there is a y.
Leads(s, x, y) == \E i \in DOMAIN s : s[i] = x /\ \A j \in 1..i : s[j] # y

LEMMA OnceIs ==
  ASSUME NEW X, NEW s \in Seq(X)
  PROVE  /\ Once(s) \in Seq(X) /\ ToSet(Once(s)) = ToSet(s)
         /\ \A x, y : <<x, y>> \in Pairs(Once(s)) => Leads(s, x, y) /\ x # y
<1> DEFINE at == {i \in DOMAIN s : \A j \in 1..(i - 1) : s[j] # s[i]}
           p == Once(s)
<1>1. p = Pick(s, at) /\ at \subseteq DOMAIN s
  BY DEF Once
<1>2. \A i \in at : i \in DOMAIN s /\ \A j \in 1..(i - 1) : s[j] # s[i]
  OBVIOUS
<1>3. Len(s) \in Nat /\ DOMAIN s = 1..Len(s)
  BY ListIs
<1>4. ASSUME NEW k \in DOMAIN s PROVE \E i \in at : s[i] = s[k]
  <2> DEFINE T == {j \in DOMAIN s : s[j] = s[k]}
  <2>1. T \subseteq Nat /\ T # {}
    BY <1>3
  <2>2. PICK m \in T : \A y \in T : m <= y
    BY <2>1, LeastNatural
  <2>3. ASSUME NEW j \in 1..(m - 1), s[j] = s[m] PROVE FALSE
    <3>1. j \in T
      BY <1>3, <2>2, <2>3
    <3>2. m <= j
      BY <2>2, <3>1
    <3> QED
      BY <1>3, <2>2, <3>2
  <2>4. m \in at /\ s[m] = s[k]
    BY <2>2, <2>3
  <2> QED
    BY <2>4
<1> HIDE DEF p, at
<1>5. /\ p \in Seq(X) /\ \A x : x \in ToSet(p) <=> \E i \in at : s[i] = x
      /\ \A x, y : <<x, y>> \in Pairs(p) => \E i, j \in at : i < j /\ x = s[i] /\ y = s[j]
  BY <1>1, PickIs
<1>6. ToSet(p) = ToSet(s)
  <2>1. \A x : x \in ToSet(s) <=> \E i \in DOMAIN s : s[i] = x
    BY ListIs
  <2>2. \A x : (\E i \in at : s[i] = x) <=> \E i \in DOMAIN s : s[i] = x
    BY <1>2, <1>4
  <2>3. \A x : x \in ToSet(p) <=> x \in ToSet(s)
    BY <1>5, <2>1, <2>2
  <2> QED
    BY <2>3
<1>7. ASSUME NEW x, NEW y, <<x, y>> \in Pairs(p) PROVE Leads(s, x, y) /\ x # y
  <2>1. PICK i \in at, j \in at : i < j /\ x = s[i] /\ y = s[j]
    BY <1>5, <1>7
  <2>2. i \in DOMAIN s /\ j \in DOMAIN s
    BY <1>2, <2>1
  <2>3. \A l \in 1..i : l \in 1..(j - 1)
    BY <1>3, <2>1, <2>2
  <2>4. \A l \in 1..i : s[l] # y
    BY <1>2, <2>1, <2>3
  <2>5. i \in 1..i
    BY <1>3, <2>2
  <2> QED
    BY <2>1, <2>2, <2>4, <2>5 DEF Leads
<1> QED
  BY <1>5, <1>6, <1>7 DEF p

LEMMA KeepLeads ==
  ASSUME NEW X, NEW s \in Seq(X), NEW S, NEW x, NEW y, y \in S, Leads(Keep(s, S), x, y)
  PROVE  Leads(s, x, y)
<1> DEFINE at == {i \in DOMAIN s : s[i] \in S}
           N == Cardinality(at)
           p == Keep(s, S)
<1>1. p = Pick(s, at) /\ at \subseteq DOMAIN s
  BY DEF Keep
<1>2. \A i \in DOMAIN s : s[i] = y => i \in at
  OBVIOUS
<1>3. Len(s) \in Nat /\ DOMAIN s = 1..Len(s)
  BY ListIs
<1> HIDE DEF at
<1>4. /\ p \in Seq(X) /\ DOMAIN p = 1..N /\ \A k \in 1..N : p[k] = s[Nth(at, k)]
  BY <1>1, PickIs
<1>5. /\ N \in Nat /\ \A k \in 1..N : Nth(at, k) \in at
      /\ \A k, l \in 1..N : k < l => Nth(at, k) < Nth(at, l)
      /\ \A i \in at : \E k \in 1..N : Nth(at, k) = i
  BY <1>1, <1>3, NthCounts
<1>6. PICK k \in DOMAIN p : p[k] = x /\ \A l \in 1..k : p[l] # y
  BY DEF Leads
<1> HIDE DEF N, p
<1>7. k \in 1..N /\ Nth(at, k) \in DOMAIN s /\ s[Nth(at, k)] = x
  BY <1>1, <1>4, <1>5, <1>6
<1>8. ASSUME NEW j \in 1..Nth(at, k), s[j] = y PROVE FALSE
  <2>1. j \in DOMAIN s
    BY <1>3, <1>7
  <2>2. PICK l \in 1..N : Nth(at, l) = j
    BY <1>2, <1>5, <1>8, <2>1
  <2>3. p[l] = y
    BY <1>4, <1>8, <2>2
  <2>4. ~(l \in 1..k)
    BY <1>6, <2>3
  <2>5. k < l
    BY <1>5, <1>7, <2>2, <2>4
  <2>6. Nth(at, k) < j
    BY <1>5, <1>7, <2>2, <2>5
  <2> QED
    BY <1>3, <1>7, <2>1, <2>6
<1> QED
  BY <1>7, <1>8 DEF Leads

LEMMA ConcatIs ==
  ASSUME NEW X, NEW a \in Seq(X), NEW b \in Seq(X)
  PROVE  /\ a \o b \in Seq(X) /\ ToSet(a \o b) = ToSet(a) \union ToSet(b)
         /\ \A x, y : <<x, y>> \in Pairs(a \o b) =>
              \/ <<x, y>> \in Pairs(a)
              \/ <<x, y>> \in Pairs(b)
              \/ x \in ToSet(a) /\ y \in ToSet(b)
<1> DEFINE c == a \o b
           m == Len(a)
           n == Len(b)
<1>1. /\ c \in Seq(X) /\ Len(c) = m + n
      /\ \A i \in 1..(m + n) : c[i] = (IF i <= m THEN a[i] ELSE b[i - m])
  BY ConcatProperties
<1>2. m \in Nat /\ n \in Nat /\ DOMAIN a = 1..m /\ DOMAIN b = 1..n
  BY ListIs
<1> HIDE DEF c, m, n
<1>3. DOMAIN c = 1..(m + n)
  BY <1>1, ListIs
<1>4. ASSUME NEW i \in DOMAIN c
      PROVE  \/ i \in DOMAIN a /\ c[i] = a[i]
             \/ m < i /\ i - m \in DOMAIN b /\ c[i] = b[i - m]
  BY <1>1, <1>2, <1>3
<1>5. \A i \in DOMAIN a : i \in DOMAIN c /\ c[i] = a[i]
  BY <1>1, <1>2, <1>3
<1>6. ASSUME NEW i \in DOMAIN b PROVE m + i \in DOMAIN c /\ c[m + i] = b[i]
  <2> DEFINE k == m + i
  <2>1. k \in 1..(m + n) /\ ~(k <= m) /\ k - m = i
    BY <1>2
  <2> HIDE DEF k
  <2>2. c[k] = b[k - m] /\ k \in DOMAIN c
    BY <1>1, <1>3, <2>1
  <2> QED
    BY <2>1, <2>2 DEF k
<1>7. ToSet(c) = ToSet(a) \union ToSet(b)
  <2>1. ASSUME NEW x \in ToSet(c) PROVE x \in ToSet(a) \union ToSet(b)
    <3>1. PICK i \in DOMAIN c : x = c[i]
      BY DEF ToSet
    <3> QED
      BY <1>4, <3>1 DEF ToSet
  <2>2. ASSUME NEW x \in ToSet(a) PROVE x \in ToSet(c)
    BY <1>5 DEF ToSet
  <2>3. ASSUME NEW x \in ToSet(b) PROVE x \in ToSet(c)
    <3>1. PICK i \in DOMAIN b : x = b[i]
      BY DEF ToSet
    <3> QED
      BY <1>6, <3>1 DEF ToSet
  <2> QED
    BY <2>1, <2>2, <2>3
<1>8. ASSUME NEW x, NEW y, <<x, y>> \in Pairs(c)
      PROVE  \/ <<x, y>> \in Pairs(a) \/ <<x, y>> \in Pairs(b) \/ (x \in ToSet(a) /\ y \in ToSet(b))
  <2>1. PICK i \in DOMAIN c, j \in DOMAIN c : i < j /\ x = c[i] /\ y = c[j]
    BY <1>1, <1>8, PairsAre
  <2>2. i \in Nat /\ j \in Nat
    BY <1>3
  <2>3. CASE j \in DOMAIN a /\ c[j] = a[j]
    <3>1. i \in DOMAIN a /\ c[i] = a[i]
      BY <1>2, <1>5, <2>1, <2>2, <2>3, <1>4
    <3> QED
      BY <2>1, <2>3, <3>1, PairsAre
  <2>4. CASE m < j /\ j - m \in DOMAIN b /\ c[j] = b[j - m]
    <3>1. CASE i \in DOMAIN a /\ c[i] = a[i]
      BY <2>1, <2>4, <3>1, ListIs
    <3>2. CASE m < i /\ i - m \in DOMAIN b /\ c[i] = b[i - m]
      <4> DEFINE k == i - m
                 l == j - m
      <4>1. k < l /\ k \in DOMAIN b /\ l \in DOMAIN b /\ x = b[k] /\ y = b[l]
        BY <1>2, <2>1, <2>2, <2>4, <3>2
      <4> HIDE DEF k, l
      <4> QED
        BY <4>1, PairsAre
    <3> QED
      BY <1>4, <3>1, <3>2
  <2> QED
    BY <1>4, <2>3, <2>4
<1> QED
  BY <1>1, <1>7, <1>8 DEF c

\* h in front, then what else is in s.
LEMMA FrontIs ==
  ASSUME NEW X, NEW s \in Seq(X), NEW h \in Seq(X), ToSet(h) \subseteq ToSet(s)
  PROVE  /\ h \o Drop(s, ToSet(h)) \in Seq(X) /\ ToSet(h \o Drop(s, ToSet(h))) = ToSet(s)
         /\ \A x, y : <<x, y>> \in Pairs(h \o Drop(s, ToSet(h))) =>
              \/ <<x, y>> \in Pairs(h) /\ x \in ToSet(h) /\ y \in ToSet(h)
              \/ x \in ToSet(h) /\ y \notin ToSet(h) /\ y \in ToSet(s)
              \/ x \notin ToSet(h) /\ y \notin ToSet(h) /\ <<x, y>> \in Pairs(s)
<1> DEFINE H == ToSet(h)
           d == Drop(s, H)
           z == h \o d
<1>1. /\ d \in Seq(X) /\ ToSet(d) = ToSet(s) \ H
      /\ \A x, y : <<x, y>> \in Pairs(d) => <<x, y>> \in Pairs(s) /\ x \notin H /\ y \notin H
  BY DropIs
<1> HIDE DEF d
<1>2. /\ z \in Seq(X) /\ ToSet(z) = ToSet(h) \union ToSet(d)
      /\ \A x, y : <<x, y>> \in Pairs(z) =>
              \/ <<x, y>> \in Pairs(h)
              \/ <<x, y>> \in Pairs(d)
              \/ x \in ToSet(h) /\ y \in ToSet(d)
  BY <1>1, ConcatIs
<1>3. \A x, y : <<x, y>> \in Pairs(h) => x \in ToSet(h) /\ y \in ToSet(h)
  BY DEF Pairs
<1> HIDE DEF z, H
<1>4. H = ToSet(h)
  BY DEF H
<1>5. ToSet(z) = ToSet(s)
  BY <1>1, <1>2, <1>4
<1>6. ASSUME NEW x, NEW y, <<x, y>> \in Pairs(z)
      PROVE  \/ <<x, y>> \in Pairs(h) /\ x \in H /\ y \in H
             \/ x \in H /\ y \notin H /\ y \in ToSet(s)
             \/ x \notin H /\ y \notin H /\ <<x, y>> \in Pairs(s)
  <2>1. CASE <<x, y>> \in Pairs(h)
    BY <1>3, <1>4, <2>1
  <2>2. CASE <<x, y>> \in Pairs(d)
    BY <1>1, <2>2
  <2>3. CASE x \in ToSet(h) /\ y \in ToSet(d)
    BY <1>1, <1>4, <2>3
  <2> QED
    BY <1>2, <1>6, <2>1, <2>2, <2>3
<1> QED
  BY <1>2, <1>5, <1>6 DEF z, d, H

LEMMA DistinctLeads ==
  ASSUME NEW X, NEW s \in Seq(X), IsInjective(s), NEW x, NEW y, <<x, y>> \in Pairs(s)
  PROVE  Leads(s, x, y)
<1>1. PICK i \in DOMAIN s, j \in DOMAIN s : i < j /\ x = s[i] /\ y = s[j]
  BY DEF Pairs
<1>2. DOMAIN s = 1..Len(s) /\ Len(s) \in Nat
  BY ListIs
<1>3. ASSUME NEW l \in 1..i, s[l] = y PROVE FALSE
  <2>1. l \in DOMAIN s /\ l # j
    BY <1>1, <1>2, <1>3
  <2> QED
    BY <1>1, <1>3, <2>1 DEF IsInjective
<1> QED
  BY <1>1, <1>3 DEF Leads

LEMMA AppendIs ==
  ASSUME NEW X, NEW s \in Seq(X), NEW e \in X
  PROVE  /\ Append(s, e) \in Seq(X) /\ ToSet(Append(s, e)) = ToSet(s) \union {e}
         /\ \A x, y : <<x, y>> \in Pairs(Append(s, e)) =>
              <<x, y>> \in Pairs(s) \/ (x \in ToSet(s) /\ y = e)
<1> DEFINE a == Append(s, e)
<1>1. /\ a \in Seq(X) /\ Len(a) = Len(s) + 1 /\ a[Len(s) + 1] = e
      /\ \A i \in 1..Len(s) : a[i] = s[i]
  BY AppendProperties
<1> HIDE DEF a
<1>2. /\ Len(s) \in Nat /\ DOMAIN s = 1..Len(s) /\ DOMAIN a = 1..(Len(s) + 1)
      /\ \A x : x \in ToSet(s) <=> \E i \in DOMAIN s : s[i] = x
      /\ \A x : x \in ToSet(a) <=> \E i \in DOMAIN a : a[i] = x
  BY <1>1, ListIs
<1>3. \A i \in DOMAIN a : (i \in DOMAIN s /\ a[i] = s[i]) \/ (i = Len(s) + 1 /\ a[i] = e)
  BY <1>1, <1>2
<1>4. ToSet(a) = ToSet(s) \union {e}
  <2>1. \A x : x \in ToSet(a) => x \in ToSet(s) \union {e}
    BY <1>2, <1>3
  <2>2. \A x \in ToSet(s) : x \in ToSet(a)
    BY <1>1, <1>2
  <2>3. e \in ToSet(a)
    BY <1>1, <1>2
  <2> QED
    BY <2>1, <2>2, <2>3
<1>5. ASSUME NEW x, NEW y, <<x, y>> \in Pairs(a)
      PROVE  <<x, y>> \in Pairs(s) \/ (x \in ToSet(s) /\ y = e)
  <2>1. PICK i \in DOMAIN a, j \in DOMAIN a : i < j /\ x = a[i] /\ y = a[j]
    BY <1>1, <1>5, PairsAre
  <2>2. i \in DOMAIN s /\ x = s[i]
    BY <1>1, <1>2, <2>1
  <2>3. CASE j \in DOMAIN s
    BY <1>1, <1>2, <2>1, <2>2, <2>3, PairsAre
  <2>4. CASE j \notin DOMAIN s
    BY <1>2, <1>3, <2>1, <2>2, <2>4
  <2> QED
    BY <2>3, <2>4
<1> QED
  BY <1>1, <1>4, <1>5 DEF a

LEMMA TailIs ==
  ASSUME NEW X, NEW s \in Seq(X), s # <<>>
  PROVE  /\ Head(s) \in ToSet(s) /\ Tail(s) \in Seq(X) /\ ToSet(Tail(s)) \subseteq ToSet(s)
         /\ ToSet(s) \ {Head(s)} \subseteq ToSet(Tail(s))
         /\ \A x, y : <<x, y>> \in Pairs(Tail(s)) => <<x, y>> \in Pairs(s)
         /\ \A y \in ToSet(s) : y # Head(s) => <<Head(s), y>> \in Pairs(s)
<1> DEFINE z == Tail(s)
<1>1. /\ Len(s) \in Nat /\ Len(s) >= 1 /\ DOMAIN s = 1..Len(s)
      /\ \A x : x \in ToSet(s) <=> \E i \in DOMAIN s : s[i] = x
  BY ListIs, EmptySeq
<1>2. z \in Seq(X) /\ Len(z) = Len(s) - 1 /\ Head(s) = s[1]
      /\ \A i \in 1..Len(z) : z[i] = s[i + 1]
  BY HeadTailProperties
<1> HIDE DEF z
<1>3. /\ DOMAIN z = 1..(Len(s) - 1)
      /\ \A x : x \in ToSet(z) <=> \E i \in DOMAIN z : z[i] = x
      /\ \A i \in DOMAIN z : i + 1 \in DOMAIN s /\ z[i] = s[i + 1]
  BY <1>1, <1>2, ListIs
<1>4. 1 \in DOMAIN s /\ Head(s) \in ToSet(s)
  BY <1>1, <1>2
<1>5. ASSUME NEW x \in ToSet(z) PROVE x \in ToSet(s)
  BY <1>1, <1>3
<1>6. ASSUME NEW x \in ToSet(s), x # Head(s) PROVE x \in ToSet(z) /\ <<Head(s), x>> \in Pairs(s)
  <2>1. PICK i \in DOMAIN s : s[i] = x
    BY <1>1
  <2>2. i # 1
    BY <1>2, <1>6, <2>1
  <2>3. i - 1 \in DOMAIN z /\ (i - 1) + 1 = i /\ 1 < i
    BY <1>1, <1>3, <2>1, <2>2
  <2>4. z[i - 1] = x
    BY <1>3, <2>1, <2>3
  <2> QED
    BY <1>2, <1>3, <1>4, <2>1, <2>3, <2>4, PairsAre
<1>7. ASSUME NEW x, NEW y, <<x, y>> \in Pairs(z) PROVE <<x, y>> \in Pairs(s)
  <2>1. PICK i \in DOMAIN z, j \in DOMAIN z : i < j /\ x = z[i] /\ y = z[j]
    BY <1>2, <1>7, PairsAre
  <2>2. i + 1 < j + 1
    BY <1>1, <1>3, <2>1
  <2> QED
    BY <1>3, <2>1, <2>2, PairsAre
<1> QED
  BY <1>2, <1>4, <1>5, <1>6, <1>7 DEF z

\* A list has no more members than places, and as many when it has no repeats.
LEMMA MembersCount ==
  ASSUME NEW X, NEW s \in Seq(X)
  PROVE  /\ IsFiniteSet(ToSet(s)) /\ Cardinality(ToSet(s)) \in Nat
         /\ Cardinality(ToSet(s)) <= Len(s)
         /\ (\A x : <<x, x>> \notin Pairs(s)) => Cardinality(ToSet(s)) = Len(s)
<1>1. /\ Len(s) \in Nat /\ DOMAIN s = 1..Len(s) /\ s \in [1..Len(s) -> ToSet(s)]
      /\ \A x \in ToSet(s) : \E i \in 1..Len(s) : s[i] = x
  <2>1. s \in [1..Len(s) -> X] /\ Len(s) \in Nat /\ DOMAIN s = 1..Len(s)
    BY LenProperties
  <2> QED
    BY <2>1 DEF ToSet
<1>2. IsFiniteSet(1..Len(s)) /\ Cardinality(1..Len(s)) = Len(s)
  <2> DEFINE n == Len(s)
  <2>1. n \in Nat
    BY <1>1
  <2> HIDE DEF n
  <2>2. IsFiniteSet(1..n) /\ Cardinality(1..n) = n
    BY <2>1, FS_Interval
  <2> QED
    BY <2>2 DEF n
<1>3. s \in Surjection(1..Len(s), ToSet(s))
  BY <1>1 DEF Surjection
<1>4. IsFiniteSet(ToSet(s)) /\ Cardinality(ToSet(s)) <= Len(s)
  BY <1>2, <1>3, FS_Surjection
<1>5. ASSUME \A x : <<x, x>> \notin Pairs(s) PROVE Cardinality(ToSet(s)) = Len(s)
  <2>1. IsInjective(s)
    BY <1>5, DistinctPairs
  <2>2. s \in Bijection(1..Len(s), ToSet(s))
    BY <1>1, <1>3, <2>1 DEF Bijection, Injection, IsInjective
  <2>3. ExistsBijection(1..Len(s), ToSet(s))
    BY <2>2 DEF ExistsBijection
  <2> QED
    BY <1>2, <2>3, FS_Bijection
<1> QED
  BY <1>4, <1>5, FS_CardinalityType
=============================================================================
