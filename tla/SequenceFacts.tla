--------------------------- MODULE SequenceFacts ---------------------------
(***************************************************************************)
(* Facts about sequences that the proofs of several components cite.       *)
(***************************************************************************)
EXTENDS Sequences, SequencesExt, FiniteSets, Naturals, FiniteSetTheorems, SequenceTheorems,
        WellFoundedInduction, TLAPS

\* A non-empty set of positions has a first one.
LEMMA FirstPosition ==
  ASSUME NEW I \in SUBSET Nat, I # {}
  PROVE  /\ Min(I) \in I
         /\ \A y \in I : Min(I) <= y
<1>1. \E x \in I : \A y \in I : ~ (<<y, x>> \in OpToRel(<, Nat))
  BY NatLessThanWellFounded, WFMin
<1>2. PICK x \in I : \A y \in I : ~ (<<y, x>> \in OpToRel(<, Nat))
  BY <1>1
<1>3. \A y \in I : ~ (y < x)
  BY <1>2 DEF OpToRel
<1>4. \E m \in I : \A y \in I : m <= y
  BY <1>3
<1>5. Min(I) = CHOOSE m \in I : \A y \in I : m <= y
  BY DEF Min
<1> QED BY <1>4, <1>5

\* What a function makes of a finite set is finite.
LEMMA ImageFinite ==
  ASSUME NEW S, IsFiniteSet(S), NEW f, f = [x \in S |-> f[x]]
  PROVE  IsFiniteSet({f[x] : x \in S})
<1> DEFINE T == {f[x] : x \in S}
<1>1. f \in Surjection(S, T)
  BY DEF Surjection
<1> QED BY <1>1, FS_Surjection

\* The elements of a sequence over a set are in it.
LEMMA Elements ==
  ASSUME NEW S, NEW s \in Seq(S)
  PROVE  ToSet(s) \in SUBSET S /\ ToSet(s) = {s[i] : i \in 1..Len(s)}
BY DEF ToSet

\* SetToSeq lists the elements of a set, each of them once.
LEMMA Listed ==
  ASSUME NEW S, IsFiniteSet(S)
  PROVE  /\ SetToSeq(S) \in Seq(S)
         /\ \A x \in S : \E i \in 1..Len(SetToSeq(S)) : SetToSeq(S)[i] = x
         /\ \A i, k \in 1..Len(SetToSeq(S)) : SetToSeq(S)[i] = SetToSeq(S)[k] => i = k
<1> DEFINE n == Cardinality(S)
           s == SetToSeq(S)
<1>1. n \in Nat /\ ExistsBijection(1..n, S)
  BY FS_CardinalityType
<1>2. \E f \in [1..n -> S] : IsInjective(f)
  BY <1>1 DEF ExistsBijection, Bijection, Injection
<1>3. s \in [1..n -> S] /\ IsInjective(s)
  BY <1>2 DEF SetToSeq
<1>4. s \in Seq(S) /\ Len(s) = n
  BY <1>1, <1>3
<1>5. s \in Injection(1..n, S)
  BY <1>3 DEF Injection
<1>6. s \in Surjection(1..n, S)
  <2>1. Cardinality(1..n) = n
    BY <1>1, FS_Interval
  <2> QED BY <1>5, <2>1, FS_Injection
<1> QED BY <1>3, <1>4, <1>6 DEF Surjection, IsInjective

\* So it does as a sequence over a larger set.
LEMMA ListedSet ==
  ASSUME NEW S, NEW T \in SUBSET S, IsFiniteSet(T)
  PROVE  /\ SetToSeq(T) \in Seq(S) /\ ToSet(SetToSeq(T)) = T
         /\ SetToSeq(T) = << >> <=> T = {}
<1> DEFINE s == SetToSeq(T)
<1>1. s \in Seq(T) /\ \A x \in T : \E i \in 1..Len(s) : s[i] = x
  BY Listed
<1> HIDE DEF s
<1>2. s \in Seq(S)
  BY <1>1
<1>3. ToSet(s) = {s[i] : i \in 1..Len(s)} /\ ToSet(s) \in SUBSET T
  BY <1>1, Elements
<1>4. ToSet(s) = T
  BY <1>1, <1>3
<1>5. s = << >> <=> ToSet(s) = {}
  <2>1. s = << >> <=> Len(s) = 0
    BY <1>2, EmptySeq
  <2>2. Len(s) \in Nat
    BY <1>2
  <2> QED BY <1>3, <2>1, <2>2
<1> QED BY <1>2, <1>4, <1>5 DEF s

\* What is left of a sequence after its head.
LEMMA TailOf ==
  ASSUME NEW S, NEW s \in Seq(S), s # << >>
  PROVE  /\ Head(s) = s[1] /\ Head(s) \in S
         /\ Tail(s) \in Seq(S)
         /\ Len(s) \in Nat /\ Len(s) > 0
         /\ Len(Tail(s)) = Len(s) - 1
         /\ DOMAIN s = 1..Len(s) /\ DOMAIN Tail(s) = 1..Len(Tail(s))
         /\ \A i \in 1..Len(Tail(s)) : i + 1 \in 1..Len(s) /\ Tail(s)[i] = s[i + 1]
<1>1. /\ Head(s) = s[1] /\ Head(s) \in S
      /\ Tail(s) \in Seq(S)
      /\ Len(s) \in Nat /\ Len(s) > 0
      /\ Len(Tail(s)) = Len(s) - 1
      /\ DOMAIN s = 1..Len(s) /\ DOMAIN Tail(s) = 1..Len(Tail(s))
  BY HeadTailProperties, LenProperties, EmptySeq
<1>2. \A i \in 1..Len(Tail(s)) : i + 1 \in 1..Len(s) /\ Tail(s)[i] = s[i + 1]
  BY <1>1, HeadTailProperties
<1> QED BY <1>1, <1>2

\* A sequence of sequences, flattened, is of the kind H[n] of its length n, if each of
\* them takes what is of the kind before it to the next one.  FlattenSeq is a recursive
\* function of the length of the prefix; a least length at which it does not exist, or
\* is not of its kind, leads to a contradiction.
LEMMA FlattenedInStages ==
  ASSUME NEW S, NEW s \in Seq(Seq(S)), NEW H \in [0..Len(s) -> SUBSET Seq(S)],
         << >> \in H[0], \A k \in 1..Len(s) : \A a \in H[k - 1] : a \o s[k] \in H[k]
  PROVE  FlattenSeq(s) \in H[Len(s)]
<1> DEFINE n == Len(s)
           G == Seq(S)
           Value(f, i) == IF i = 1 THEN s[i] ELSE f[i - 1] \o s[i]
           Reaches(k) == \E f \in [1..k -> G] : \A i \in 1..k : f[i] = Value(f, i)
<1>1. n \in Nat /\ DOMAIN s = 1..n /\ \A i \in 1..n : s[i] \in G /\ i \in 0..n
  BY LenProperties
<1>2. ASSUME n = 0
      PROVE  FlattenSeq(s) \in H[n]
  <2>1. s = << >>
    BY <1>1, <1>2, EmptySeq
  <2> QED BY <1>2, <2>1 DEF FlattenSeq
<1>3. Reaches(0)
  <2>1. [i \in 1..0 |-> << >>] \in [1..0 -> G]
    OBVIOUS
  <2>2. \A i \in 1..0 : FALSE
    OBVIOUS
  <2> QED BY <2>1, <2>2
<1>4. ASSUME NEW k \in 1..n, Reaches(k - 1)
      PROVE  Reaches(k)
  <2>1. PICK f \in [1..(k - 1) -> G] : \A i \in 1..(k - 1) : f[i] = Value(f, i)
    BY <1>4
  <2> DEFINE g == [i \in 1..k |-> IF i < k THEN f[i] ELSE Value(f, k)]
  <2>2. Value(f, k) \in G
    <3>1. CASE k = 1
      BY <1>1, <3>1
    <3>2. CASE k # 1
      <4>1. k - 1 \in 1..(k - 1)
        BY <1>1, <3>2
      <4> QED BY <1>1, <2>1, <3>2, <4>1
    <3> QED BY <3>1, <3>2
  <2>3. ASSUME NEW i \in 1..k, i < k
        PROVE  i \in 1..(k - 1) /\ g[i] = f[i]
    BY <1>1, <2>3
  <2>4. g[k] = Value(f, k) /\ k \in 1..k
    BY <1>1
  <2>5. g \in [1..k -> G]
    <3>1. \A i \in 1..k : g[i] \in G
      BY <1>1, <2>1, <2>2, <2>3, <2>4
    <3> QED BY <3>1
  <2> HIDE DEF g
  <2>6. ASSUME NEW i \in 1..k
        PROVE  g[i] = Value(g, i)
    <3>1. g[i] = Value(f, i)
      <4>1. CASE i < k
        BY <2>1, <2>3, <4>1
      <4>2. CASE i = k
        BY <2>4, <4>2
      <4> QED BY <1>1, <4>1, <4>2
    <3>2. CASE i = 1
      BY <3>1, <3>2
    <3>3. CASE i # 1
      <4>1. i - 1 \in 1..k /\ i - 1 < k
        BY <1>1, <3>3
      <4>2. g[i - 1] = f[i - 1]
        BY <2>3, <4>1
      <4> QED BY <3>1, <3>3, <4>2
    <3> QED BY <3>2, <3>3
  <2> QED BY <2>5, <2>6
<1>5. Reaches(n)
  <2> DEFINE Bad == {k \in 0..n : ~Reaches(k)}
  <2> HIDE DEF Reaches
  <2>1. ASSUME Bad # {}
        PROVE  FALSE
    <3>1. Bad \in SUBSET Nat
      BY <1>1
    <3> HIDE DEF Bad
    <3>2. Min(Bad) \in Bad /\ \A y \in Bad : Min(Bad) <= y
      BY <2>1, <3>1, FirstPosition
    <3> DEFINE k == Min(Bad)
    <3>3. k \in 0..n /\ ~Reaches(k) /\ k # 0
      BY <1>3, <3>2 DEF Bad
    <3> HIDE DEF k
    <3>4. k \in 1..n /\ k - 1 \in 0..n /\ ~ (k <= k - 1)
      BY <1>1, <3>3
    <3>5. k - 1 \notin Bad
      BY <3>2, <3>4 DEF k
    <3>6. Reaches(k - 1)
      BY <3>4, <3>5 DEF Bad
    <3> QED BY <1>4, <3>3, <3>4, <3>6
  <2> QED BY <1>1, <2>1
<1>6. ASSUME n # 0
      PROVE  FlattenSeq(s) \in H[n]
  <2> DEFINE IsIt(f) == f = [i \in 1..n |-> Value(f, i)]
             flat == CHOOSE f : IsIt(f)
  <2>1. PICK f \in [1..n -> G] : \A i \in 1..n : f[i] = Value(f, i)
    BY <1>5
  <2>2. IsIt(f)
    BY <2>1
  <2>3. IsIt(flat)
    BY <2>2
  <2>4. FlattenSeq(s) = flat[n]
    BY <1>6 DEF FlattenSeq
  <2> HIDE DEF flat
  <2>5. \A i \in 1..n : flat[i] = Value(flat, i)
    BY <2>3
  <2>6. \A i \in 1..n : flat[i] \in H[i]
    <3> DEFINE Bad == {i \in 1..n : flat[i] \notin H[i]}
    <3>1. ASSUME Bad # {}
          PROVE  FALSE
      <4>1. Bad \in SUBSET Nat
        BY <1>1
      <4> HIDE DEF Bad
      <4>2. Min(Bad) \in Bad /\ \A y \in Bad : Min(Bad) <= y
        BY <3>1, <4>1, FirstPosition
      <4> DEFINE k == Min(Bad)
      <4>3. k \in 1..n /\ flat[k] \notin H[k]
        BY <4>2 DEF Bad
      <4> HIDE DEF k
      <4>4. CASE k = 1
        <5>1. << >> \o s[1] = s[1]
          BY <1>1, <4>3, <4>4, ConcatEmptySeq
        <5>2. << >> \o s[1] \in H[1]
          <6>1. 1 \in 1..n /\ 1 - 1 = 0
            BY <4>3, <4>4
          <6>2. \A a \in H[1 - 1] : a \o s[1] \in H[1]
            BY <6>1
          <6> QED BY <6>1, <6>2
        <5> QED BY <2>5, <4>3, <4>4, <5>1, <5>2
      <4>5. CASE k # 1
        <5>1. k - 1 \in 1..n /\ ~ (k <= k - 1)
          BY <1>1, <4>3, <4>5
        <5>2. k - 1 \notin Bad
          BY <4>2, <5>1 DEF k
        <5>3. flat[k - 1] \in H[k - 1]
          BY <5>1, <5>2 DEF Bad
        <5>4. flat[k] = flat[k - 1] \o s[k]
          BY <2>5, <4>3, <4>5
        <5> QED BY <4>3, <5>3, <5>4
      <4> QED BY <4>4, <4>5
    <3> QED BY <3>1
  <2>7. n \in 1..n
    BY <1>1, <1>6
  <2> QED BY <2>4, <2>6, <2>7
<1> QED BY <1>2, <1>6

\* Sequences of a kind that holds the empty one and that appending keeps: a sequence of
\* them, flattened, is of that kind.
LEMMA Flattened ==
  ASSUME NEW S, NEW G \in SUBSET Seq(S), << >> \in G, \A a, b \in G : a \o b \in G,
         NEW s \in Seq(G)
  PROVE  FlattenSeq(s) \in G
<1> DEFINE H == [k \in 0..Len(s) |-> G]
<1>1. Len(s) \in Nat /\ \A k \in 1..Len(s) : s[k] \in G /\ k \in 0..Len(s) /\ k - 1 \in 0..Len(s)
  BY LenProperties
<1>2. s \in Seq(Seq(S))
  BY <1>1
<1>3. H \in [0..Len(s) -> SUBSET Seq(S)] /\ 0 \in 0..Len(s) /\ Len(s) \in 0..Len(s)
  BY <1>1
<1>4. \A k \in 0..Len(s) : H[k] = G
  OBVIOUS
<1> HIDE DEF H
<1>5. << >> \in H[0] /\ \A k \in 1..Len(s) : \A a \in H[k - 1] : a \o s[k] \in H[k]
  BY <1>1, <1>3, <1>4
<1>6. FlattenSeq(s) \in H[Len(s)]
  BY <1>2, <1>3, <1>5, FlattenedInStages
<1> QED BY <1>3, <1>4, <1>6

\* What s holds after position lo is in r, k places further on.
Placed(s, lo, r, k) ==
  \A j \in DOMAIN s : j > lo => j + k \in DOMAIN r /\ r[j + k] = s[j]

\* r is a, and then b.
Appended(a, b, r) ==
  /\ Len(a) \in Nat
  /\ DOMAIN a \in SUBSET Nat /\ DOMAIN b \in SUBSET Nat /\ DOMAIN r \in SUBSET Nat
  /\ \A i \in DOMAIN a : i > 0
  /\ \A i \in DOMAIN b : i > 0
  /\ Placed(a, 0, r, 0) /\ Placed(b, 0, r, Len(a))
  /\ \A i \in DOMAIN r : i \in DOMAIN a \/ i - Len(a) \in DOMAIN b

\* r is more, and then s but its first element.
Resumed(s, more, r, k) ==
  /\ Len(more) \in Nat /\ Len(s) \in Nat /\ k \in Int
  /\ k = Len(more) - 1 /\ Len(r) = Len(s) + k
  /\ 1 \in DOMAIN s
  /\ DOMAIN s \in SUBSET Nat /\ DOMAIN more \in SUBSET Nat /\ DOMAIN r \in SUBSET Nat
  /\ \A i \in DOMAIN s : i > 0
  /\ \A i \in DOMAIN more : i > 0
  /\ \A i \in DOMAIN r : i > 0
  /\ Placed(more, 0, r, 0) /\ Placed(s, 1, r, k)
  /\ \A i \in DOMAIN r : i \in DOMAIN more \/ (i - k \in DOMAIN s /\ i - k > 1)

LEMMA ConcatPlaced ==
  ASSUME NEW S, NEW a \in Seq(S), NEW b \in Seq(S)
  PROVE  a \o b \in Seq(S) /\ Appended(a, b, a \o b)
<1> DEFINE r == a \o b
<1>1. /\ r \in Seq(S)
      /\ Len(r) = Len(a) + Len(b)
      /\ \A i \in 1..Len(a) + Len(b) : r[i] = IF i <= Len(a) THEN a[i] ELSE b[i - Len(a)]
  BY ConcatProperties
<1> HIDE DEF r
<1>2. /\ Len(a) \in Nat /\ Len(b) \in Nat
      /\ DOMAIN a = 1..Len(a) /\ DOMAIN b = 1..Len(b) /\ DOMAIN r = 1..Len(a) + Len(b)
  BY <1>1, LenProperties
<1>3. Placed(a, 0, r, 0)
  BY <1>1, <1>2 DEF Placed
<1>4. Placed(b, 0, r, Len(a))
  <2>1. ASSUME NEW j \in DOMAIN b
        PROVE  j + Len(a) \in 1..Len(a) + Len(b) /\ ~ (j + Len(a) <= Len(a)) /\ (j + Len(a)) - Len(a) = j
    BY <1>2
  <2> QED BY <1>1, <1>2, <2>1 DEF Placed
<1>5. \A i \in DOMAIN r : i \in DOMAIN a \/ i - Len(a) \in DOMAIN b
  BY <1>2
<1>6. /\ DOMAIN a \in SUBSET Nat /\ DOMAIN b \in SUBSET Nat /\ DOMAIN r \in SUBSET Nat
      /\ \A i \in DOMAIN a : i > 0
      /\ \A i \in DOMAIN b : i > 0
  BY <1>2
<1> QED BY <1>1, <1>2, <1>3, <1>4, <1>5, <1>6 DEF Appended, r

LEMMA ResumedPlaced ==
  ASSUME NEW S, NEW s \in Seq(S), s # << >>, NEW more \in Seq(S)
  PROVE  /\ more \o Tail(s) \in Seq(S) /\ Head(s) = s[1]
         /\ \E k : Resumed(s, more, more \o Tail(s), k)
<1> DEFINE b == Tail(s)
           k == Len(more) - 1
           r == more \o b
<1>1. /\ Head(s) = s[1]
      /\ b \in Seq(S)
      /\ Len(s) \in Nat /\ Len(s) > 0
      /\ Len(b) = Len(s) - 1
      /\ DOMAIN s = 1..Len(s) /\ DOMAIN b = 1..Len(b)
      /\ \A i \in 1..Len(b) : i + 1 \in 1..Len(s) /\ b[i] = s[i + 1]
  BY TailOf
<1> HIDE DEF b
<1>0. r \in Seq(S) /\ Appended(more, b, r)
  BY <1>1, ConcatPlaced
<1>2. /\ Len(more) \in Nat
      /\ DOMAIN more \in SUBSET Nat /\ DOMAIN r \in SUBSET Nat
      /\ \A i \in DOMAIN more : i > 0
      /\ Placed(more, 0, r, 0) /\ Placed(b, 0, r, Len(more))
      /\ \A i \in DOMAIN r : i \in DOMAIN more \/ i - Len(more) \in DOMAIN b
  BY <1>0 DEF Appended
<1>3. Placed(s, 1, r, k)
  <2>1. ASSUME NEW j \in DOMAIN s, j > 1
        PROVE  /\ j - 1 \in DOMAIN b /\ j - 1 > 0 /\ b[j - 1] = s[j]
               /\ (j - 1) + Len(more) = j + k
    <3>1. j - 1 \in 1..Len(b) /\ (j - 1) + 1 = j
      BY <1>1, <2>1
    <3>2. (j - 1) + Len(more) = j + k
      BY <1>1, <1>2
    <3> QED BY <1>1, <2>1, <3>1, <3>2
  <2> QED BY <1>2, <2>1 DEF Placed
<1>4. ASSUME NEW i \in DOMAIN r, i \notin DOMAIN more
      PROVE  i - k \in DOMAIN s /\ i - k > 1
  <2>1. i - Len(more) \in 1..Len(b) /\ i \in Nat
    BY <1>1, <1>2, <1>4
  <2> QED BY <1>1, <1>2, <2>1
<1>5. \A i \in DOMAIN r : i > 0
  BY <1>0, LenProperties
<1>6. 1 \in DOMAIN s /\ DOMAIN s \in SUBSET Nat /\ \A i \in DOMAIN s : i > 0
  BY <1>1
<1>7. Len(r) = Len(s) + k /\ k \in Int
  <2>1. Len(more \o b) = Len(more) + Len(b)
    BY <1>1, ConcatProperties
  <2> QED BY <1>1, <1>2, <2>1
<1>8. Len(s) \in Nat /\ Head(s) = s[1]
  BY <1>1
<1>9. k = Len(more) - 1
  OBVIOUS
<1> HIDE DEF r, k
<1>10. Resumed(s, more, r, k)
  BY <1>2, <1>3, <1>4, <1>5, <1>6, <1>7, <1>8, <1>9 DEF Resumed
<1> QED BY <1>0, <1>8, <1>10 DEF r, b

=============================================================================
