--------------------------- MODULE SequenceProofs ---------------------------
(***************************************************************************)
(* Facts about numbers and sequences that the proofs of several modules    *)
(* need: what FlattenSeq computes, for sequences of every length.          *)
(***************************************************************************)
EXTENDS Integers, Sequences, SequencesExt, WellFoundedInduction, FiniteSetTheorems,
        SequenceTheorems, TLAPS

\* A set of numbers that is not empty has a least one.
LEMMA LeastElement ==
    ASSUME NEW A \in SUBSET Nat, A # {}
    PROVE  \E n \in A : \A m \in A : n <= m
<1>1. PICK n \in A : \A m \in A : ~(<<m, n>> \in OpToRel(<, Nat))
  BY WFMin, NatLessThanWellFounded
<1>2. \A m \in A : ~(m < n)
  BY <1>1 DEF OpToRel
<1>. QED
  BY <1>2

\* Induction over the numbers up to a bound, for a set instead of a predicate.
LEMMA UpTo ==
    ASSUME NEW A, NEW b \in Nat, NEW n \in Nat, b <= n, b \in A,
           \A m \in b .. (n - 1) : m \in A => m + 1 \in A
    PROVE  \A m \in b .. n : m \in A
<1>. SUFFICES ASSUME (b .. n) \ A # {} PROVE FALSE
  OBVIOUS
<1>1. (b .. n) \ A \in SUBSET Nat
  OBVIOUS
<1>2. PICK m \in (b .. n) \ A : \A k \in (b .. n) \ A : m <= k
  BY <1>1, LeastElement
<1>3. m - 1 \in b .. (n - 1)
  BY <1>2
<1>4. m - 1 \in A
  BY <1>2, <1>3
<1>. QED
  BY <1>2, <1>3, <1>4

-----------------------------------------------------------------------------
(* FlattenSeq.                                                              *)

\* Each element of r is one of the first m sequences, in their order, and
\* each of theirs is one of r.
Placed(r, seqs, m, row, col) ==
    /\ row \in [1 .. Len(r) -> 1 .. m] /\ col \in [1 .. Len(r) -> Nat]
    /\ \A n \in 1 .. Len(r) : /\ col[n] \in 1 .. Len(seqs[row[n]])
                              /\ r[n] = seqs[row[n]][col[n]]
    /\ \A n, k \in 1 .. Len(r) :
           n < k => row[n] < row[k] \/ (row[n] = row[k] /\ col[n] < col[k])
    /\ \A i \in 1 .. m : \A k \in 1 .. Len(seqs[i]) :
           \E n \in 1 .. Len(r) : row[n] = i /\ col[n] = k
Flat(r, seqs, m) == \E row, col : Placed(r, seqs, m, row, col)

\* One sequence more.
LEMMA FlatConcat ==
    ASSUME NEW X, NEW seqs \in Seq(Seq(X)), NEW m \in Nat, m + 1 \in 1 .. Len(seqs),
           NEW r \in Seq(X), Flat(r, seqs, m)
    PROVE  Flat(r \o seqs[m + 1], seqs, m + 1)
<1>. DEFINE s == seqs[m + 1]
            u == r \o s
<1>1. s \in Seq(X)
  OBVIOUS
<1>. HIDE DEF s
<1>2. /\ Len(r) \in Nat /\ Len(s) \in Nat /\ Len(u) = Len(r) + Len(s)
      /\ \A n \in 1 .. Len(r) : u[n] = r[n]
      /\ \A n \in 1 .. Len(u) : n > Len(r) => u[n] = s[n - Len(r)]
  BY <1>1
<1>3. PICK row, col : Placed(r, seqs, m, row, col)
  BY DEF Flat
<1>. USE DEF Placed
<1>. HIDE DEF u
<1>. DEFINE row2 == [n \in 1 .. Len(u) |-> IF n <= Len(r) THEN row[n] ELSE m + 1]
            col2 == [n \in 1 .. Len(u) |-> IF n <= Len(r) THEN col[n] ELSE n - Len(r)]
<1>4. row2 \in [1 .. Len(u) -> 1 .. (m + 1)]
  BY <1>2, <1>3
<1>5. col2 \in [1 .. Len(u) -> Nat]
  BY <1>2, <1>3
<1>6. /\ \A n \in 1 .. Len(r) : row2[n] = row[n] /\ col2[n] = col[n]
      /\ \A n \in 1 .. Len(u) : n > Len(r) => row2[n] = m + 1 /\ col2[n] = n - Len(r)
  BY <1>2
<1>. HIDE DEF row2, col2
<1>7. ASSUME NEW n \in 1 .. Len(u)
      PROVE  col2[n] \in 1 .. Len(seqs[row2[n]]) /\ u[n] = seqs[row2[n]][col2[n]]
  <2>1. CASE n \in 1 .. Len(r)
    BY <1>2, <1>3, <1>6, <2>1
  <2>2. CASE n > Len(r)
    BY <1>2, <1>6, <2>2 DEF s
  <2>. QED
    BY <1>2, <2>1, <2>2
<1>8. ASSUME NEW n \in 1 .. Len(u), NEW k \in 1 .. Len(u), n < k
      PROVE  row2[n] < row2[k] \/ (row2[n] = row2[k] /\ col2[n] < col2[k])
  <2>1. CASE k \in 1 .. Len(r)
    <3>1. n \in 1 .. Len(r)
      BY <1>2, <1>8, <2>1
    <3>2. row[n] < row[k] \/ (row[n] = row[k] /\ col[n] < col[k])
      BY <1>3, <1>8, <2>1, <3>1
    <3>. QED
      BY <1>6, <2>1, <3>1, <3>2
  <2>2. CASE k > Len(r) /\ n \in 1 .. Len(r)
    <3>1. row2[k] = m + 1 /\ row2[n] = row[n] /\ row[n] \in 1 .. m
      BY <1>3, <1>6, <2>2
    <3>. QED
      BY <3>1
  <2>3. CASE k > Len(r) /\ n > Len(r)
    BY <1>2, <1>6, <1>8, <2>3
  <2>. QED
    BY <1>2, <2>1, <2>2, <2>3
<1>9. ASSUME NEW i \in 1 .. (m + 1), NEW k \in 1 .. Len(seqs[i])
      PROVE  \E n \in 1 .. Len(u) : row2[n] = i /\ col2[n] = k
  <2>1. CASE i \in 1 .. m
    <3>1. PICK n \in 1 .. Len(r) : row[n] = i /\ col[n] = k
      BY <1>3, <2>1
    <3>2. n \in 1 .. Len(u)
      BY <1>2
    <3>3. row2[n] = row[n] /\ col2[n] = col[n]
      BY <1>6
    <3>. QED
      BY <3>1, <3>2, <3>3
  <2>2. CASE i = m + 1
    <3>. DEFINE n == Len(r) + k
    <3>1. k \in 1 .. Len(s)
      BY <2>2 DEF s
    <3>2. n \in 1 .. Len(u) /\ n > Len(r) /\ n - Len(r) = k
      BY <1>2, <3>1, SMTT(20)
    <3>. HIDE DEF n
    <3>. QED
      BY <1>6, <2>2, <3>2
  <2>. QED
    BY <2>1, <2>2
<1>10. Placed(u, seqs, m + 1, row2, col2)
  BY <1>4, <1>5, <1>7, <1>8, <1>9
<1>. HIDE DEF Placed
<1>. QED
  BY <1>10 DEF Flat, u, s

\* A sequence of one.
LEMMA FlatFirst ==
    ASSUME NEW X, NEW seqs \in Seq(Seq(X)), Len(seqs) >= 1
    PROVE  Flat(seqs[1], seqs, 1)
<1>. DEFINE r == seqs[1]
            row == [n \in 1 .. Len(r) |-> 1]
            col == [n \in 1 .. Len(r) |-> n]
<1>1. r \in Seq(X) /\ Len(r) \in Nat
  OBVIOUS
<1>2. row \in [1 .. Len(r) -> 1 .. 1] /\ col \in [1 .. Len(r) -> Nat]
  BY <1>1
<1>3. /\ \A n \in 1 .. Len(r) : row[n] = 1 /\ col[n] = n
      /\ \A i \in 1 .. 1 : seqs[i] = r
  OBVIOUS
<1>. HIDE DEF r, row, col
<1>4. ASSUME NEW n \in 1 .. Len(r)
      PROVE  col[n] \in 1 .. Len(seqs[row[n]]) /\ r[n] = seqs[row[n]][col[n]]
  <2>1. row[n] = 1 /\ col[n] = n
    BY <1>3
  <2>2. seqs[row[n]] = r
    BY <1>3, <2>1
  <2>. QED
    BY <2>1, <2>2
<1>5. \A n, k \in 1 .. Len(r) :
         n < k => row[n] < row[k] \/ (row[n] = row[k] /\ col[n] < col[k])
  BY <1>1, <1>3
<1>6. ASSUME NEW i \in 1 .. 1, NEW k \in 1 .. Len(seqs[i])
      PROVE  \E n \in 1 .. Len(r) : row[n] = i /\ col[n] = k
  <2>1. i = 1 /\ k \in 1 .. Len(r)
    BY <1>3
  <2>. QED
    BY <1>3, <2>1
<1>7. Placed(r, seqs, 1, row, col)
  BY <1>2, <1>4, <1>5, <1>6 DEF Placed
<1>. QED
  BY <1>7 DEF Flat, r

\* FlattenSeq is the elements of the sequences, in their order.
LEMMA Flattened ==
    ASSUME NEW X, NEW seqs \in Seq(Seq(X))
    PROVE  FlattenSeq(seqs) \in Seq(X) /\ Flat(FlattenSeq(seqs), seqs, Len(seqs))
<1>1. CASE Len(seqs) = 0
  <2>1. FlattenSeq(seqs) = seqs /\ seqs = <<>>
    BY <1>1 DEF FlattenSeq
  <2>2. Placed(<<>>, seqs, 0, <<>>, <<>>)
    BY DEF Placed
  <2>. QED
    BY <1>1, <2>1, <2>2 DEF Flat
<1>2. CASE Len(seqs) # 0
  <2>. DEFINE n == Len(seqs)
              Step(g, i) == IF i = 1 THEN seqs[i] ELSE g[i - 1] \o seqs[i]
              flatten == CHOOSE g : g = [i \in 1 .. n |-> Step(g, i)]
  <2>1. n \in Nat /\ 1 <= n /\ FlattenSeq(seqs) = flatten[n]
    BY <1>2 DEF FlattenSeq
  <2>2. \A i \in 1 .. n : seqs[i] \in Seq(X)
    OBVIOUS
  <2>. HIDE DEF n
  <2>. DEFINE A == {m \in Nat : \E h \in [1 .. m -> Seq(X)] : \A i \in 1 .. m : h[i] = Step(h, i)}
  <2>3. 1 \in A
    <3>. DEFINE h == [i \in 1 .. 1 |-> seqs[1]]
    <3>1. h \in [1 .. 1 -> Seq(X)] /\ \A i \in 1 .. 1 : h[i] = Step(h, i)
      BY <2>1, <2>2
    <3>. HIDE DEF Step, h
    <3>. QED
      BY <3>1
  <2>4. ASSUME NEW m \in 1 .. (n - 1), m \in A PROVE m + 1 \in A
    <3>1. PICK h \in [1 .. m -> Seq(X)] : \A i \in 1 .. m : h[i] = Step(h, i)
      BY <2>4
    <3>. DEFINE k == [i \in 1 .. (m + 1) |-> IF i <= m THEN h[i] ELSE h[m] \o seqs[m + 1]]
    <3>2. h[m] \in Seq(X) /\ seqs[m + 1] \in Seq(X) /\ m \in Nat
      BY <2>1, <2>2, <2>4
    <3>3. h[m] \o seqs[m + 1] \in Seq(X)
      BY <3>2
    <3>4. k \in [1 .. (m + 1) -> Seq(X)]
      BY <3>2, <3>3
    <3>5. ASSUME NEW i \in 1 .. (m + 1) PROVE k[i] = Step(k, i)
      <4>1. CASE i = m + 1
        <5>1. k[m + 1] = h[m] \o seqs[m + 1] /\ k[m] = h[m] /\ m + 1 # 1 /\ (m + 1) - 1 = m
          BY <2>4, <3>2, SMTT(20)
        <5>. QED
          BY <4>1, <5>1
      <4>2. CASE i = 1
        <5>0. 1 \in 1 .. m /\ 1 \in 1 .. (m + 1) /\ 1 <= m
          BY <2>4
        <5>1. k[1] = h[1] /\ h[1] = Step(h, 1)
          <6>. HIDE DEF Step
          <6>. QED
            BY <3>1, <5>0
        <5>. QED
          BY <4>2, <5>1
      <4>3. CASE i \in 2 .. m
        <5>0. i \in 1 .. m /\ i - 1 \in 1 .. (m + 1) /\ i - 1 <= m /\ i # 1
          BY <2>4, <4>3
        <5>1. k[i] = h[i] /\ k[i - 1] = h[i - 1] /\ h[i] = Step(h, i) /\ i # 1
          <6>. HIDE DEF Step
          <6>. QED
            BY <3>1, <5>0
        <5>. QED
          BY <5>1
      <4>. QED
        BY <2>4, <4>1, <4>2, <4>3
    <3>. HIDE DEF Step, k
    <3>6. m + 1 \in Nat /\ \A i \in 1 .. (m + 1) : k[i] = Step(k, i)
      BY <3>2, <3>5
    <3>. QED
      BY <3>4, <3>6
  <2>5. n \in A
    <3>. HIDE DEF A
    <3>1. \A m \in 1 .. (n - 1) : m \in A => m + 1 \in A
      BY <2>4
    <3>2. \A m \in 1 .. n : m \in A
      BY <2>1, <2>3, <3>1, UpTo
    <3>. QED
      BY <2>1, <3>2
  <2>6. PICK h \in [1 .. n -> Seq(X)] : \A i \in 1 .. n : h[i] = Step(h, i)
    BY <2>5
  <2>7. h = [i \in 1 .. n |-> Step(h, i)]
    <3>. HIDE DEF Step
    <3>. QED
      BY <2>6
  <2>8. flatten = [i \in 1 .. n |-> Step(flatten, i)]
    <3>. HIDE DEF Step
    <3>. QED
      BY <2>7
  <2>. HIDE DEF flatten, A
  <2>9. \A i \in 1 .. n : flatten[i] = Step(flatten, i)
    <3>. HIDE DEF Step
    <3>. QED
      BY <2>8
  <2>. DEFINE B == {m \in Nat : flatten[m] \in Seq(X) /\ Flat(flatten[m], seqs, m)}
  <2>10. 1 \in B
    BY <2>1, <2>2, <2>9, FlatFirst DEF n
  <2>11. ASSUME NEW m \in 1 .. (n - 1), m \in B PROVE m + 1 \in B
    <3>1. m + 1 \in 1 .. n /\ m \in Nat /\ m + 1 # 1 /\ (m + 1) - 1 = m
      BY <2>1, <2>11
    <3>2. flatten[m + 1] = flatten[m] \o seqs[m + 1] /\ flatten[m] \in Seq(X)
      BY <2>9, <2>11, <3>1
    <3>3. Flat(flatten[m] \o seqs[m + 1], seqs, m + 1)
      BY <2>11, <3>1, <3>2, FlatConcat DEF n
    <3>4. flatten[m + 1] \in Seq(X)
      BY <2>2, <3>1, <3>2
    <3>5. Flat(flatten[m + 1], seqs, m + 1)
      BY <3>2, <3>3
    <3>. QED
      BY <3>1, <3>4, <3>5
  <2>12. n \in B
    <3>. HIDE DEF B
    <3>1. \A m \in 1 .. (n - 1) : m \in B => m + 1 \in B
      BY <2>11
    <3>2. \A m \in 1 .. n : m \in B
      BY <2>1, <2>10, <3>1, UpTo
    <3>. QED
      BY <2>1, <3>2
  <2>. QED
    BY <2>1, <2>12 DEF n
<1>. QED
  BY <1>1, <1>2

\* Where the elements of a flattened sequence come from, and go to.
LEMMA FlattenedRange ==
    ASSUME NEW X, NEW seqs \in Seq(Seq(X))
    PROVE  /\ FlattenSeq(seqs) \in Seq(X)
           /\ \A n \in DOMAIN FlattenSeq(seqs) : \E i \in DOMAIN seqs :
                  \E k \in DOMAIN seqs[i] : FlattenSeq(seqs)[n] = seqs[i][k]
           /\ \A i \in DOMAIN seqs : \A k \in DOMAIN seqs[i] :
                  \E n \in DOMAIN FlattenSeq(seqs) : FlattenSeq(seqs)[n] = seqs[i][k]
<1>. DEFINE r == FlattenSeq(seqs)
<1>1. r \in Seq(X) /\ Flat(r, seqs, Len(seqs))
  BY Flattened
<1>. HIDE DEF r
<1>2. PICK row, col : Placed(r, seqs, Len(seqs), row, col)
  BY <1>1 DEF Flat
<1>3. ASSUME NEW n \in DOMAIN r
      PROVE  \E i \in DOMAIN seqs : \E k \in DOMAIN seqs[i] : r[n] = seqs[i][k]
  <2>1. n \in 1 .. Len(r)
    BY <1>1
  <2>2. /\ row[n] \in 1 .. Len(seqs) /\ col[n] \in 1 .. Len(seqs[row[n]])
        /\ r[n] = seqs[row[n]][col[n]]
    BY <1>2, <2>1 DEF Placed
  <2>3. row[n] \in DOMAIN seqs /\ col[n] \in DOMAIN seqs[row[n]]
    BY <2>2
  <2>. QED
    BY <2>2, <2>3
<1>4. ASSUME NEW i \in DOMAIN seqs, NEW k \in DOMAIN seqs[i]
      PROVE  \E n \in DOMAIN r : r[n] = seqs[i][k]
  <2>1. i \in 1 .. Len(seqs) /\ k \in 1 .. Len(seqs[i])
    OBVIOUS
  <2>2. PICK n \in 1 .. Len(r) : row[n] = i /\ col[n] = k
    BY <1>2, <2>1 DEF Placed
  <2>3. r[n] = seqs[i][k] /\ n \in DOMAIN r
    BY <1>1, <1>2, <2>2 DEF Placed
  <2>. QED
    BY <2>3
<1>. QED
  BY <1>1, <1>3, <1>4 DEF r

-----------------------------------------------------------------------------
(* Enumerations of finite sets.                                             *)

\* 1 .. n has n elements.
LEMMA IndicesAreFinite ==
    ASSUME NEW n \in Nat PROVE IsFiniteSet(1 .. n) /\ Cardinality(1 .. n) = n
  BY FS_Interval

\* A sequence of S as long as S is large, and without repetition, has all of it.
LEMMA InjectionIsOnto ==
    ASSUME NEW S, IsFiniteSet(S), NEW f \in [1 .. Cardinality(S) -> S], IsInjective(f)
    PROVE  f \in Seq(S) /\ Range(f) = S
<1>. DEFINE n == Cardinality(S)
<1>1. n \in Nat /\ IsFiniteSet(1 .. n) /\ Cardinality(1 .. n) = n
  BY FS_CardinalityType, IndicesAreFinite
<1>2. f \in Injection(1 .. n, S)
  BY DEF Injection
<1>3. f \in Surjection(1 .. n, S)
  BY <1>1, <1>2, FS_Injection
<1>. HIDE DEF n
<1>4. f \in [1 .. n -> S]
  BY DEF n
<1>5. \A s \in S : \E i \in 1 .. n : f[i] = s
  BY <1>3 DEF Surjection
<1>6. f \in Seq(S)
  BY <1>1, <1>4
<1>7. Range(f) = S
  BY <1>4, <1>5 DEF Range
<1>. QED
  BY <1>6, <1>7

\* SetToSeq of a finite set is its elements, in some order.
LEMMA SetToSeqIs ==
    ASSUME NEW S, IsFiniteSet(S)
    PROVE  SetToSeq(S) \in Seq(S) /\ Range(SetToSeq(S)) = S
<1>1. \E f \in [1 .. Cardinality(S) -> S] : IsInjective(f)
  BY FS_CardinalityType DEF ExistsBijection, Bijection, Injection
<1>2. SetToSeq(S) \in [1 .. Cardinality(S) -> S] /\ IsInjective(SetToSeq(S))
  BY <1>1 DEF SetToSeq
<1>. QED
  BY <1>2, InjectionIsOnto

\* A finite set of numbers that is not empty has a greatest one.
LEMMA GreatestElement ==
    ASSUME NEW S \in SUBSET Int, IsFiniteSet(S), S # {}
    PROVE  \E x \in S : \A y \in S : y <= x
<1>. DEFINE n == Cardinality(S)
            A == {m \in Nat : \A T \in SUBSET S : T # {} /\ Cardinality(T) = m =>
                                  \E x \in T : \A y \in T : y <= x}
<1>1. n \in Nat /\ \A T \in SUBSET S : IsFiniteSet(T) /\ Cardinality(T) \in Nat
  BY FS_CardinalityType, FS_Subset
<1>2. 0 \in A
  BY <1>1, FS_EmptySet
<1>3. ASSUME NEW m \in 0 .. (n - 1), m \in A PROVE m + 1 \in A
  <2>. SUFFICES ASSUME NEW T \in SUBSET S, T # {}, Cardinality(T) = m + 1
                PROVE  \E x \in T : \A y \in T : y <= x
    OBVIOUS
  <2>1. PICK z \in T : TRUE
    OBVIOUS
  <2>2. IsFiniteSet(T) /\ Cardinality(T \ {z}) = m
    BY <1>1, <2>1, FS_RemoveElement
  <2>3. CASE T \ {z} = {}
    BY <2>1, <2>3
  <2>4. CASE T \ {z} # {}
    <3>1. PICK x \in T \ {z} : \A y \in T \ {z} : y <= x
      BY <1>3, <2>2, <2>4
    <3>2. CASE z <= x
      BY <3>1, <3>2
    <3>3. CASE x < z
      <4>1. ASSUME NEW y \in T PROVE y <= z
        <5>1. y \in Int /\ x \in Int /\ z \in Int /\ (y # z => y <= x)
          BY <3>1
        <5>. QED
          BY <3>3, <5>1
      <4>. QED
        BY <2>1, <4>1
    <3>. QED
      BY <3>1, <3>2, <3>3
  <2>. QED
    BY <2>3, <2>4
<1>4. n \in A
  <2>. HIDE DEF A
  <2>1. \A m \in 0 .. n : m \in A
    BY <1>1, <1>2, <1>3, UpTo
  <2>. QED
    BY <1>1, <2>1
<1>. QED
  BY <1>4

\* The elements of S in ascending order.
Ascending(seq) == \A i, j \in DOMAIN seq : i < j => seq[i] < seq[j]

\* Every finite set of numbers has them.
LEMMA SortedEnumeration ==
    ASSUME NEW S \in SUBSET Int, IsFiniteSet(S)
    PROVE  \E seq \in [1 .. Cardinality(S) -> S] : Ascending(seq)
<1>. DEFINE n == Cardinality(S)
            A == {m \in Nat : \A T \in SUBSET S : Cardinality(T) = m =>
                                  \E seq \in [1 .. m -> T] : Ascending(seq)}
<1>1. n \in Nat /\ \A T \in SUBSET S : IsFiniteSet(T) /\ Cardinality(T) \in Nat
  BY FS_CardinalityType, FS_Subset
<1>2. 0 \in A
  <2>. SUFFICES ASSUME NEW T \in SUBSET S
                PROVE  \E seq \in [1 .. 0 -> T] : Ascending(seq)
    OBVIOUS
  <2>. DEFINE none == [i \in 1 .. 0 |-> i]
  <2>1. none \in [1 .. 0 -> T] /\ Ascending(none)
    BY DEF Ascending
  <2>. QED
    BY <2>1
<1>3. ASSUME NEW m \in 0 .. (n - 1), m \in A PROVE m + 1 \in A
  <2>. SUFFICES ASSUME NEW T \in SUBSET S, Cardinality(T) = m + 1
                PROVE  \E seq \in [1 .. (m + 1) -> T] : Ascending(seq)
    OBVIOUS
  <2>1. IsFiniteSet(T) /\ T # {} /\ T \in SUBSET Int
    BY <1>1, FS_EmptySet
  <2>2. PICK x \in T : \A y \in T : y <= x
    BY <2>1, GreatestElement
  <2>3. Cardinality(T \ {x}) = m /\ T \ {x} \in SUBSET S
    <3>1. Cardinality(T \ {x}) = Cardinality(T) - 1
      BY <2>1, <2>2, FS_RemoveElement
    <3>. QED
      BY <3>1
  <2>4. PICK seq \in [1 .. m -> T \ {x}] : Ascending(seq)
    BY <1>3, <2>3
  <2>. DEFINE more == [i \in 1 .. (m + 1) |-> IF i <= m THEN seq[i] ELSE x]
  <2>5. more \in [1 .. (m + 1) -> T]
    BY <2>4
  <2>6. ASSUME NEW i \in 1 .. (m + 1), NEW j \in 1 .. (m + 1), i < j
        PROVE  more[i] < more[j]
    <3>1. i \in 1 .. m /\ more[i] = seq[i] /\ seq[i] \in T \ {x}
      BY <2>4, <2>6
    <3>2. CASE j <= m
      <4>1. j \in 1 .. m /\ more[j] = seq[j]
        BY <3>2
      <4>. QED
        BY <2>4, <2>6, <3>1, <4>1 DEF Ascending
    <3>3. CASE j = m + 1
      <4>1. more[j] = x
        BY <3>3
      <4>2. seq[i] <= x /\ seq[i] # x /\ seq[i] \in Int /\ x \in Int
        BY <2>1, <2>2, <3>1
      <4>. QED
        BY <3>1, <4>1, <4>2
    <3>. QED
      BY <3>2, <3>3
  <2>7. DOMAIN more = 1 .. (m + 1)
    OBVIOUS
  <2>. HIDE DEF more
  <2>. QED
    BY <2>5, <2>6, <2>7 DEF Ascending
<1>4. n \in A
  <2>. HIDE DEF A
  <2>1. \A m \in 0 .. n : m \in A
    BY <1>1, <1>2, <1>3, UpTo
  <2>. QED
    BY <1>1, <2>1
<1>. QED
  BY <1>4

\* And an ascending one has every element once.
LEMMA AscendingIsAll ==
    ASSUME NEW S \in SUBSET Int, IsFiniteSet(S),
           NEW seq \in [1 .. Cardinality(S) -> S], Ascending(seq)
    PROVE  seq \in Seq(S) /\ Range(seq) = S /\ IsInjective(seq)
<1>1. Cardinality(S) \in Nat
  BY FS_CardinalityType
<1>2. ASSUME NEW i \in DOMAIN seq, NEW j \in DOMAIN seq, seq[i] = seq[j] PROVE i = j
  <2>1. i \in Int /\ j \in Int /\ seq[i] \in S
    OBVIOUS
  <2>2. ~(seq[i] < seq[j]) /\ ~(seq[j] < seq[i])
    <3>1. \A x \in S : ~(x < x)
      OBVIOUS
    <3>. QED
      BY <1>2, <2>1, <3>1
  <2>3. ~(i < j) /\ ~(j < i)
    BY <2>2 DEF Ascending
  <2>. QED
    BY <2>1, <2>3
<1>3. IsInjective(seq)
  BY <1>2 DEF IsInjective
<1>. QED
  BY <1>3, InjectionIsOnto

\* A sequence that has as many elements as values repeats none.
LEMMA NoRepeatsInjective ==
    ASSUME NEW X, NEW seq \in Seq(X), Cardinality(Range(seq)) = Len(seq)
    PROVE  IsInjective(seq)
<1>. DEFINE n == Len(seq)
            S == Range(seq)
<1>1. n \in Nat /\ IsFiniteSet(1 .. n) /\ Cardinality(1 .. n) = n
  <2>1. n \in Nat
    OBVIOUS
  <2>. HIDE DEF n
  <2>. QED
    BY <2>1, IndicesAreFinite
<1>2. seq \in [1 .. n -> S] /\ \A s \in S : \E i \in 1 .. n : seq[i] = s
  BY DEF Range
<1>3. Cardinality(1 .. n) = Cardinality(S)
  BY <1>1
<1>. HIDE DEF n, S
<1>4. seq \in Surjection(1 .. n, S)
  BY <1>2 DEF Surjection
<1>5. seq \in Injection(1 .. n, S)
  BY <1>1, <1>3, <1>4, FS_SurjSameCardinalityImpliesInj
<1>. QED
  BY <1>5 DEF Injection

\* Without repetition the bag of a sequence is its set of values.
LEMMA ToBagOfInjective ==
    ASSUME NEW seq, IsInjective(seq)
    PROVE  ToBag(seq) = [x \in Range(seq) |-> 1]
<1>1. ASSUME NEW x \in Range(seq) PROVE Cardinality({i \in DOMAIN seq : seq[i] = x}) = 1
  <2>1. PICK k \in DOMAIN seq : seq[k] = x
    BY DEF Range
  <2>2. {i \in DOMAIN seq : seq[i] = x} = {k}
    BY <2>1 DEF IsInjective
  <2>. QED
    BY <2>2, FS_Singleton
<1>. QED
  BY <1>1 DEF ToBag
==============================================================================
