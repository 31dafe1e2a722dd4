---------------------------- MODULE EntriesProofs ----------------------------
(***************************************************************************)
(* Facts about vectors: joined, shortened and filtered, of any length.     *)
(***************************************************************************)
EXTENDS Entries, SequencesExt, FiniteSetTheorems, SequenceTheorems,
        WellFoundedInduction, TLAPS

-----------------------------------------------------------------------------
(***************************************************************************)
(* Vectors.  The least element of a set of numbers takes the place of      *)
(* induction.                                                              *)
(***************************************************************************)
LEMMA Least ==
    ASSUME NEW S, S \subseteq Nat, S # {}
    PROVE  \E n \in S : \A m \in S : n <= m
  <1>1. PICK n \in S : \A m \in S : <<m, n>> \notin OpToRel(<, Nat)
    BY WFMin, NatLessThanWellFounded, Zenon
  <1>2. \A m \in S : ~ (m < n)
    BY <1>1 DEF OpToRel
  <1> QED BY <1>2

LEMMA MinIsLeast ==
    ASSUME NEW S, S \subseteq Nat, S # {}
    PROVE  Min(S) \in S /\ \A m \in S : Min(S) <= m
  BY Least DEF Min

LEMMA ConcatFacts ==
    ASSUME NEW S, NEW a \in Seq(S), NEW b \in Seq(S)
    PROVE  /\ a \o b \in Seq(S)
           /\ Len(a \o b) = Len(a) + Len(b)
           /\ \A i \in 1 .. Len(a) + Len(b) :
                 (a \o b)[i] = IF i <= Len(a) THEN a[i] ELSE b[i - Len(a)]
  <1>1. a \o b \in Seq(S) /\ Len(a \o b) = Len(a) + Len(b)
    BY ConcatProperties
  <1>2. ASSUME NEW i \in 1 .. Len(a) + Len(b)
        PROVE  (a \o b)[i] = IF i <= Len(a) THEN a[i] ELSE b[i - Len(a)]
    BY ConcatProperties
  <1> QED BY <1>1, <1>2

LEMMA RemovalFacts ==
    ASSUME NEW S, NEW q \in Seq(S), NEW n \in DOMAIN q
    PROVE  /\ RemoveAt(q, n) \in Seq(S)
           /\ Len(RemoveAt(q, n)) = Len(q) - 1
           /\ \A i \in DOMAIN RemoveAt(q, n) :
                 RemoveAt(q, n)[i] = IF i < n THEN q[i] ELSE q[i + 1]
  <1> DEFINE front == SubSeq(q, 1, n - 1)
             back  == SubSeq(q, n + 1, Len(q))
  <1>1. n \in 1 .. Len(q) /\ Len(q) \in Nat
    OBVIOUS
  <1>2. /\ front \in Seq(S) /\ Len(front) = n - 1
        /\ back \in Seq(S) /\ Len(back) = Len(q) - n
    BY <1>1
  <1>3. \A i \in 1 .. n - 1 : front[i] = q[i]
    BY <1>1
  <1>4. \A i \in 1 .. Len(q) - n : back[i] = q[n + i]
    BY <1>1
  <1>5. RemoveAt(q, n) = front \o back
    BY DEF RemoveAt
  <1> HIDE DEF front, back
  <1>6. /\ front \o back \in Seq(S) /\ Len(front \o back) = Len(q) - 1
        /\ \A i \in 1 .. n - 1 : (front \o back)[i] = front[i]
        /\ \A i \in n .. Len(q) - 1 : (front \o back)[i] = back[i - (n - 1)]
    <2>1. /\ front \o back \in Seq(S)
          /\ Len(front \o back) = Len(front) + Len(back)
          /\ \A i \in 1 .. Len(front) + Len(back) : (front \o back)[i] =
                IF i <= Len(front) THEN front[i] ELSE back[i - Len(front)]
      BY <1>2, ConcatFacts
    <2>2. Len(front) + Len(back) = Len(q) - 1
      BY <1>1, <1>2
    <2>3. \A i \in 1 .. n - 1 : i \in 1 .. Len(front) + Len(back) /\ i <= Len(front)
      BY <1>1, <1>2, <2>2
    <2>0. n \in Nat /\ n >= 1 /\ Len(q) \in Nat /\ Len(front) = n - 1
      BY <1>1, <1>2
    <2>4. \A i \in n .. Len(q) - 1 :
             i \in 1 .. Len(front) + Len(back) /\ ~ (i <= Len(front))
      BY <2>0, <2>2
    <2>5. \A i \in n .. Len(q) - 1 : (front \o back)[i] = back[i - Len(front)]
      BY <2>1, <2>4
    <2> QED BY <1>2, <2>1, <2>2, <2>3, <2>5
  <1>7. ASSUME NEW i \in 1 .. Len(q) - 1
        PROVE  (front \o back)[i] = IF i < n THEN q[i] ELSE q[i + 1]
    <2>1. CASE i < n
      <3>1. i \in 1 .. n - 1
        BY <1>1, <2>1
      <3> QED BY <1>3, <1>6, <2>1, <3>1
    <2>2. CASE ~ (i < n)
      <3>1. /\ i \in n .. Len(q) - 1
            /\ i - (n - 1) \in 1 .. Len(q) - n /\ n + (i - (n - 1)) = i + 1
        BY <1>1, <2>2
      <3>2. (front \o back)[i] = back[i - (n - 1)]
        BY <1>6, <3>1
      <3>3. back[i - (n - 1)] = q[i + 1]
        BY <1>4, <3>1
      <3> QED BY <2>2, <3>2, <3>3
    <2> QED BY <2>1, <2>2
  <1>8. DOMAIN (front \o back) = 1 .. Len(q) - 1
    BY <1>6, LenProperties
  <1> QED BY <1>5, <1>6, <1>7, <1>8

(***************************************************************************)
(* The positions in keep are counted without a gap.                        *)
(***************************************************************************)
LEMMA NthFacts ==
    ASSUME NEW n \in Nat, NEW keep \in SUBSET (1 .. n)
    PROVE  /\ Cardinality(keep) \in 0 .. n
           /\ \A i \in 1 .. Cardinality(keep) :
                 /\ Nth(keep, i) \in keep
                 /\ Cardinality({k \in keep : k <= Nth(keep, i)}) = i
           /\ \A j \in keep : \E i \in 1 .. Cardinality(keep) : Nth(keep, i) = j
  <1> DEFINE upto(j) == {k \in keep : k <= j}
             size    == Cardinality(keep)
  <1>0. \A k \in keep : k \in Nat /\ 1 <= k /\ k <= n
    OBVIOUS
  <1>1. IsFiniteSet(1 .. n) /\ Cardinality(1 .. n) = n
    BY FS_Interval
  <1>2. IsFiniteSet(keep) /\ size \in 0 .. n
    <2>1. IsFiniteSet(keep) /\ Cardinality(keep) <= Cardinality(1 .. n)
      BY <1>1, FS_Subset, Zenon
    <2>2. Cardinality(keep) \in Nat
      BY <2>1, FS_CardinalityType
    <2> QED BY <1>1, <2>1, <2>2
  <1>3. \A j \in Nat : IsFiniteSet(upto(j)) /\ Cardinality(upto(j)) \in 0 .. size
    <2> TAKE j \in Nat
    <2>1. upto(j) \in SUBSET keep
      OBVIOUS
    <2> QED BY <1>2, <2>1, FS_Subset, FS_CardinalityType
  <1>4. Cardinality(upto(0)) = 0 /\ Cardinality(upto(n)) = size
    <2>1. \A k \in keep : ~ (k <= 0) /\ k <= n
      BY <1>0
    <2>2. upto(0) = {} /\ upto(n) = keep
      BY <2>1
    <2> QED BY <2>2, FS_EmptySet
  <1>5. \A j \in Nat \ {0} : Cardinality(upto(j)) =
            IF j \in keep THEN Cardinality(upto(j - 1)) + 1
            ELSE Cardinality(upto(j - 1))
    <2> TAKE j \in Nat \ {0}
    <2>1. CASE j \in keep
      <3>1. /\ \A k \in keep : k <= j <=> k <= j - 1 \/ k = j
            /\ ~ (j <= j - 1)
        BY <1>0
      <3>3. upto(j) = upto(j - 1) \cup {j} /\ j \notin upto(j - 1)
        BY <2>1, <3>1
      <3>2. j - 1 \in Nat
        OBVIOUS
      <3> HIDE DEF upto
      <3> QED BY <1>3, <2>1, <3>2, <3>3, FS_AddElement
    <2>2. CASE j \notin keep
      <3>1. \A k \in keep : k <= j <=> k <= j - 1
        BY <1>0, <2>2
      <3>2. upto(j) = upto(j - 1)
        BY <3>1
      <3> QED BY <2>2, <3>2
    <2> QED BY <2>1, <2>2
  <1>6. \A i \in 1 .. size : \E j \in keep : Cardinality(upto(j)) = i
    <2> TAKE i \in 1 .. size
    <2> DEFINE reached == {j \in Nat : Cardinality(upto(j)) >= i}
    <2> HIDE DEF upto
    <2>1. n \in reached
      BY <1>2, <1>4
    <2>2. PICK j \in reached : \A m \in reached : j <= m
      BY <2>1, Least
    <2>3. j # 0 /\ j - 1 \in Nat /\ j - 1 \notin reached
      BY <1>2, <1>4, <2>2
    <2>4. Cardinality(upto(j - 1)) < i /\ Cardinality(upto(j)) >= i
      BY <1>2, <1>3, <2>2, <2>3
    <2>5. j \in keep /\ Cardinality(upto(j)) = i
      BY <1>2, <1>3, <1>5, <2>2, <2>3, <2>4
    <2> QED BY <2>5
  <1>7. \A i \in 1 .. size : Nth(keep, i) \in keep /\ Cardinality(upto(Nth(keep, i))) = i
    BY <1>6 DEF Nth
  <1>8. \A i, j \in keep : i < j => Cardinality(upto(i)) < Cardinality(upto(j))
    <2> TAKE i, j \in keep
    <2> HAVE i < j
    <2>1. i \in Nat /\ j \in Nat \ {0} /\ j - 1 \in Nat /\ upto(i) \in SUBSET upto(j - 1)
      <3>1. i \in Nat /\ j \in Nat \ {0} /\ j - 1 \in Nat
        BY <1>0
      <3>2. \A k \in keep : k <= i => k <= j - 1
        BY <1>0
      <3> QED BY <3>1, <3>2
    <2> HIDE DEF upto
    <2>2. Cardinality(upto(i)) <= Cardinality(upto(j - 1))
      BY <1>3, <2>1, FS_Subset
    <2>3. Cardinality(upto(j)) = Cardinality(upto(j - 1)) + 1
      BY <1>5, <2>1
    <2> QED BY <1>2, <1>3, <2>1, <2>2, <2>3
  <1>9. \A j \in keep : \E i \in 1 .. size : Nth(keep, i) = j
    <2> TAKE j \in keep
    <2> DEFINE i == Cardinality(upto(j))
    <2>1. i \in 1 .. size
      <3>1. j \in Nat \ {0} /\ j - 1 \in Nat
        BY <1>0
      <3> HIDE DEF upto
      <3> QED BY <1>2, <1>3, <1>5, <3>1
    <2>2. Nth(keep, i) \in keep /\ Cardinality(upto(Nth(keep, i))) = i
      BY <1>7, <2>1
    <2>3. Nth(keep, i) = j
      <3>1. Nth(keep, i) \in Nat /\ j \in Nat
        BY <1>0, <2>2
      <3>2. i \in Nat
        BY <1>2, <2>1
      <3>3. Cardinality(upto(j)) = i
        OBVIOUS
      <3> DEFINE m == Nth(keep, i)
      <3>4. m \in keep /\ Cardinality(upto(m)) = i /\ m \in Nat
        BY <2>2, <3>1
      <3> HIDE DEF upto, i, m
      <3>5. ~ (m < j) /\ ~ (j < m)
        BY <1>8, <3>2, <3>3, <3>4
      <3>6. m = j
        BY <3>1, <3>4, <3>5
      <3> QED BY <3>6 DEF m
    <2> QED BY <2>1, <2>3
  <1> QED BY <1>2, <1>7, <1>9

LEMMA FilteredFacts ==
    ASSUME NEW n \in Nat, NEW keep \in SUBSET (1 .. n), NEW vector, NEW S,
           \A k \in keep : vector[k] \in S
    PROVE  /\ Filtered(vector, keep) \in Seq(S)
           /\ DOMAIN Filtered(vector, keep) = 1 .. Cardinality(keep)
           /\ \A i \in DOMAIN Filtered(vector, keep) :
                 /\ Nth(keep, i) \in keep
                 /\ Filtered(vector, keep)[i] = vector[Nth(keep, i)]
           /\ \A i, j \in DOMAIN Filtered(vector, keep) :
                 Nth(keep, i) = Nth(keep, j) => i = j
  <1> DEFINE size == Cardinality(keep)
  <1>1. /\ size \in 0 .. n
        /\ \A i \in 1 .. size : Nth(keep, i) \in keep
        /\ \A j \in keep : \E i \in 1 .. size : Nth(keep, i) = j
    BY NthFacts
  <1>2. \A i, j \in 1 .. size : Nth(keep, i) = Nth(keep, j) => i = j
    <2>1. \A i \in 1 .. size : Cardinality({k \in keep : k <= Nth(keep, i)}) = i
      BY NthFacts
    <2> QED BY <2>1
  <1> HIDE DEF size
  <1>3. Filtered(vector, keep) = [i \in 1 .. size |-> vector[Nth(keep, i)]]
    BY DEF Filtered, size
  <1>4. Filtered(vector, keep) \in [1 .. size -> S] /\ size \in Nat
    <2>1. \A i \in 1 .. size : vector[Nth(keep, i)] \in S
      BY <1>1
    <2>2. size \in Nat
      BY <1>1
    <2> QED BY <1>3, <2>1, <2>2
  <1>5. Filtered(vector, keep) \in Seq(S)
    BY <1>4
  <1> QED BY <1>1, <1>2, <1>3, <1>5 DEF size

=============================================================================
