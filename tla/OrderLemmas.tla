---------------------------- MODULE OrderLemmas -----------------------------
(***************************************************************************)
(* Facts about sorted keys and about sequences put one after the other,    *)
(* which the proofs of several components need.                            *)
(***************************************************************************)
EXTENDS KeyOrder, Sequences, SequencesExt, FiniteSetTheorems, FunctionTheorems,
        SequenceTheorems, TLAPS

(* Every nonempty set of natural numbers has a least element. *)
LEMMA LeastNat ==
  ASSUME NEW T \in SUBSET Nat, T # {}
  PROVE  \E x \in T : \A y \in T : x <= y
<1> DEFINE R == OpToRel(<, Nat)
<1>1. IsWellFoundedOn(R, Nat)
  BY NatLessThanWellFounded
<1>2. \E x \in T : \A y \in T : ~(<<y, x>> \in R)
  <2> HIDE DEF R
  <2> QED BY <1>1, WFMin
<1>3. \A x, y \in Nat : <<y, x>> \in R <=> y < x
  BY DEF OpToRel
<1>4. PICK x \in T : \A y \in T : ~(<<y, x>> \in R)
  BY <1>2
<1>5. ASSUME NEW y \in T PROVE x <= y
  <2>1. ~(<<y, x>> \in R)
    BY <1>4
  <2>2. ~(y < x)
    BY <1>3, <2>1
  <2> QED BY <2>2
<1> QED BY <1>5

Upto(keys, key) == {k \in keys : k <= key}

(* Of two keys of a set, the larger one has the larger index. *)
LEMMA IndexGrows ==
  ASSUME NEW K \in SUBSET Nat, IsFiniteSet(K), NEW x \in K, NEW y \in K
  PROVE  /\ KeyIndex(K, x) \in 1..Cardinality(K)
         /\ x < y => KeyIndex(K, x) < KeyIndex(K, y)
<1>1. ASSUME NEW z \in K
      PROVE  /\ IsFiniteSet(Upto(K, z)) /\ KeyIndex(K, z) = Cardinality(Upto(K, z))
             /\ Cardinality(Upto(K, z)) \in 1..Cardinality(K)
  <2>1. Upto(K, z) \in SUBSET K /\ z \in Upto(K, z)
    BY DEF Upto
  <2>2. IsFiniteSet(Upto(K, z)) /\ Cardinality(Upto(K, z)) <= Cardinality(K)
    BY <2>1, FS_Subset
  <2>3. Cardinality(Upto(K, z)) \in Nat /\ Cardinality(K) \in Nat
    BY <2>2, FS_CardinalityType
  <2>4. Cardinality(Upto(K, z)) # 0
    BY <2>1, <2>2, FS_EmptySet
  <2>5. KeyIndex(K, z) = Cardinality(Upto(K, z))
    BY DEF KeyIndex, Upto
  <2> QED BY <2>2, <2>3, <2>4, <2>5
<1>2. ASSUME x < y PROVE KeyIndex(K, x) < KeyIndex(K, y)
  <2>1. Upto(K, x) \in SUBSET Upto(K, y) /\ y \in Upto(K, y) /\ y \notin Upto(K, x)
    <3>1. x \in Nat /\ y \in Nat /\ ~(y <= x) /\ \A k \in K : k <= x => k <= y
      BY <1>2
    <3>2. /\ \A k : k \in Upto(K, x) <=> k \in K /\ k <= x
          /\ \A k : k \in Upto(K, y) <=> k \in K /\ k <= y
      BY DEF Upto
    <3>3. y <= y
      BY <3>1
    <3> QED BY <3>1, <3>2, <3>3
  <2>2. /\ Cardinality(Upto(K, x)) <= Cardinality(Upto(K, y))
        /\ Cardinality(Upto(K, x)) # Cardinality(Upto(K, y))
    BY <2>1, <1>1, FS_Subset
  <2>3. Cardinality(Upto(K, x)) \in Nat /\ Cardinality(Upto(K, y)) \in Nat
    BY <1>1
  <2> QED BY <1>1, <2>2, <2>3
<1> QED BY <1>1, <1>2

(* Every index up to the size of the set is that of one of its keys. *)
LEMMA KeyAtIndex ==
  ASSUME NEW K \in SUBSET Nat, IsFiniteSet(K), NEW i \in 1..Cardinality(K)
  PROVE  KeyAt(K, i) \in K /\ KeyIndex(K, KeyAt(K, i)) = i
<1> DEFINE n == Cardinality(K)
           index == [k \in K |-> KeyIndex(K, k)]
<1>1. index \in [K -> 1..n] /\ n \in Nat
  BY IndexGrows, FS_CardinalityType
<1>2. \A x, y \in K : index[x] = index[y] => x = y
  <2> SUFFICES ASSUME NEW x \in K, NEW y \in K, x # y PROVE index[x] # index[y]
    OBVIOUS
  <2>1. x < y \/ y < x
    OBVIOUS
  <2>2. KeyIndex(K, x) \in 1..n /\ KeyIndex(K, y) \in 1..n
    BY IndexGrows
  <2>3. KeyIndex(K, x) # KeyIndex(K, y)
    <3>1. CASE x < y
      <4>1. KeyIndex(K, x) < KeyIndex(K, y)
        BY <3>1, IndexGrows
      <4> QED BY <4>1, <2>2
    <3>2. CASE y < x
      <4>1. KeyIndex(K, y) < KeyIndex(K, x)
        BY <3>2, IndexGrows
      <4> QED BY <4>1, <2>2
    <3> QED BY <2>1, <3>1, <3>2
  <2> QED BY <2>3
<1>3. index \in Injection(K, 1..n)
  <2> HIDE DEF index
  <2> QED BY <1>1, <1>2, Fun_IsInj
<1>4. IsFiniteSet(1..n) /\ Cardinality(1..n) = n
  <2>1. 1 \in Int /\ n \in Int
    BY <1>1
  <2>2. IsFiniteSet(1..n) /\ Cardinality(1..n) = IF 1 > n THEN 0 ELSE n-1+1
    BY <2>1, FS_Interval
  <2> HIDE DEF n
  <2> QED BY <2>2, <1>1
<1>5. index \in Surjection(K, 1..n)
  <2> HIDE DEF index
  <2> QED BY <1>3, <1>4, FS_Injection
<1>6. \E k \in K : index[k] = i
  <2> HIDE DEF index
  <2> QED BY <1>5 DEF Surjection
<1>7. \E k \in K : KeyIndex(K, k) = i
  BY <1>6
<1> QED BY <1>7 DEF KeyAt

(* The sorted array holds every key once, smaller ones first. *)
LEMMA KeysSorted ==
  ASSUME NEW K \in SUBSET Nat, IsFiniteSet(K)
  PROVE  /\ Keys(K) \in Seq(K) /\ Len(Keys(K)) = Cardinality(K) /\ Cardinality(K) \in Nat
         /\ \A i, j \in 1..Cardinality(K) : Keys(K)[i] = Keys(K)[j] => i = j
         /\ \A k \in K : \E i \in 1..Cardinality(K) : Keys(K)[i] = k
<1> DEFINE n == Cardinality(K)
<1>1. n \in Nat
  BY FS_CardinalityType
<1>2. \A i \in 1..n : KeyAt(K, i) \in K /\ KeyIndex(K, KeyAt(K, i)) = i
  BY KeyAtIndex
<1>3. Keys(K) = [i \in 1..n |-> KeyAt(K, i)]
  BY DEF Keys
<1> HIDE DEF n
<1>4. Keys(K) \in Seq(K) /\ Len(Keys(K)) = n
  <2>1. Keys(K) \in [1..n -> K]
    BY <1>2, <1>3
  <2>2. Keys(K) \in Seq(K)
    BY <1>1, <2>1, SeqDef
  <2> QED BY <1>1, <2>1, <2>2, LenProperties
<1>5. \A i, j \in 1..n : Keys(K)[i] = Keys(K)[j] => i = j
  BY <1>2, <1>3
<1>6. ASSUME NEW k \in K PROVE \E i \in 1..n : Keys(K)[i] = k
  <2>1. KeyIndex(K, k) \in 1..n
    BY IndexGrows DEF n
  <2> DEFINE j == KeyAt(K, KeyIndex(K, k))
  <2>2. j \in K /\ KeyIndex(K, j) = KeyIndex(K, k)
    BY <1>2, <2>1
  <2> HIDE DEF j
  <2>3. j = k
    <3>1. j \in Nat /\ k \in Nat /\ KeyIndex(K, j) \in Nat
      BY <2>1, <2>2
    <3>2. j < k => KeyIndex(K, j) < KeyIndex(K, k)
      BY <2>2, IndexGrows
    <3>3. k < j => KeyIndex(K, k) < KeyIndex(K, j)
      BY <2>2, IndexGrows
    <3> QED BY <2>2, <3>1, <3>2, <3>3
  <2> QED BY <1>3, <2>1, <2>3 DEF j
<1> QED BY <1>1, <1>4, <1>5, <1>6 DEF n

-----------------------------------------------------------------------------
(* Sequences of M are put one after the other, from the first to the last. *)
LEMMA FlattenSeqSteps ==
  ASSUME NEW M, NEW ss \in Seq(Seq(M)), Len(ss) # 0
  PROVE  \E flat \in [1..Len(ss) -> Seq(M)] :
           /\ FlattenSeq(ss) = flat[Len(ss)]
           /\ \A i \in 1..Len(ss) :
                flat[i] = IF i = 1 THEN ss[i] ELSE flat[i-1] \o ss[i]
<1> DEFINE n == Len(ss)
           F(h) == [i \in 1..n |-> IF i = 1 THEN ss[i] ELSE h[i-1] \o ss[i]]
<1>1. n \in Nat /\ \A i \in 1..n : ss[i] \in Seq(M)
  BY LenProperties, ElementOfSeq
<1>3. CASE n # 0
  <2> DEFINE Flat(k, h) == \A i \in 1..k : h[i] = IF i = 1 THEN ss[i] ELSE h[i-1] \o ss[i]
             T == {k \in 1..n : ~ \E h \in [1..k -> Seq(M)] : Flat(k, h)}
  <2>1. FlattenSeq(ss) = (CHOOSE h : h = F(h))[n]
    BY <1>3 DEF FlattenSeq
  <2>2. T = {}
    <3> SUFFICES ASSUME T # {} PROVE FALSE
      OBVIOUS
    <3>1. PICK k \in T : \A j \in T : k <= j
      <4>1. T \in SUBSET Nat
        OBVIOUS
      <4> HIDE DEF T
      <4> QED BY <4>1, LeastNat
    <3>2. k \in 1..n
      OBVIOUS
    <3>3. CASE k = 1
      <4> DEFINE h == [i \in 1..1 |-> ss[i]]
      <4>1. h \in [1..1 -> Seq(M)]
        BY <1>1, <3>2, <3>3
      <4>2. Flat(1, h)
        OBVIOUS
      <4> QED BY <3>3, <4>1, <4>2
    <3>4. CASE k # 1
      <4>1. k-1 \in 1..n /\ ~(k <= k-1)
        BY <3>2, <3>4, <1>1
      <4>7. k-1 \notin T
        <5> HIDE DEF T
        <5> QED BY <3>1, <4>1
      <4>2. PICK h \in [1..k-1 -> Seq(M)] : Flat(k-1, h)
        BY <4>1, <4>7
      <4> DEFINE g == [i \in 1..k |-> IF i = k THEN h[k-1] \o ss[k] ELSE h[i]]
      <4>3. h[k-1] \o ss[k] \in Seq(M)
        <5>1. k-1 \in 1..k-1
          BY <4>1
        <5> QED BY <5>1, <4>2, <1>1, <3>2, ConcatProperties
      <4>4. \A i \in 1..k : i # k => i \in 1..k-1
        BY <3>2, <1>1
      <4>5. g \in [1..k -> Seq(M)]
        BY <4>2, <4>3, <4>4
      <4>6. ASSUME NEW i \in 1..k
            PROVE  g[i] = IF i = 1 THEN ss[i] ELSE g[i-1] \o ss[i]
        <5>1. CASE i = k
          <6>1. k-1 \in 1..k /\ k-1 # k
            BY <3>2, <3>4, <1>1
          <6> QED BY <5>1, <6>1, <3>4
        <5>2. CASE i # k /\ i # 1
          <6>1. i \in 1..k-1 /\ i-1 \in 1..k-1 /\ i-1 \in 1..k /\ i-1 # k
            BY <5>2, <3>2, <1>1
          <6>2. h[i] = h[i-1] \o ss[i]
            BY <4>2, <5>2, <6>1
          <6> QED BY <5>2, <6>1, <6>2
        <5>3. CASE i # k /\ i = 1
          <6>1. h[1] = ss[1] /\ g[1] = h[1]
            BY <4>2, <4>4, <5>3
          <6> QED BY <5>3, <6>1
        <5> QED BY <5>1, <5>2, <5>3
      <4> QED BY <4>5, <4>6
    <3> QED BY <3>3, <3>4
  <2>3. PICK h \in [1..n -> Seq(M)] : Flat(n, h)
    <3>1. n \in 1..n
      BY <1>1, <1>3
    <3> QED BY <2>2, <3>1
  <2>4. h = F(h)
    BY <2>3
  <2> DEFINE flatten == CHOOSE f : f = F(f)
  <2>5. flatten = F(flatten)
    <3> HIDE DEF F
    <3> QED BY <2>4
  <2> HIDE DEF flatten
  <2>6. \A i \in 1..n : flatten[i] = IF i = 1 THEN ss[i] ELSE flatten[i-1] \o ss[i]
    BY <2>5
  <2> DEFINE B == {i \in 1..n : flatten[i] \notin Seq(M)}
  <2>7. B = {}
    <3> SUFFICES ASSUME B # {} PROVE FALSE
      OBVIOUS
    <3>1. PICK i \in B : \A j \in B : i <= j
      <4>1. B \in SUBSET Nat
        OBVIOUS
      <4> HIDE DEF B
      <4> QED BY <4>1, LeastNat
    <3>2. i \in 1..n /\ flatten[i] \notin Seq(M)
      OBVIOUS
    <3>3. i # 1
      BY <3>2, <2>6, <1>1
    <3>4. i-1 \in 1..n /\ i-1 \notin B
      BY <3>1, <3>2, <3>3, <1>1
    <3>5. flatten[i-1] \in Seq(M)
      BY <3>4
    <3>6. flatten[i-1] \o ss[i] \in Seq(M)
      BY <3>2, <3>5, <1>1, ConcatProperties
    <3> QED BY <3>2, <3>3, <3>6, <2>6
  <2>8. flatten \in [1..n -> Seq(M)]
    <3>1. flatten = [i \in 1..n |-> flatten[i]]
      BY <2>5
    <3> QED BY <2>7, <3>1
  <2> QED BY <2>1, <2>6, <2>8 DEF flatten
<1> QED BY <1>3

LEMMA FlattenSeqType ==
  ASSUME NEW M, NEW ss \in Seq(Seq(M))
  PROVE  FlattenSeq(ss) \in Seq(M)
<1>1. Len(ss) \in Nat
  BY LenProperties
<1>2. CASE Len(ss) = 0
  BY <1>2, EmptySeq DEF FlattenSeq
<1>3. CASE Len(ss) # 0
  <2>1. Len(ss) \in 1..Len(ss)
    BY <1>1, <1>3
  <2> QED BY <1>3, <2>1, FlattenSeqSteps
<1> QED BY <1>2, <1>3

(* Nothing is left out: what they give is empty only if all of them are.   *)
LEMMA FlattenSeqEmpty ==
  ASSUME NEW M, NEW ss \in Seq(Seq(M)), FlattenSeq(ss) = <<>>, NEW k \in 1..Len(ss)
  PROVE  ss[k] = <<>>
<1> DEFINE n == Len(ss)
<1>1. n \in Nat /\ n # 0
  BY LenProperties
<1>2. PICK flat \in [1..n -> Seq(M)] :
        /\ FlattenSeq(ss) = flat[n]
        /\ \A i \in 1..n : flat[i] = IF i = 1 THEN ss[i] ELSE flat[i-1] \o ss[i]
  BY <1>1, FlattenSeqSteps
<1>3. \A i \in 1..n : ss[i] \in Seq(M) /\ flat[i] \in Seq(M)
  BY <1>2, ElementOfSeq
<1> HIDE DEF n
<1>4. \A a, b \in Seq(M) : a \o b = <<>> => a = <<>> /\ b = <<>>
  BY ConcatEqualIffEmpty, SMT
<1> DEFINE T == {j \in 0..n-1 : flat[n-j] # <<>>}
<1>5. T = {}
  <2> SUFFICES ASSUME T # {} PROVE FALSE
    OBVIOUS
  <2>1. PICK j \in T : \A i \in T : j <= i
    <3>1. T \in SUBSET Nat
      BY <1>1
    <3> HIDE DEF T
    <3> QED BY <3>1, LeastNat
  <2>2. j \in 0..n-1 /\ flat[n-j] # <<>>
    OBVIOUS
  <2>3. j # 0
    BY <1>1, <1>2, <2>2
  <2>4. j-1 \in 0..n-1 /\ j-1 \notin T
    <3>1. j-1 \in 0..n-1 /\ ~(j <= j-1)
      BY <1>1, <2>2, <2>3
    <3> HIDE DEF T
    <3> QED BY <2>1, <3>1
  <2>5. flat[n-(j-1)] = <<>>
    BY <2>4
  <2>6. n-(j-1) \in 1..n /\ n-(j-1) # 1 /\ (n-(j-1))-1 = n-j /\ n-j \in 1..n
    BY <1>1, <2>2, <2>3
  <2>7. flat[n-j] \o ss[n-(j-1)] = <<>>
    BY <1>2, <2>5, <2>6
  <2> QED BY <1>3, <1>4, <2>2, <2>6, <2>7
<1>6. k \in 1..n
  BY DEF n
<1>7. \A i \in 1..n : flat[i] = <<>>
  <2> TAKE i \in 1..n
  <2>1. n-i \in 0..n-1 /\ n-(n-i) = i
    BY <1>1
  <2> QED BY <1>5, <2>1
<1>8. CASE k = 1
  BY <1>2, <1>6, <1>7, <1>8
<1>9. CASE k # 1
  <2>1. k-1 \in 1..n
    BY <1>1, <1>6, <1>9
  <2>2. flat[k-1] \o ss[k] = <<>>
    BY <1>2, <1>6, <1>7, <1>9
  <2> QED BY <1>3, <1>4, <1>6, <2>1, <2>2
<1> QED BY <1>8, <1>9
=============================================================================
