---------------------------- MODULE PubNodeProofs ----------------------------
(***************************************************************************)
(* Proofs about pubs, for any number of them, any feeds, any credit and    *)
(* length of the vectors, and however often connections break and nodes    *)
(* restart.                                                                *)
(***************************************************************************)
EXTENDS PubNodeInv, FiniteSetTheorems, FunctionTheorems,
         SequenceTheorems, TLAPS

Below(S, B, x) == {y \in S : <<y, x>> \in B}

(* In a finite set with a strict total order, there is an element with     *)
(* exactly i smaller ones for every i below the number of its elements.    *)
LEMMA RankOnto ==
  ASSUME NEW S, IsFiniteSet(S), NEW B \in SUBSET (S \X S),
         \A x \in S : <<x, x>> \notin B,
         \A x, y, z \in S : <<x, y>> \in B /\ <<y, z>> \in B => <<x, z>> \in B,
         \A x, y \in S : x = y \/ <<x, y>> \in B \/ <<y, x>> \in B,
         NEW i \in 0..Cardinality(S)-1
  PROVE  \E x \in S : Cardinality(Below(S, B, x)) = i
<1> DEFINE n == Cardinality(S)
           rank == [x \in S |-> Cardinality(Below(S, B, x))]
<1>0. n \in Nat
  BY FS_CardinalityType
<1>1. ASSUME NEW x \in S
      PROVE  IsFiniteSet(Below(S, B, x)) /\ Cardinality(Below(S, B, x)) \in 0..n-1
  <2>1. Below(S, B, x) \subseteq S \ {x}
    BY DEF Below
  <2>2. IsFiniteSet(S \ {x}) /\ Cardinality(S \ {x}) = n - 1
    BY FS_RemoveElement
  <2> HIDE DEF n
  <2>3. IsFiniteSet(Below(S, B, x)) /\ Cardinality(Below(S, B, x)) <= n - 1
    BY <2>1, <2>2, FS_Subset
  <2>4. Cardinality(Below(S, B, x)) \in Nat
    BY <2>3, FS_CardinalityType
  <2> QED BY <2>3, <2>4, <1>0
<1>2. ASSUME NEW x \in S, NEW y \in S, <<x, y>> \in B
      PROVE  Cardinality(Below(S, B, x)) < Cardinality(Below(S, B, y))
  <2>1. Below(S, B, x) \subseteq Below(S, B, y) /\ x \in Below(S, B, y) /\ x \notin Below(S, B, x)
    BY <1>2 DEF Below
  <2> HIDE DEF n
  <2>2. /\ Cardinality(Below(S, B, x)) <= Cardinality(Below(S, B, y))
        /\ Cardinality(Below(S, B, x)) # Cardinality(Below(S, B, y))
    BY <2>1, <1>1, FS_Subset
  <2>3. Cardinality(Below(S, B, x)) \in Nat /\ Cardinality(Below(S, B, y)) \in Nat
    BY <1>0, <1>1
  <2> QED BY <2>2, <2>3
<1>3. rank \in [S -> 0..n-1]
  BY <1>1
<1>4. \A x, y \in S : rank[x] = rank[y] => x = y
  <2> SUFFICES ASSUME NEW x \in S, NEW y \in S, x # y PROVE rank[x] # rank[y]
    OBVIOUS
  <2>1. rank[x] = Cardinality(Below(S, B, x)) /\ rank[y] = Cardinality(Below(S, B, y))
    OBVIOUS
  <2>3. <<x, y>> \in B \/ <<y, x>> \in B
    OBVIOUS
  <2> HIDE DEF rank, n
  <2>2. Cardinality(Below(S, B, x)) \in Nat /\ Cardinality(Below(S, B, y)) \in Nat
    BY <1>0, <1>1
  <2> QED BY <1>2, <2>1, <2>2, <2>3
<1>5. rank \in Injection(S, 0..n-1)
  <2> HIDE DEF rank
  <2> QED BY <1>3, <1>4, Fun_IsInj
<1>6. IsFiniteSet(0..n-1) /\ Cardinality(0..n-1) = n
  <2>1. 0 \in Int /\ n - 1 \in Int
    BY <1>0
  <2>2. IsFiniteSet(0..n-1) /\ Cardinality(0..n-1) = IF 0 > n-1 THEN 0 ELSE n-1-0+1
    BY <2>1, FS_Interval
  <2> HIDE DEF n
  <2> QED BY <2>2, <1>0
<1>7. rank \in Surjection(S, 0..n-1)
  <2> HIDE DEF rank
  <2> QED BY <1>5, <1>6, FS_Injection
<1>8. \E x \in S : rank[x] = i
  <2>1. i \in 0..n-1
    OBVIOUS
  <2> HIDE DEF rank, n
  <2>2. \A t \in 0..n-1 : \E x \in S : rank[x] = t
    BY <1>7 DEF Surjection
  <2> QED BY <2>1, <2>2
<1> QED BY <1>8

(* Each index below the number of keys belongs to a key. *)
LEMMA KeyAtIsKey ==
  ASSUME NEW n, keys[n] \subseteq Feed, NEW i \in 0..Cardinality(keys[n])-1
  PROVE  KeyAt(n, i) \in keys[n]
<1> DEFINE K == keys[n]
           B == {p \in K \X K : p[1] < p[2]}
<1>1. K \subseteq Nat /\ IsFiniteSet(K)
  BY FS_Subset, PubNodeAssumption
<1>2. \A x, y \in K : <<x, y>> \in B <=> x < y
  OBVIOUS
<1>3. /\ B \in SUBSET (K \X K)
      /\ \A x \in K : <<x, x>> \notin B
      /\ \A x, y, z \in K : <<x, y>> \in B /\ <<y, z>> \in B => <<x, z>> \in B
      /\ \A x, y \in K : x = y \/ <<x, y>> \in B \/ <<y, x>> \in B
  <2>1. B \in SUBSET (K \X K)
    OBVIOUS
  <2> HIDE DEF B, K
  <2> QED BY <1>1, <1>2, <2>1
<1>4. i \in 0..Cardinality(K)-1
  OBVIOUS
<1>5. \E x \in K : Cardinality(Below(K, B, x)) = i
  <2>1. IsFiniteSet(K)
    BY <1>1
  <2> HIDE DEF B, K
  <2> QED BY <1>3, <1>4, <2>1, RankOnto
<1>6. \E x \in K : Index(n, x) = i
  <2>1. PICK x \in K : Cardinality(Below(K, B, x)) = i
    BY <1>5
  <2>2. Below(K, B, x) = {g \in K : g < x}
    <3> HIDE DEF B, K
    <3> QED BY <1>2 DEF Below
  <2> QED BY <2>1, <2>2 DEF Index
<1> QED BY <1>6 DEF KeyAt

(* InOrder is a sequence of some of the pairs. *)
LEMMA InOrderIsSeq ==
  ASSUME NEW pairs \in SUBSET (Nat \X Nat), IsFiniteSet(pairs), NEW max \in Nat
  PROVE  InOrder(pairs, max) \in Seq(pairs)
<1> DEFINE B == {p \in pairs \X pairs : Before(p[1], p[2])}
           m == Min({max, Cardinality(pairs)})
           nth(i) == CHOOSE a \in pairs :
                       Cardinality({b \in pairs : Before(b, a)}) = i - 1
<1>1. Cardinality(pairs) \in Nat
  BY FS_CardinalityType
<1>2. m \in Nat /\ m <= Cardinality(pairs)
  <2> DEFINE c == Cardinality(pairs)
  <2> HIDE DEF c
  <2>1. \E x \in {max, c} : \A y \in {max, c} : x <= y
    BY <1>1 DEF c
  <2>2. Min({max, c}) \in {max, c} /\ Min({max, c}) <= c
    BY <2>1 DEF Min
  <2> QED BY <1>1, <2>2 DEF c
<1>3. \A x, y \in pairs : <<x, y>> \in B <=> Before(x, y)
  OBVIOUS
<1>4. \A x \in pairs : x[1] \in Nat /\ x[2] \in Nat /\ x = <<x[1], x[2]>>
  OBVIOUS
<1>5. /\ B \in SUBSET (pairs \X pairs)
      /\ \A x \in pairs : <<x, x>> \notin B
      /\ \A x, y, z \in pairs : <<x, y>> \in B /\ <<y, z>> \in B => <<x, z>> \in B
      /\ \A x, y \in pairs : x = y \/ <<x, y>> \in B \/ <<y, x>> \in B
  <2>1. B \in SUBSET (pairs \X pairs)
    OBVIOUS
  <2> HIDE DEF B
  <2>2. \A x \in pairs : ~Before(x, x)
    BY <1>4 DEF Before
  <2>3. \A x, y, z \in pairs : Before(x, y) /\ Before(y, z) => Before(x, z)
    BY <1>4 DEF Before
  <2>4. \A x, y \in pairs : x = y \/ Before(x, y) \/ Before(y, x)
    BY <1>4 DEF Before
  <2> QED BY <1>3, <2>1, <2>2, <2>3, <2>4
<1>6. ASSUME NEW i \in 1..m PROVE nth(i) \in pairs
  <2>1. i - 1 \in 0..Cardinality(pairs)-1
    BY <1>1, <1>2
  <2>2. PICK x \in pairs : Cardinality(Below(pairs, B, x)) = i - 1
    <3>1. B \in SUBSET (pairs \X pairs)
      BY <1>5
    <3>2. \A x \in pairs : <<x, x>> \notin B
      BY <1>5
    <3>3. \A x, y, z \in pairs : <<x, y>> \in B /\ <<y, z>> \in B => <<x, z>> \in B
      BY <1>5
    <3>4. \A x, y \in pairs : x = y \/ <<x, y>> \in B \/ <<y, x>> \in B
      BY <1>5
    <3>5. IsFiniteSet(pairs)
      OBVIOUS
    <3> HIDE DEF B, m, nth
    <3> QED BY <2>1, <3>1, <3>2, <3>3, <3>4, <3>5, RankOnto
  <2>3. Below(pairs, B, x) = {b \in pairs : Before(b, x)}
    <3> HIDE DEF B
    <3> QED BY <1>3 DEF Below
  <2>4. \E a \in pairs : Cardinality({b \in pairs : Before(b, a)}) = i - 1
    BY <2>2, <2>3
  <2> QED BY <2>4
<1>7. [i \in 1..m |-> nth(i)] \in Seq(pairs)
  <2> HIDE DEF m, nth
  <2> QED BY <1>2, <1>6
<1> QED BY <1>7 DEF InOrder
-----------------------------------------------------------------------------
(* The lesser of two numbers. *)
LEMMA MinOfTwo ==
  ASSUME NEW a \in Nat, NEW b \in Nat
  PROVE  Min({a, b}) \in Nat /\ Min({a, b}) <= a /\ Min({a, b}) <= b
<1>1. \E x \in {a, b} : \A y \in {a, b} : x <= y
  OBVIOUS
<1>2. Min({a, b}) \in {a, b} /\ \A y \in {a, b} : Min({a, b}) <= y
  BY <1>1 DEF Min
<1> QED BY <1>2

(* The set of the first numbers is finite. *)
LEMMA NatInterval ==
  ASSUME NEW k \in Nat
  PROVE  IsFiniteSet(0..k-1) /\ IsFiniteSet(1..k)
<1>1. 0 \in Int /\ 1 \in Int /\ k - 1 \in Int /\ k \in Int
  OBVIOUS
<1> QED BY <1>1, FS_Interval

(* A remainder is less than the divisor. *)
LEMMA ModRange ==
  ASSUME NEW a \in Nat, NEW b \in Nat \ {0}
  PROVE  a % b \in 0..b-1
OBVIOUS

(* What a node stores, with its type. *)
LEMMA StoreTypes ==
  ASSUME TypeOK, Shape, NEW n \in Node
  PROVE  /\ keys[n] \subseteq Feed /\ IsFiniteSet(keys[n])
         /\ Cardinality(keys[n]) \in Nat
         /\ keys[n] # {} => Cardinality(keys[n]) \in Nat \ {0}
         /\ \A f \in Feed :
              /\ Log[f] \in Seq(DOMAIN Length) /\ Len(Log[f]) \in Nat
              /\ have[n][f] \in 0..Len(Log[f])
              /\ got[n][f] \in [1..Len(Log[f]) -> Nat]
              /\ \A seq \in 1..Len(Log[f]) :
                   /\ Log[f][seq] \in DOMAIN Length
                   /\ Length[Log[f][seq]] \in Nat
<1>1. keys[n] \subseteq Feed /\ IsFiniteSet(keys[n])
  BY FS_Subset, PubNodeAssumption DEF Shape
<1>2. Cardinality(keys[n]) \in Nat
  BY <1>1, FS_CardinalityType
<1>3. keys[n] # {} => Cardinality(keys[n]) \in Nat \ {0}
  BY <1>1, <1>2, FS_EmptySet
<1>4. ASSUME NEW f \in Feed
      PROVE  /\ Log[f] \in Seq(DOMAIN Length) /\ Len(Log[f]) \in Nat
             /\ have[n][f] \in 0..Len(Log[f])
             /\ got[n][f] \in [1..Len(Log[f]) -> Nat]
  <2>1. Log[f] \in Seq(DOMAIN Length)
    BY PubNodeAssumption
  <2>2. Len(Log[f]) \in Nat
    BY <2>1, LenProperties
  <2>3. have[n][f] \in 0..Len(Log[f])
    BY DEF TypeOK, IsStore
  <2>4. got[n][f] \in Seq(Nat) /\ Len(got[n][f]) = Len(Log[f])
    BY DEF Shape, Counts
  <2>5. got[n][f] \in [1..Len(Log[f]) -> Nat]
    BY <2>4, LenProperties
  <2> QED BY <2>1, <2>2, <2>3, <2>5
<1>5. ASSUME NEW f \in Feed, NEW seq \in 1..Len(Log[f])
      PROVE  Log[f][seq] \in DOMAIN Length /\ Length[Log[f][seq]] \in Nat
  <2>1. Log[f][seq] \in DOMAIN Length
    BY <1>4, ElementOfSeq
  <2> QED BY <2>1, PubNodeAssumption
<1> QED BY <1>1, <1>2, <1>3, <1>4, <1>5

(* The feeds of a vector, in the order it has them. *)
LEMMA FeedsFromType ==
  ASSUME TypeOK, Shape, NEW n \in Node
  PROVE  FeedsFrom(n) \in [1..Cardinality(keys[n]) -> keys[n]]
<1> DEFINE len == Cardinality(keys[n])
<1>1. keys[n] \subseteq Feed /\ len \in Nat /\ offs[n] \in Nat
  BY StoreTypes DEF TypeOK
<1>2. ASSUME NEW i \in 1..len PROVE KeyAt(n, (offs[n] + i - 1) % len) \in keys[n]
  <2> HIDE DEF len
  <2>1. offs[n] + i - 1 \in Nat /\ len \in Nat \ {0}
    BY <1>1
  <2>2. (offs[n] + i - 1) % len \in 0..len-1
    BY <2>1, ModRange
  <2> QED BY <1>1, <2>2, KeyAtIsKey DEF len
<1> QED BY <1>2 DEF FeedsFrom

(* The WANT vector has the fields it should have, *)
LEMMA WantType ==
  ASSUME TypeOK, Shape, NEW n \in Node
  PROVE  Want(n) \in WantPkt
<1> DEFINE m == Min({VectLen, Cardinality(keys[n])})
           next(i) == have[n][FeedsFrom(n)[i]] + 1
<1>1. m \in Nat /\ m <= Cardinality(keys[n]) /\ Cardinality(keys[n]) \in Nat
  BY MinOfTwo, StoreTypes, PubNodeAssumption
<1>2. ASSUME NEW i \in 1..m PROVE next(i) \in Nat \ {0}
  <2>1. i \in 1..Cardinality(keys[n])
    BY <1>1
  <2>2. FeedsFrom(n)[i] \in Feed
    BY <2>1, FeedsFromType, StoreTypes
  <2> QED BY <2>2 DEF Shape
<1>3. [i \in 1..m |-> next(i)] \in Seq(Nat \ {0})
  <2> HIDE DEF m, next
  <2> QED BY <1>1, <1>2
<1> QED BY <1>3 DEF Want, WantPkt, Shape

(* so has a claim *)
LEMMA ClaimType ==
  ASSUME TypeOK, Shape, NEW n \in Node, keys[n] # {}
  PROVE  Claim(n) \in ClaimPkt
<1> DEFINE len == Cardinality(keys[n])
<1>1. keys[n] \subseteq Feed /\ len \in Nat \ {0}
  BY StoreTypes
<1>2. 0 \in 0..len-1 /\ len - 1 \in 0..len-1
  BY <1>1
<1>3. KeyAt(n, 0) \in Feed /\ KeyAt(n, len - 1) \in Feed
  BY <1>1, <1>2, KeyAtIsKey
<1> QED BY <1>3 DEF Claim, ClaimPkt

(* and the CHNK vector. *)
LEMMA ChnkType ==
  ASSUME TypeOK, Shape, NEW n \in Node
  PROVE  Chnk(n) \in ChnkPkt
<1> DEFINE len == Cardinality(keys[n])
           feeds == FeedsFrom(n)
           row == [i \in 1..len |-> {i} \X Open(n, feeds[i])]
           pairs == UNION {{i} \X Open(n, feeds[i]) : i \in DOMAIN feeds}
           wanted == InOrder(pairs, VectLen)
           item(f, seq) == [ndx |-> Index(n, f), seq |-> seq, cnr |-> got[n][f][seq]]
<1>1. len \in Nat /\ DOMAIN feeds = 1..len /\ \A i \in 1..len : feeds[i] \in keys[n]
  BY FeedsFromType, StoreTypes
<1>2. \A i \in 1..len : feeds[i] \in Feed
  BY <1>1, StoreTypes
<1>3. ASSUME NEW i \in 1..len
      PROVE  /\ Open(n, feeds[i]) \subseteq 1..Len(Log[feeds[i]])
             /\ IsFiniteSet(row[i])
  <2> DEFINE f == feeds[i]
  <2>1. f \in Feed
    BY <1>2
  <2> HIDE DEF f
  <2>2. Len(Log[f]) \in Nat /\ have[n][f] \in 0..Len(Log[f])
    BY <2>1, StoreTypes
  <2>3. Open(n, f) \subseteq 1..Len(Log[f])
    <3>1. Open(n, f) \subseteq 1..have[n][f]
      BY DEF Open
    <3> QED BY <2>2, <3>1
  <2>4. IsFiniteSet(1..Len(Log[f]))
    BY <2>2, NatInterval
  <2>5. IsFiniteSet(Open(n, f))
    BY <2>3, <2>4, FS_Subset
  <2>6. IsFiniteSet({i} \X Open(n, f))
    BY <2>5, FS_Singleton, FS_Product
  <2> QED BY <2>3, <2>6 DEF f
<1>4. IsFiniteSet(pairs)
  <2> DEFINE T == {row[i] : i \in 1..len}
  <2>1. row \in Surjection(1..len, T)
    BY DEF Surjection
  <2>2. IsFiniteSet(1..len)
    <3> HIDE DEF len
    <3> QED BY <1>1, FS_Interval
  <2>3. IsFiniteSet(T)
    <3> HIDE DEF row, T
    <3> QED BY <2>1, <2>2, FS_Surjection
  <2>4. \A t \in T : IsFiniteSet(t)
    BY <1>3
  <2>5. IsFiniteSet(UNION T)
    <3> HIDE DEF T
    <3> QED BY <2>3, <2>4, FS_UNION
  <2>6. pairs = UNION T
    BY <1>1
  <2> QED BY <2>5, <2>6
<1>5. \A p \in pairs : /\ p[1] \in 1..len /\ p[2] \in 1..Len(Log[feeds[p[1]]])
                      /\ p[2] \in Open(n, feeds[p[1]])
                      /\ p = <<p[1], p[2]>>
  <2> SUFFICES ASSUME NEW p \in pairs
               PROVE  /\ p[1] \in 1..len /\ p[2] \in Open(n, feeds[p[1]])
                      /\ p = <<p[1], p[2]>>
    BY <1>3
  <2>1. PICK i \in 1..len : p \in {i} \X Open(n, feeds[i])
    BY <1>1
  <2> QED BY <2>1
<1>6. pairs \subseteq Nat \X Nat
  <2>1. \A p \in pairs : p[1] \in Nat /\ p[2] \in Nat
    <3> SUFFICES ASSUME NEW p \in pairs PROVE p[1] \in Nat /\ p[2] \in Nat
      OBVIOUS
    <3>1. p[1] \in 1..len /\ p[2] \in 1..Len(Log[feeds[p[1]]])
      BY <1>5
    <3> HIDE DEF pairs, len, feeds
    <3> QED BY <1>1, <3>1
  <2> HIDE DEF pairs
  <2> QED BY <1>5, <2>1
<1>7. wanted \in Seq(pairs)
  <2>1. VectLen \in Nat
    BY PubNodeAssumption
  <2> HIDE DEF pairs
  <2> QED BY <1>4, <1>6, <2>1, InOrderIsSeq
<1>8. ASSUME NEW p \in pairs PROVE item(feeds[p[1]], p[2]) \in ChnkItem
  <2> DEFINE f == feeds[p[1]]
             seq == p[2]
  <2>1. f \in Feed /\ seq \in 1..Len(Log[f])
    BY <1>2, <1>5
  <2> HIDE DEF f, seq
  <2>2. seq \in Nat \ {0} /\ got[n][f][seq] \in Nat
    BY <2>1, StoreTypes
  <2>3. Index(n, f) \in Nat
    <3>1. IsFiniteSet({g \in keys[n] : g < f})
      BY StoreTypes, FS_Subset
    <3> QED BY <3>1, FS_CardinalityType DEF Index
  <2>4. item(f, seq) \in ChnkItem
    BY <2>2, <2>3 DEF ChnkItem
  <2> QED BY <2>4 DEF f, seq
<1> DEFINE items == [j \in DOMAIN wanted |-> item(feeds[wanted[j][1]], wanted[j][2])]
<1>9. items \in Seq(ChnkItem)
  <2>1. Len(wanted) \in Nat /\ DOMAIN wanted = 1..Len(wanted)
        /\ \A j \in 1..Len(wanted) : wanted[j] \in pairs
    <3> HIDE DEF wanted, pairs
    <3> QED BY <1>7, LenProperties
  <2>2. \A j \in 1..Len(wanted) : item(feeds[wanted[j][1]], wanted[j][2]) \in ChnkItem
    <3> HIDE DEF wanted, pairs, item
    <3> QED BY <1>8, <2>1
  <2> HIDE DEF wanted, pairs, item, feeds
  <2> QED BY <2>1, <2>2
<1>10. Chnk(n) = [typ |-> "chnk", dmx |-> state[n], items |-> items]
  BY DEF Chnk
<1> HIDE DEF items
<1> QED BY <1>9, <1>10 DEF ChnkPkt, Shape
-----------------------------------------------------------------------------
(* The places of a vector, each with the turns it gets. *)
LEMMA TurnsAreFinite ==
  ASSUME NEW k \in Nat, NEW pairs \in SUBSET ((0..Credit-1) \X (1..k))
  PROVE  /\ pairs \subseteq Nat \X Nat
         /\ InOrder(pairs, Credit) \in Seq(pairs)
<1>1. Credit \in Nat
  BY PubNodeAssumption
<1>2. IsFiniteSet((0..Credit-1) \X (1..k))
  BY <1>1, NatInterval, FS_Product
<1>3. IsFiniteSet(pairs)
  BY <1>2, FS_Subset
<1>4. pairs \subseteq Nat \X Nat
  <2>1. 0..Credit-1 \subseteq Nat /\ 1..k \subseteq Nat
    BY <1>1
  <2> QED BY <2>1
<1> QED BY <1>1, <1>3, <1>4, InOrderIsSeq

(* The answers to a WANT vector are entries of the feeds. *)
LEMMA WantAnswersType ==
  ASSUME TypeOK, Shape, NEW n \in Node, NEW w \in WantPkt, ~Fails(n, w)
  PROVE  WantAnswers(n, w) \in Seq(EntryPkt)
<1> DEFINE len == Cardinality(keys[n])
           feed(a) == KeyAt(n, (w.offs + a[2] - 1) % len)
           seq(a) == w.seqs[a[2]] + a[1]
           pairs == {a \in (0..Credit-1) \X DOMAIN w.seqs : seq(a) <= have[n][feed(a)]}
           turns == InOrder(pairs, Credit)
           pkt(a) == [typ |-> "entry", fid |-> feed(a), seq |-> seq(a)]
<1>1. w.offs \in Nat /\ w.seqs \in Seq(Nat \ {0}) /\ w.typ = "want"
  BY DEF WantPkt
<1>2. Len(w.seqs) \in Nat /\ DOMAIN w.seqs = 1..Len(w.seqs)
  BY <1>1, LenProperties
<1>3. turns \in Seq(pairs)
  <2>1. pairs \subseteq (0..Credit-1) \X (1..Len(w.seqs))
    BY <1>2
  <2> HIDE DEF pairs
  <2> QED BY <1>2, <2>1, TurnsAreFinite
<1>4. ASSUME NEW a \in pairs PROVE pkt(a) \in EntryPkt
  <2>1. a[1] \in 0..Credit-1 /\ a[2] \in 1..Len(w.seqs) /\ seq(a) <= have[n][feed(a)]
    BY <1>2
  <2> HIDE DEF pairs, feed
  <2>2. keys[n] # {}
    BY <1>1, <1>2, <2>1 DEF Fails
  <2>3. len \in Nat \ {0} /\ keys[n] \subseteq Feed
    BY <2>2, StoreTypes
  <2>4. feed(a) \in Feed
    <3>1. w.offs + a[2] - 1 \in Nat
      BY <1>1, <1>2, <2>1
    <3>2. (w.offs + a[2] - 1) % len \in 0..len-1
      <4> HIDE DEF len
      <4> QED BY <2>3, <3>1, ModRange
    <3>3. KeyAt(n, (w.offs + a[2] - 1) % len) \in keys[n]
      BY <2>3, <3>2, KeyAtIsKey
    <3> QED BY <2>3, <3>3 DEF feed
  <2>5. seq(a) \in Nat \ {0}
    <3>1. w.seqs[a[2]] \in Nat \ {0}
      BY <1>1, <2>1, ElementOfSeq
    <3>2. a[1] \in Nat
      BY <2>1, PubNodeAssumption
    <3> QED BY <3>1, <3>2
  <2>6. seq(a) <= Len(Log[feed(a)])
    <3>1. have[n][feed(a)] \in 0..Len(Log[feed(a)]) /\ Len(Log[feed(a)]) \in Nat
      BY <2>4, StoreTypes
    <3> HIDE DEF seq
    <3> QED BY <2>1, <2>5, <3>1
  <2> HIDE DEF seq
  <2> QED BY <2>4, <2>5, <2>6 DEF EntryPkt
<1>5. Len(turns) \in Nat /\ DOMAIN turns = 1..Len(turns)
      /\ \A i \in 1..Len(turns) : turns[i] \in pairs
  <2> HIDE DEF turns, pairs
  <2> QED BY <1>3, LenProperties
<1>6. [i \in DOMAIN turns |-> pkt(turns[i])] \in Seq(EntryPkt)
  <2> HIDE DEF turns, pairs, pkt
  <2> QED BY <1>4, <1>5
<1> QED BY <1>6 DEF WantAnswers

(* The answers to a CHNK vector are chunks of chains. *)
LEMMA ChnkAnswersType ==
  ASSUME TypeOK, Shape, NEW n \in Node, NEW c \in ChnkPkt, ~Fails(n, c)
  PROVE  ChnkAnswers(n, c) \in Seq(ChunkPkt)
<1> DEFINE item(a) == c.items[a[2]]
           feed(a) == KeyAt(n, item(a).ndx)
           cnr(a) == item(a).cnr + a[1]
           pairs == {a \in (0..Credit-1) \X DOMAIN c.items :
                       /\ item(a).seq <= have[n][feed(a)]
                       /\ cnr(a) < got[n][feed(a)][item(a).seq]}
           turns == InOrder(pairs, Credit)
           pkt(a) == [typ |-> "chunk", hptr |-> Chunk(feed(a), item(a).seq, cnr(a))]
<1>1. c.items \in Seq(ChnkItem) /\ c.typ = "chnk"
  BY DEF ChnkPkt
<1>2. Len(c.items) \in Nat /\ DOMAIN c.items = 1..Len(c.items)
  BY <1>1, LenProperties
<1>3. turns \in Seq(pairs)
  <2>1. pairs \subseteq (0..Credit-1) \X (1..Len(c.items))
    BY <1>2
  <2> HIDE DEF pairs
  <2> QED BY <1>2, <2>1, TurnsAreFinite
<1>4. ASSUME NEW a \in pairs PROVE pkt(a) \in ChunkPkt
  <2>1. a[1] \in 0..Credit-1 /\ a[2] \in 1..Len(c.items) /\ item(a).seq <= have[n][feed(a)]
    BY <1>2
  <2> HIDE DEF pairs
  <2>2. item(a) \in ChnkItem
    BY <1>1, <2>1, ElementOfSeq
  <2>3. item(a).ndx \in Nat /\ item(a).seq \in Nat \ {0} /\ item(a).cnr \in Nat
    BY <2>2 DEF ChnkItem
  <2>4. feed(a) \in Feed
    <3>1. ~(item(a).ndx >= Cardinality(keys[n]))
      BY <1>1, <1>2, <2>1 DEF Fails
    <3>2. keys[n] \subseteq Feed /\ Cardinality(keys[n]) \in Nat
      BY StoreTypes
    <3>3. item(a).ndx \in 0..Cardinality(keys[n])-1
      <4> DEFINE len == Cardinality(keys[n])
      <4> HIDE DEF len, item
      <4>1. ~(item(a).ndx >= len) /\ len \in Nat
        BY <3>1, <3>2 DEF len
      <4>2. item(a).ndx \in 0..len-1
        BY <2>3, <4>1
      <4> QED BY <4>2 DEF len
    <3> QED BY <3>2, <3>3, KeyAtIsKey
  <2>5. ChainOf(feed(a), item(a).seq) \in DOMAIN Length
    <3> HIDE DEF feed, item
    <3>1. have[n][feed(a)] \in 0..Len(Log[feed(a)]) /\ Len(Log[feed(a)]) \in Nat
      BY <2>4, StoreTypes
    <3>2. item(a).seq \in 1..Len(Log[feed(a)])
      BY <2>1, <2>3, <3>1
    <3> QED BY <2>4, <3>2, StoreTypes DEF ChainOf
  <2>6. cnr(a) \in Nat
    <3>1. Credit \in Nat
      BY PubNodeAssumption
    <3> HIDE DEF item
    <3> QED BY <2>1, <2>3, <3>1
  <2> HIDE DEF feed, item, cnr
  <2> QED BY <2>5, <2>6 DEF ChunkPkt, Chunk, ChunkName
<1>5. Len(turns) \in Nat /\ DOMAIN turns = 1..Len(turns)
      /\ \A i \in 1..Len(turns) : turns[i] \in pairs
  <2> HIDE DEF turns, pairs
  <2> QED BY <1>3, LenProperties
<1>6. [i \in DOMAIN turns |-> pkt(turns[i])] \in Seq(ChunkPkt)
  <2> HIDE DEF turns, pairs, pkt
  <2> QED BY <1>4, <1>5
<1> QED BY <1>6 DEF ChnkAnswers
-----------------------------------------------------------------------------
(* A sequence of some packets is a sequence of packets. *)
LEMMA SeqSub ==
  ASSUME NEW S, NEW T, S \subseteq T, NEW s \in Seq(S)
  PROVE  s \in Seq(T)
OBVIOUS

(* What happens to the packets on their way. *)
LEMMA HeadType ==
  ASSUME Packets, NEW n \in Node, NEW m \in Node, NEW typ, Receives(n, m, typ)
  PROVE  /\ Head(chan[<<n, m>>]) \in Pkt
         /\ Head(chan[<<n, m>>]).typ = typ
         /\ Tail(chan[<<n, m>>]) \in Seq(Pkt)
<1>1. chan[<<n, m>>] \in Seq(Pkt) /\ chan[<<n, m>>] # <<>>
  BY DEF Packets, Receives
<1>2. Head(chan[<<n, m>>]) \in Pkt /\ Tail(chan[<<n, m>>]) \in Seq(Pkt)
  <2> HIDE DEF Pkt
  <2> QED BY <1>1, HeadTailProperties
<1> QED BY <1>2 DEF Receives

(* Sending keeps their types, *)
LEMMA SendType ==
  ASSUME Packets, NEW n \in Node, NEW m \in Node, NEW pkts \in Seq(Pkt), Send(n, m, pkts)
  PROVE  Packets'
<1>1. chan[<<n, m>>] \o pkts \in Seq(Pkt)
  BY ConcatProperties DEF Packets
<1> QED BY <1>1 DEF Packets, Send

(* so does reading one *)
LEMMA ConsumeType ==
  ASSUME Packets, NEW n \in Node, NEW m \in Node, NEW typ, Receives(n, m, typ), Consume(n, m)
  PROVE  Packets'
BY HeadType DEF Packets, Consume

(* and answering it, *)
LEMMA ReplyType ==
  ASSUME Packets, NEW n \in Node, NEW m \in Node, NEW typ, Receives(n, m, typ),
         NEW pkts \in Seq(Pkt), Reply(n, m, pkts)
  PROVE  Packets'
<1>1. Tail(chan[<<n, m>>]) \in Seq(Pkt)
  BY HeadType
<1>2. chan[<<m, n>>] \o pkts \in Seq(Pkt) /\ Tail(chan[<<n, m>>]) \o pkts \in Seq(Pkt)
  BY <1>1, ConcatProperties DEF Packets
<1> QED BY <1>1, <1>2 DEF Packets, Reply

(* and a connection that goes down. *)
LEMMA DownType ==
  ASSUME Packets, NEW l, Down(l)
  PROVE  Packets'
<1>1. <<>> \in Seq(Pkt)
  BY EmptySeq
<1> QED BY <1>1 DEF Packets, Down

(* Steps that change neither the replicas nor the handlers. *)
LEMMA KeptStore ==
  ASSUME IInv, UNCHANGED <<stored, handlers>>, Packets',
         state' \in [Node -> SUBSET Feed], \A n \in Node : state'[n] \subseteq keys[n],
         offs' \in [Node -> Nat], up' \subseteq Links
  PROVE  IInv'
<1>1. TypeOK'
  BY DEF IInv, TypeOK, stored
<1>2. Shape'
  BY DEF IInv, Shape, stored, handlers
<1>3. (\A n \in Node : Armed(n))'
  BY DEF IInv, Armed, AllNextEntries, AllNextChunks, NextEntry, NextChunk, Open,
         stored, handlers
<1> QED BY <1>1, <1>2, <1>3 DEF IInv

(* The tasks that advertise *)
LEMMA AdvertiseKeeps ==
  ASSUME IInv, NEW n \in Node, NEW m \in Node, Advertise(n, m)
  PROVE  IInv'
<1>1. CASE EntryAdv(n, m)
  <2>1. <<Want(n)>> \in Seq(Pkt)
    BY WantType DEF IInv, Pkt
  <2>2. Packets'
    BY <1>1, <2>1, SendType DEF EntryAdv, IInv
  <2>3. offs' \in [Node -> Nat]
    <3>1. keys[n] # {} => (offs[n] + 1) % Cardinality(keys[n]) \in Nat
      <4> DEFINE len == Cardinality(keys[n])
      <4>1. offs[n] + 1 \in Nat /\ (keys[n] # {} => len \in Nat \ {0})
        BY StoreTypes DEF IInv, Shape
      <4> HIDE DEF len
      <4>2. len \in Nat \ {0} => (offs[n] + 1) % len \in 0..len-1
        BY <4>1, ModRange
      <4>3. keys[n] # {} => (offs[n] + 1) % len \in Nat
        BY <4>1, <4>2
      <4> QED BY <4>3 DEF len
    <3> QED BY <1>1, <3>1 DEF EntryAdv, IInv, Shape
  <2> QED BY <1>1, <2>2, <2>3, KeptStore DEF EntryAdv, IInv, Shape, TypeOK
<1>2. CASE ChainAdv(n, m)
  <2>1. <<Chnk(n)>> \in Seq(Pkt)
    BY ChnkType DEF IInv, Pkt
  <2>2. Packets'
    BY <1>2, <2>1, SendType DEF ChainAdv, IInv
  <2> QED BY <1>2, <2>2, KeptStore DEF ChainAdv, IInv, Shape, TypeOK
<1>3. CASE GOsetAdv(n, m)
  <2>1. <<Claim(n)>> \in Seq(Pkt)
    BY <1>3, ClaimType DEF IInv, Pkt, GOsetAdv
  <2>2. Packets'
    BY <1>3, <2>1, SendType DEF GOsetAdv, IInv
  <2> QED BY <1>3, <2>2, KeptStore DEF GOsetAdv, IInv, Shape, TypeOK
<1> QED BY <1>1, <1>2, <1>3 DEF Advertise

(* and the handlers of the two vectors. *)
LEMMA RxRequestKeeps ==
  ASSUME IInv, NEW n \in Node, NEW m \in Node, NEW typ \in {"want", "chnk"},
         RxRequest(n, m, typ)
  PROVE  IInv'
<1> DEFINE pkt == Head(chan[<<n, m>>])
           answers == IF typ = "want" THEN WantAnswers(m, pkt) ELSE ChnkAnswers(m, pkt)
<1>1. Receives(n, m, typ) /\ pkt \in Pkt /\ pkt.typ = typ
  BY HeadType DEF RxRequest, IInv
<1>2. CASE Consume(n, m) /\ UNCHANGED up
  <2>1. Packets'
    BY <1>1, <1>2, ConsumeType DEF IInv
  <2> QED BY <1>2, <2>1, KeptStore DEF RxRequest, IInv, Shape, TypeOK
<1>3. CASE Down({n, m})
  <2>1. Packets' /\ up' \subseteq Links
    BY <1>3, DownType DEF IInv, TypeOK, Down
  <2> QED BY <2>1, KeptStore DEF RxRequest, IInv, Shape, TypeOK
<1>4. CASE ~Fails(m, pkt) /\ Reply(n, m, answers) /\ UNCHANGED up
  <2>1. ASSUME typ = "want" PROVE answers \in Seq(Pkt)
    <3>1. pkt \in WantPkt
      BY <1>1, <2>1 DEF Pkt, WantPkt, ChnkPkt, ClaimPkt, EntryPkt, ChunkPkt
    <3>2. EntryPkt \subseteq Pkt
      BY DEF Pkt
    <3>3. answers \in Seq(EntryPkt)
      <4> HIDE DEF pkt
      <4> QED BY <1>4, <2>1, <3>1, WantAnswersType DEF IInv
    <3> HIDE DEF answers
    <3> QED BY <3>2, <3>3, SeqSub
  <2>2. ASSUME typ = "chnk" PROVE answers \in Seq(Pkt)
    <3>1. pkt \in ChnkPkt
      BY <1>1, <2>2 DEF Pkt, WantPkt, ChnkPkt, ClaimPkt, EntryPkt, ChunkPkt
    <3>2. ChunkPkt \subseteq Pkt
      BY DEF Pkt
    <3>3. answers \in Seq(ChunkPkt)
      <4> HIDE DEF pkt
      <4> QED BY <1>4, <2>2, <3>1, ChnkAnswersType DEF IInv
    <3> HIDE DEF answers
    <3> QED BY <3>2, <3>3, SeqSub
  <2>3. answers \in Seq(Pkt)
    <3> HIDE DEF answers
    <3> QED BY <2>1, <2>2
  <2>4. Packets'
    <3> HIDE DEF answers
    <3> QED BY <1>1, <1>4, <2>3, ReplyType DEF IInv
  <2> QED BY <1>4, <2>4, KeptStore DEF RxRequest, IInv, Shape, TypeOK
<1> QED BY <1>2, <1>3, <1>4 DEF RxRequest
(* A node whose replicas and handlers a step leaves alone stays armed. *)
LEMMA OthersKept ==
  ASSUME IInv, NEW n \in Node,
         keys'[n] = keys[n], have'[n] = have[n], got'[n] = got[n],
         dmxt'[n] = dmxt[n], chkt'[n] = chkt[n]
  PROVE  Armed(n)'
BY DEF IInv, Armed, AllNextEntries, AllNextChunks, NextEntry, NextChunk, Open

(* The handler of an entry: the next entry of a feed is taken, the handler *)
(* of the one after it is armed and, if it has a chain, that of the chain. *)
LEMMA RxEntryKeeps ==
  ASSUME IInv, NEW n \in Node, NEW m \in Node, RxEntry(n, m)
  PROVE  IInv'
<1> DEFINE pkt == Head(chan[<<n, m>>])
<1>1. Receives(n, m, "entry") /\ pkt \in Pkt /\ pkt.typ = "entry"
  BY HeadType DEF RxEntry, IInv
<1>2. PICK f \in Feed, seq \in Nat \ {0} :
        f = pkt.fid /\ seq = pkt.seq /\ seq <= Len(Log[f])
  <2>1. pkt \in EntryPkt
    BY <1>1 DEF Pkt, WantPkt, ChnkPkt, ClaimPkt, EntryPkt, ChunkPkt
  <2> HIDE DEF pkt
  <2> QED BY <2>1 DEF EntryPkt
<1>3. Packets'
  BY <1>1, ConsumeType DEF RxEntry, IInv
<1>4. UNCHANGED <<keys, got, state, offs, up>>
  BY DEF RxEntry
<1>5. CASE <<f, seq>> \notin dmxt[m]
  <2>1. UNCHANGED <<have, handlers>>
    BY <1>2, <1>5 DEF RxEntry
  <2> QED BY <1>3, <1>4, <2>1, KeptStore DEF IInv, Shape, TypeOK, stored
<1>6. CASE <<f, seq>> \in dmxt[m]
  <2>1. /\ have' = [have EXCEPT ![m][f] = seq]
        /\ dmxt' = [dmxt EXCEPT ![m] = (@ \ {<<f, seq>>}) \union {<<f, seq + 1>>}]
        /\ chkt' = [chkt EXCEPT ![m] = @ \union
                      (IF Length[ChainOf(f, seq)] > 0
                         THEN {NextChunk(m, f, seq)} ELSE {})]
    BY <1>2, <1>6 DEF RxEntry
  <2> HIDE DEF pkt
  <2>2. /\ keys \in [Node -> SUBSET Feed] /\ have \in [Node -> [Feed -> Nat]]
        /\ dmxt \in [Node -> SUBSET (Feed \X (Nat \ {0}))]
        /\ chkt \in [Node -> SUBSET ChunkHandler]
    BY DEF IInv, Shape
  <2>3. f \in keys[m] /\ seq = have[m][f] + 1
    <3>1. <<f, seq>> \in AllNextEntries(m)
      BY <1>6 DEF IInv, Armed
    <3> QED BY <3>1 DEF AllNextEntries, NextEntry
  <2>4. Len(Log[f]) \in Nat /\ seq \in 1..Len(Log[f])
    BY <1>2, StoreTypes DEF IInv
  <2>5. Length[ChainOf(f, seq)] \in Nat /\ ChainOf(f, seq) \in DOMAIN Length
    BY <1>2, <2>4, StoreTypes DEF IInv, ChainOf
  <2>6. got[m][f][seq] = 0
    <3>1. seq > have[m][f]
      BY <1>2, <2>2, <2>3
    <3> QED BY <1>2, <2>4, <3>1 DEF IInv, TypeOK, IsStore
  <2>7. TypeOK'
    <3>1. ASSUME NEW k \in Node PROVE IsStore(keys[k], have'[k], got[k])
      <4>1. IsStore(keys[k], have[k], got[k])
        BY DEF IInv, TypeOK
      <4>2. CASE k # m
        BY <2>1, <2>2, <4>1, <4>2
      <4>3. CASE k = m
        <5> SUFFICES ASSUME NEW g \in Feed
                     PROVE  /\ have'[m][g] \in 0..Len(Log[g])
                            /\ g \notin keys[m] => have'[m][g] = 0
                            /\ \A s \in 1..Len(Log[g]) :
                                 /\ got[m][g][s] \in 0..Length[Log[g][s]]
                                 /\ s > have'[m][g] => got[m][g][s] = 0
          BY <4>1, <4>3 DEF IsStore
        <5>1. CASE g # f
          <6>1. have'[m][g] = have[m][g]
            BY <2>1, <2>2, <5>1
          <6> QED BY <4>1, <4>3, <6>1 DEF IsStore
        <5>2. CASE g = f
          <6>1. have'[m][g] = seq
            BY <1>2, <2>1, <2>2, <5>2
          <6>2. have[m][f] \in Nat
            BY <1>2, <2>2
          <6>3. \A s \in 1..Len(Log[f]) : s > seq => s > have[m][f]
            BY <2>3, <2>4, <6>2
          <6>4. seq \in 0..Len(Log[f])
            BY <2>4
          <6> QED BY <2>3, <4>1, <4>3, <5>2, <6>1, <6>3, <6>4 DEF IsStore
        <5> QED BY <5>1, <5>2
      <4> QED BY <4>2, <4>3
    <3> QED BY <1>4, <3>1 DEF IInv, TypeOK
  <2>8. have' \in [Node -> [Feed -> Nat]]
    BY <1>2, <2>1, <2>2
  <2>9. dmxt' \in [Node -> SUBSET (Feed \X (Nat \ {0}))]
    <3>1. <<f, seq + 1>> \in Feed \X (Nat \ {0})
      BY <1>2
    <3> QED BY <2>1, <2>2, <3>1
  <2>10. chkt' \in [Node -> SUBSET ChunkHandler]
    <3>1. NextChunk(m, f, seq) \in ChunkHandler
      BY <1>2, <2>5, <2>6 DEF NextChunk, Chunk, ChunkHandler, ChunkName
    <3> QED BY <2>1, <2>2, <3>1
  <2>11. Shape'
    BY <1>4, <2>8, <2>9, <2>10 DEF IInv, Shape
  <2>12. AllNextEntries(m)' = (AllNextEntries(m) \ {<<f, seq>>}) \union {<<f, seq + 1>>}
    <3>1. \A g \in Feed : have'[m][g] = IF g = f THEN seq ELSE have[m][g]
      BY <1>2, <2>1, <2>2
    <3>2. keys[m] \subseteq Feed
      BY <2>2
    <3>3. seq + 1 # seq
      BY <1>2
    <3>4. AllNextEntries(m)' = {<<g, have'[m][g] + 1>> : g \in keys[m]}
      BY <1>4 DEF AllNextEntries, NextEntry
    <3>5. AllNextEntries(m) = {<<g, have[m][g] + 1>> : g \in keys[m]}
      BY DEF AllNextEntries, NextEntry
    <3> QED BY <2>3, <3>1, <3>2, <3>3, <3>4, <3>5
  <2>13. AllNextChunks(m)' = AllNextChunks(m) \union
             (IF Length[ChainOf(f, seq)] > 0 THEN {NextChunk(m, f, seq)} ELSE {})
    <3>1. \A g \in Feed : g # f => Open(m, g)' = Open(m, g)
      <4> SUFFICES ASSUME NEW g \in Feed, g # f PROVE Open(m, g)' = Open(m, g)
        OBVIOUS
      <4>1. have'[m][g] = have[m][g]
        BY <2>1, <2>2
      <4> QED BY <1>4, <4>1 DEF Open
    <3>2. Open(m, f)' = Open(m, f) \union
                          (IF Length[ChainOf(f, seq)] > 0 THEN {seq} ELSE {})
      <4>1. have'[m][f] = seq
        BY <1>2, <2>1, <2>2
      <4>2. 1..seq = (1..have[m][f]) \union {seq}
        <5>1. have[m][f] \in Nat
          BY <1>2, <2>2
        <5> QED BY <2>3, <5>1
      <4>3. Open(m, f)' = {s \in 1..seq : got[m][f][s] < Length[ChainOf(f, s)]}
        BY <1>4, <4>1 DEF Open
      <4>4. Length[ChainOf(f, seq)] > 0 <=> got[m][f][seq] < Length[ChainOf(f, seq)]
        BY <2>5, <2>6
      <4> QED BY <4>2, <4>3, <4>4 DEF Open
    <3>3. AllNextChunks(m)' = UNION {{NextChunk(m, g, s) : s \in Open(m, g)'} : g \in keys[m]}
      BY <1>4 DEF AllNextChunks, NextChunk
    <3>4. keys[m] \subseteq Feed
      BY <2>2
    <3>5. ASSUME NEW x
          PROVE  x \in AllNextChunks(m)' <=>
                   \/ x \in AllNextChunks(m)
                   \/ Length[ChainOf(f, seq)] > 0 /\ x = NextChunk(m, f, seq)
      <4>1. x \in AllNextChunks(m)' <=>
              \E g \in keys[m] : \E s \in Open(m, g)' : x = NextChunk(m, g, s)
        BY <3>3
      <4>2. x \in AllNextChunks(m) <=>
              \E g \in keys[m] : \E s \in Open(m, g) : x = NextChunk(m, g, s)
        BY DEF AllNextChunks
      <4>3. \A s : s \in Open(m, f)' <=>
              s \in Open(m, f) \/ (Length[ChainOf(f, seq)] > 0 /\ s = seq)
        BY <3>2
      <4> QED BY <2>3, <3>1, <3>4, <4>1, <4>2, <4>3
    <3> QED BY <3>5
  <2>14. ASSUME NEW k \in Node PROVE Armed(k)'
    <3>1. CASE k # m
      BY <1>4, <2>1, <2>2, <3>1, OthersKept
    <3>2. CASE k = m
      <4>1. Armed(m)
        BY DEF IInv
      <4>2. dmxt'[m] = (dmxt[m] \ {<<f, seq>>}) \union {<<f, seq + 1>>}
        BY <2>1, <2>2
      <4>3. chkt'[m] = chkt[m] \union
               (IF Length[ChainOf(f, seq)] > 0 THEN {NextChunk(m, f, seq)} ELSE {})
        BY <2>1, <2>2
      <4>4. /\ dmxt'[m] \subseteq AllNextEntries(m)'
            /\ Role[m] # "out" => dmxt'[m] = AllNextEntries(m)'
        BY <2>12, <4>1, <4>2 DEF Armed
      <4>5. /\ chkt'[m] \subseteq AllNextChunks(m)'
            /\ Role[m] # "out" => chkt'[m] = AllNextChunks(m)'
        BY <2>13, <4>1, <4>3 DEF Armed
      <4> QED BY <3>2, <4>4, <4>5 DEF Armed
    <3> QED BY <3>1, <3>2
  <2> QED BY <1>3, <2>7, <2>11, <2>14 DEF IInv
<1> QED BY <1>5, <1>6

(* The handler of a chunk: every chain that waits for it goes on by one.   *)
LEMMA RxChunkKeeps ==
  ASSUME IInv, NEW n \in Node, NEW m \in Node, RxChunk(n, m)
  PROVE  IInv'
<1> DEFINE pkt == Head(chan[<<n, m>>])
<1>1. Receives(n, m, "chunk")
  BY DEF RxChunk
<1>2. Packets'
  BY <1>1, ConsumeType DEF RxChunk, IInv
<1>3. UNCHANGED <<keys, have, state, dmxt, offs, up>>
  BY DEF RxChunk
<1>4. PICK armed \in SUBSET chkt[m] :
        /\ \A h \in armed : h.hptr = pkt.hptr
        /\ \A h \in chkt[m] : h.hptr = pkt.hptr => h \in armed
        /\ got' = [got EXCEPT ![m] =
                     [f \in Feed |-> [seq \in DOMAIN @[f] |->
                        IF \E h \in armed : h.fid = f /\ h.seq = seq
                          THEN @[f][seq] + 1 ELSE @[f][seq]]]]
        /\ chkt' = [chkt EXCEPT ![m] = (@ \ armed) \union
                      {h \in {[h EXCEPT !.hptr = <<@[1], @[2] + 1>>] : h \in armed} :
                         h.hptr[2] < Length[h.hptr[1]]}]
  BY DEF RxChunk
<1> HIDE DEF pkt
<1>5. /\ keys \in [Node -> SUBSET Feed] /\ have \in [Node -> [Feed -> Nat]]
      /\ got \in [Node -> Counts]
      /\ chkt \in [Node -> SUBSET ChunkHandler]
  BY DEF IInv, Shape
(* What is armed belongs to a chain that is open.                          *)
<1>6. ASSUME NEW h \in chkt[m]
      PROVE  /\ h \in ChunkHandler /\ h.fid \in keys[m] /\ h.fid \in Feed
             /\ h.seq \in Open(m, h.fid) /\ h = NextChunk(m, h.fid, h.seq)
  <2>1. h \in AllNextChunks(m) /\ h \in ChunkHandler
    BY <1>5 DEF IInv, Armed
  <2>2. PICK f \in keys[m] : \E seq \in Open(m, f) : h = NextChunk(m, f, seq)
    BY <2>1 DEF AllNextChunks
  <2>3. PICK seq \in Open(m, f) : h = NextChunk(m, f, seq)
    BY <2>2
  <2>4. h.fid = f /\ h.seq = seq
    BY <2>3 DEF NextChunk
  <2> QED BY <1>5, <2>1, <2>3, <2>4
<1> DEFINE waits(f, seq) == \E h \in armed : h.fid = f /\ h.seq = seq
<1>7. ASSUME NEW f, NEW seq
      PROVE  waits(f, seq) <=> f \in keys[m] /\ seq \in Open(m, f) /\ NextChunk(m, f, seq) \in armed
  <2>1. waits(f, seq) => f \in keys[m] /\ seq \in Open(m, f) /\ NextChunk(m, f, seq) \in armed
    BY <1>4, <1>6
  <2>2. NextChunk(m, f, seq) \in armed => waits(f, seq)
    <3>1. NextChunk(m, f, seq).fid = f /\ NextChunk(m, f, seq).seq = seq
      BY DEF NextChunk
    <3> QED BY <3>1
  <2> QED BY <2>1, <2>2
<1>8. ASSUME NEW f \in Feed
      PROVE  /\ Len(Log[f]) \in Nat /\ got[m][f] \in [1..Len(Log[f]) -> Nat]
             /\ have[m][f] \in 0..Len(Log[f])
             /\ \A seq \in 1..Len(Log[f]) : Length[ChainOf(f, seq)] \in Nat
             /\ Open(m, f) \subseteq 1..Len(Log[f])
  <2>1. /\ Len(Log[f]) \in Nat /\ got[m][f] \in [1..Len(Log[f]) -> Nat]
        /\ have[m][f] \in 0..Len(Log[f])
        /\ \A seq \in 1..Len(Log[f]) : Length[ChainOf(f, seq)] \in Nat
    BY StoreTypes DEF IInv, ChainOf
  <2>2. Open(m, f) \subseteq 1..have[m][f]
    BY DEF Open
  <2>3. 1..have[m][f] \subseteq 1..Len(Log[f])
    BY <2>1
  <2> QED BY <2>1, <2>2, <2>3
<1>9. ASSUME NEW f \in Feed
      PROVE  /\ got'[m][f] \in [1..Len(Log[f]) -> Nat]
             /\ \A seq \in 1..Len(Log[f]) :
                  got'[m][f][seq] = IF waits(f, seq) THEN got[m][f][seq] + 1 ELSE got[m][f][seq]
  <2>1. got'[m][f] = [seq \in DOMAIN got[m][f] |->
                        IF waits(f, seq) THEN got[m][f][seq] + 1 ELSE got[m][f][seq]]
    BY <1>4, <1>5
  <2> HIDE DEF waits
  <2> QED BY <1>8, <2>1
<1>10. \A k \in Node : k # m => got'[k] = got[k] /\ chkt'[k] = chkt[k]
  BY <1>4, <1>5
<1>11. ASSUME NEW f \in Feed, NEW seq \in 1..Len(Log[f])
       PROVE  got'[m][f][seq] \in 0..Length[ChainOf(f, seq)]
              /\ (seq > have[m][f] => got'[m][f][seq] = 0)
  <2>1. /\ got[m][f][seq] \in 0..Length[ChainOf(f, seq)]
        /\ seq > have[m][f] => got[m][f][seq] = 0
    BY DEF IInv, TypeOK, IsStore, ChainOf
  <2>2. CASE ~waits(f, seq)
    BY <1>9, <2>1, <2>2
  <2>3. CASE waits(f, seq)
    <3>1. seq \in Open(m, f)
      BY <1>7, <2>3
    <3>2. got'[m][f][seq] = got[m][f][seq] + 1
      BY <1>9, <2>3
    <3>3. seq <= have[m][f] /\ got[m][f][seq] < Length[ChainOf(f, seq)]
      BY <1>8, <3>1 DEF Open
    <3>4. Length[ChainOf(f, seq)] \in Nat /\ have[m][f] \in Nat
      BY <1>5, <1>8
    <3> HIDE DEF waits
    <3> QED BY <2>1, <3>2, <3>3, <3>4
  <2> QED BY <2>2, <2>3
<1>12. TypeOK'
  <2>1. ASSUME NEW k \in Node PROVE IsStore(keys[k], have[k], got'[k])
    <3>1. IsStore(keys[k], have[k], got[k])
      BY DEF IInv, TypeOK
    <3>2. CASE k # m
      BY <1>10, <3>1, <3>2
    <3>3. CASE k = m
      BY <1>11, <3>1, <3>3 DEF IsStore, ChainOf
    <3> QED BY <3>2, <3>3
  <2> QED BY <1>3, <2>1 DEF IInv, TypeOK
(* The next chunk of a chain that waited *)
<1> DEFINE after(f, seq) ==
             [hptr |-> Chunk(f, seq, got[m][f][seq] + 1), fid |-> f, seq |-> seq]
           next == {[h EXCEPT !.hptr = <<@[1], @[2] + 1>>] : h \in armed}
<1>13. ASSUME NEW h \in armed
       PROVE  [h EXCEPT !.hptr = <<@[1], @[2] + 1>>] = after(h.fid, h.seq)
  <2>1. h = NextChunk(m, h.fid, h.seq)
    BY <1>4, <1>6
  <2> DEFINE f == h.fid
             seq == h.seq
  <2>2. h = [hptr |-> <<ChainOf(f, seq), got[m][f][seq]>>, fid |-> f, seq |-> seq]
    BY <2>1 DEF NextChunk, Chunk
  <2> HIDE DEF f, seq
  <2> QED BY <2>2 DEF f, seq, Chunk
<1>14. chkt'[m] = (chkt[m] \ armed) \union {x \in next : x.hptr[2] < Length[x.hptr[1]]}
  BY <1>4, <1>5
<1>15. ASSUME NEW x
       PROVE  x \in chkt'[m] <=>
                \/ x \in chkt[m] /\ x \notin armed
                \/ \E h \in armed : /\ x = after(h.fid, h.seq)
                                    /\ got[m][h.fid][h.seq] + 1 < Length[ChainOf(h.fid, h.seq)]
  <2>1. x \in next <=> \E h \in armed : x = after(h.fid, h.seq)
    BY <1>13
  <2>2. \A f, seq : /\ after(f, seq).hptr[1] = ChainOf(f, seq)
                    /\ after(f, seq).hptr[2] = got[m][f][seq] + 1
    BY DEF Chunk
  <2> HIDE DEF next, after
  <2> QED BY <1>14, <2>1, <2>2
<1>16. Shape'
  <2>1. got' \in [Node -> Counts]
    <3>1. got'[m] \in Counts
      <4>1. got'[m] \in [Feed -> Seq(Nat)]
        <5>1. DOMAIN got'[m] = Feed /\ got'[m] = [f \in Feed |-> got'[m][f]]
          BY <1>4, <1>5
        <5>2. ASSUME NEW f \in Feed PROVE got'[m][f] \in Seq(Nat)
          <6>1. got'[m][f] \in [1..Len(Log[f]) -> Nat] /\ Len(Log[f]) \in Nat
            BY <1>8, <1>9
          <6> QED BY <6>1
        <5> QED BY <5>1, <5>2
      <4>2. \A f \in Feed : Len(got'[m][f]) = Len(Log[f])
        <5> SUFFICES ASSUME NEW f \in Feed PROVE Len(got'[m][f]) = Len(Log[f])
          OBVIOUS
        <5>1. got'[m][f] \in [1..Len(Log[f]) -> Nat] /\ Len(Log[f]) \in Nat
          BY <1>8, <1>9
        <5> QED BY <5>1
      <4> QED BY <4>1, <4>2 DEF Counts
    <3>2. got' = [got EXCEPT ![m] = got'[m]]
      BY <1>4, <1>5
    <3> QED BY <1>5, <3>1, <3>2
  <2>2. chkt' \in [Node -> SUBSET ChunkHandler]
    <3>1. chkt'[m] \subseteq ChunkHandler
      <4> SUFFICES ASSUME NEW h \in armed PROVE after(h.fid, h.seq) \in ChunkHandler
        BY <1>5, <1>15
      <4>1. h \in ChunkHandler /\ h = NextChunk(m, h.fid, h.seq)
        BY <1>4, <1>6
      <4>2. h.hptr \in ChunkName /\ h.fid \in Feed /\ h.seq \in Nat \ {0}
        BY <4>1 DEF ChunkHandler
      <4>3. h.hptr = <<ChainOf(h.fid, h.seq), got[m][h.fid][h.seq]>>
        BY <4>1 DEF NextChunk, Chunk
      <4> QED BY <4>2, <4>3 DEF ChunkHandler, ChunkName, Chunk
    <3>2. chkt' = [chkt EXCEPT ![m] = chkt'[m]]
      BY <1>4, <1>5
    <3> QED BY <1>5, <3>1, <3>2
  <2> QED BY <1>3, <2>1, <2>2 DEF IInv, Shape
(* The open chains afterwards, and what each of them waits for             *)
<1>17. ASSUME NEW x
       PROVE  x \in AllNextChunks(m)' <=>
                \E f \in keys[m] : \E seq \in Open(m, f) :
                  \/ ~waits(f, seq) /\ x = NextChunk(m, f, seq)
                  \/ /\ waits(f, seq) /\ x = after(f, seq)
                     /\ got[m][f][seq] + 1 < Length[ChainOf(f, seq)]
  <2>1. x \in AllNextChunks(m)' <=>
          \E f \in keys[m] : \E seq \in 1..have[m][f] :
            /\ got'[m][f][seq] < Length[ChainOf(f, seq)]
            /\ x = [hptr |-> Chunk(f, seq, got'[m][f][seq]), fid |-> f, seq |-> seq]
    BY <1>3 DEF AllNextChunks, NextChunk, Open, Chunk
  <2>2. ASSUME NEW f \in keys[m], NEW seq \in 1..have[m][f]
        PROVE  (/\ got'[m][f][seq] < Length[ChainOf(f, seq)]
                /\ x = [hptr |-> Chunk(f, seq, got'[m][f][seq]), fid |-> f, seq |-> seq])
               <=> /\ seq \in Open(m, f)
                   /\ \/ ~waits(f, seq) /\ x = NextChunk(m, f, seq)
                      \/ /\ waits(f, seq) /\ x = after(f, seq)
                         /\ got[m][f][seq] + 1 < Length[ChainOf(f, seq)]
    <3>1. f \in Feed
      BY <1>5
    <3>2. seq \in 1..Len(Log[f])
      BY <1>8, <3>1
    <3>3. got'[m][f][seq] = IF waits(f, seq) THEN got[m][f][seq] + 1 ELSE got[m][f][seq]
      BY <1>9, <3>1, <3>2
    <3>4. seq \in Open(m, f) <=> got[m][f][seq] < Length[ChainOf(f, seq)]
      BY DEF Open
    <3>5. waits(f, seq) => seq \in Open(m, f)
      BY <1>7
    <3>6. NextChunk(m, f, seq) = [hptr |-> Chunk(f, seq, got[m][f][seq]), fid |-> f, seq |-> seq]
      BY DEF NextChunk
    <3> HIDE DEF waits
    <3> QED BY <3>3, <3>4, <3>5, <3>6
  <2>3. \A f \in keys[m] : Open(m, f) \subseteq 1..have[m][f]
    BY DEF Open
  <2> HIDE DEF waits, after
  <2> QED BY <2>1, <2>2, <2>3
<1>18. ASSUME NEW k \in Node PROVE Armed(k)'
  <2>1. CASE k # m
    BY <1>3, <1>10, <2>1, OthersKept
  <2>2. CASE k = m
    <3>1. dmxt'[m] \subseteq AllNextEntries(m)'
          /\ (Role[m] # "out" => dmxt'[m] = AllNextEntries(m)')
      BY <1>3 DEF IInv, Armed, AllNextEntries, NextEntry
    <3>2. ASSUME NEW x \in chkt'[m] PROVE x \in AllNextChunks(m)'
      <4>1. CASE x \in chkt[m] /\ x \notin armed
        <5>1. x.fid \in keys[m] /\ x.seq \in Open(m, x.fid) /\ x = NextChunk(m, x.fid, x.seq)
          BY <1>6, <4>1
        <5>2. ~waits(x.fid, x.seq)
          BY <1>7, <4>1, <5>1
        <5> HIDE DEF waits, after
        <5> QED BY <1>17, <5>1, <5>2
      <4>2. ASSUME NEW h \in armed, x = after(h.fid, h.seq),
                   got[m][h.fid][h.seq] + 1 < Length[ChainOf(h.fid, h.seq)]
            PROVE  x \in AllNextChunks(m)'
        <5>1. h.fid \in keys[m] /\ h.seq \in Open(m, h.fid) /\ waits(h.fid, h.seq)
          BY <1>4, <1>6
        <5> HIDE DEF waits, after
        <5> QED BY <1>17, <4>2, <5>1
      <4> HIDE DEF waits, after
      <4> QED BY <1>15, <4>1, <4>2
    <3>3. ASSUME Role[m] # "out", NEW x, x \in AllNextChunks(m)' PROVE x \in chkt'[m]
      <4>1. chkt[m] = AllNextChunks(m)
        BY <3>3 DEF IInv, Armed
      <4>2. PICK f \in keys[m] : \E seq \in Open(m, f) :
                  \/ ~waits(f, seq) /\ x = NextChunk(m, f, seq)
                  \/ /\ waits(f, seq) /\ x = after(f, seq)
                     /\ got[m][f][seq] + 1 < Length[ChainOf(f, seq)]
        <5> HIDE DEF waits, after
        <5> QED BY <1>17, <3>3
      <4>3. PICK seq \in Open(m, f) :
                  \/ ~waits(f, seq) /\ x = NextChunk(m, f, seq)
                  \/ /\ waits(f, seq) /\ x = after(f, seq)
                     /\ got[m][f][seq] + 1 < Length[ChainOf(f, seq)]
        <5> HIDE DEF waits, after
        <5> QED BY <4>2
      <4>4. NextChunk(m, f, seq) \in chkt[m]
        BY <4>1 DEF AllNextChunks
      <4>5. CASE ~waits(f, seq) /\ x = NextChunk(m, f, seq)
        <5>1. NextChunk(m, f, seq) \notin armed
          <6> HIDE DEF waits
          <6> QED BY <1>7, <4>5
        <5> HIDE DEF waits, after
        <5> QED BY <1>15, <4>4, <4>5, <5>1
      <4>6. CASE /\ waits(f, seq) /\ x = after(f, seq)
                 /\ got[m][f][seq] + 1 < Length[ChainOf(f, seq)]
        <5>1. PICK h \in armed : h.fid = f /\ h.seq = seq
          BY <4>6
        <5> HIDE DEF waits, after
        <5> QED BY <1>15, <4>6, <5>1
      <4> HIDE DEF waits, after
      <4> QED BY <4>3, <4>5, <4>6
    <3> QED BY <2>2, <3>1, <3>2, <3>3 DEF Armed
  <2> QED BY <2>1, <2>2
<1> QED BY <1>2, <1>12, <1>16, <1>18 DEF IInv

(* New feed IDs: their replicas are empty, their first entries wanted.     *)
LEMMA RxClaimKeeps ==
  ASSUME IInv, NEW n \in Node, NEW m \in Node, RxClaim(n, m)
  PROVE  IInv'
<1> DEFINE pkt == Head(chan[<<n, m>>])
<1>1. Receives(n, m, "claim") /\ pkt \in Pkt /\ pkt.typ = "claim"
  BY HeadType DEF RxClaim, IInv
<1>2. pkt.ends \subseteq Feed
  <2>1. pkt \in ClaimPkt
    BY <1>1 DEF Pkt, WantPkt, ChnkPkt, ClaimPkt, EntryPkt, ChunkPkt
  <2> HIDE DEF pkt
  <2> QED BY <2>1 DEF ClaimPkt
<1>3. Packets'
  BY <1>1, ConsumeType DEF RxClaim, IInv
<1>4. PICK new \in SUBSET Feed :
        /\ new \cap keys[m] = {}
        /\ keys' = [keys EXCEPT ![m] = @ \union new]
        /\ dmxt' = [dmxt EXCEPT ![m] = @ \union {NextEntry(m, f) : f \in new}]
  <2>1. pkt.ends \ keys[m] \in SUBSET Feed
    BY <1>2
  <2> QED BY <2>1 DEF RxClaim
<1>5. UNCHANGED <<have, got, state, chkt, offs, up>>
  BY DEF RxClaim
<1> HIDE DEF pkt
<1>6. /\ keys \in [Node -> SUBSET Feed] /\ have \in [Node -> [Feed -> Nat]]
      /\ dmxt \in [Node -> SUBSET (Feed \X (Nat \ {0}))]
  BY DEF IInv, Shape
<1>7. keys'[m] = keys[m] \union new /\ \A k \in Node : k # m => keys'[k] = keys[k]
  BY <1>4, <1>6
<1>8. \A k \in Node : keys[k] \subseteq keys'[k]
  BY <1>7
<1>9. TypeOK'
  <2>1. ASSUME NEW k \in Node PROVE IsStore(keys'[k], have[k], got[k]) /\ state[k] \subseteq keys'[k]
    <3>1. IsStore(keys[k], have[k], got[k]) /\ state[k] \subseteq keys[k]
      BY DEF IInv, TypeOK
    <3>2. keys'[k] \subseteq Feed
      BY <1>4, <1>6
    <3> QED BY <1>8, <3>1, <3>2 DEF IsStore
  <2> QED BY <1>5, <2>1 DEF IInv, TypeOK
<1>10. Shape'
  <2>1. keys' \in [Node -> SUBSET Feed]
    BY <1>4, <1>6
  <2>2. \A f \in new : NextEntry(m, f) \in Feed \X (Nat \ {0})
    BY <1>6 DEF NextEntry
  <2>3. dmxt' \in [Node -> SUBSET (Feed \X (Nat \ {0}))]
    BY <1>4, <1>6, <2>2
  <2> QED BY <1>5, <2>1, <2>3 DEF IInv, Shape
<1>11. AllNextEntries(m)' = AllNextEntries(m) \union {NextEntry(m, f) : f \in new}
  BY <1>5, <1>7 DEF AllNextEntries, NextEntry
<1>12. AllNextChunks(m)' = AllNextChunks(m)
  <2>1. \A f \in new : have[m][f] = 0
    BY <1>4 DEF IInv, TypeOK, IsStore
  <2>2. \A f \in new : Open(m, f) = {}
    BY <2>1 DEF Open
  <2>3. AllNextChunks(m)' = UNION {{NextChunk(m, f, seq) : seq \in Open(m, f)} : f \in keys'[m]}
    BY <1>5 DEF AllNextChunks, NextChunk, Open
  <2> QED BY <1>7, <2>2, <2>3 DEF AllNextChunks
<1>13. ASSUME NEW k \in Node PROVE Armed(k)'
  <2>1. CASE k # m
    BY <1>4, <1>5, <1>6, <1>7, <2>1, OthersKept
  <2>2. CASE k = m
    <3>1. Armed(m)
      BY DEF IInv
    <3>2. dmxt'[m] = dmxt[m] \union {NextEntry(m, f) : f \in new}
      BY <1>4, <1>6
    <3>3. /\ dmxt'[m] \subseteq AllNextEntries(m)'
          /\ Role[m] # "out" => dmxt'[m] = AllNextEntries(m)'
      BY <1>11, <3>1, <3>2 DEF Armed
    <3>4. /\ chkt'[m] \subseteq AllNextChunks(m)'
          /\ Role[m] # "out" => chkt'[m] = AllNextChunks(m)'
      BY <1>5, <1>12, <3>1 DEF Armed
    <3> QED BY <2>2, <3>3, <3>4 DEF Armed
  <2> QED BY <2>1, <2>2
<1> QED BY <1>3, <1>9, <1>10, <1>13 DEF IInv

-----------------------------------------------------------------------------
(* All a node may want first has the type of a handler. *)
LEMMA AllNextTypes ==
  ASSUME TypeOK, keys \in [Node -> SUBSET Feed], have \in [Node -> [Feed -> Nat]],
         got \in [Node -> Counts], NEW n \in Node
  PROVE  /\ AllNextEntries(n) \subseteq Feed \X (Nat \ {0})
         /\ AllNextChunks(n) \subseteq ChunkHandler
<1>1. AllNextEntries(n) \subseteq Feed \X (Nat \ {0})
  BY DEF AllNextEntries, NextEntry
<1>2. ASSUME NEW f \in keys[n], NEW seq \in Open(n, f)
      PROVE  NextChunk(n, f, seq) \in ChunkHandler
  <2>1. f \in Feed
    OBVIOUS
  <2>2. Log[f] \in Seq(DOMAIN Length)
    BY <2>1, PubNodeAssumption
  <2>3. Len(Log[f]) \in Nat
    BY <2>2, LenProperties
  <2>4. have[n][f] \in 0..Len(Log[f]) /\ seq \in 1..have[n][f]
    BY <2>1 DEF TypeOK, IsStore, Open
  <2>5. seq \in 1..Len(Log[f])
    BY <2>3, <2>4
  <2>6. ChainOf(f, seq) \in DOMAIN Length
    BY <2>2, <2>5, ElementOfSeq DEF ChainOf
  <2>7. got[n][f] \in Seq(Nat) /\ Len(got[n][f]) = Len(Log[f])
    BY <2>1 DEF Counts
  <2>8. got[n][f][seq] \in Nat
    BY <2>5, <2>7, ElementOfSeq
  <2>9. seq \in Nat \ {0}
    BY <2>3, <2>5
  <2> QED BY <2>1, <2>6, <2>8, <2>9 DEF NextChunk, Chunk, ChunkHandler, ChunkName
<1> QED BY <1>1, <1>2 DEF AllNextChunks

(* A connection that breaks or comes up *)
LEMMA BreakKeeps ==
  ASSUME IInv, NEW l \in Links, Break(l) \/ Connect(l)
  PROVE  IInv'
<1>1. CASE Break(l)
  <2>1. Packets' /\ up' \subseteq Links
    BY <1>1, DownType DEF IInv, TypeOK, Break, Down
  <2> QED BY <1>1, <2>1, KeptStore DEF Break, IInv, Shape, TypeOK
<1>2. CASE Connect(l)
  <2>1. Packets' /\ up' \subseteq Links
    BY <1>2 DEF IInv, TypeOK, Connect, Packets
  <2> QED BY <1>2, <2>1, KeptStore DEF Connect, IInv, Shape, TypeOK
<1> QED BY <1>1, <1>2

(* and a process that starts again. *)
LEMMA RestartKeeps ==
  ASSUME IInv, NEW n \in Node, Restart(n)
  PROVE  IInv'
<1>1. UNCHANGED <<keys, have, got>> /\ up' \subseteq up
  BY DEF Restart, stored
<1>2. Packets'
  <2>1. <<>> \in Seq(Pkt)
    BY EmptySeq
  <2> QED BY <2>1 DEF IInv, Packets, Restart
<1>3. offs' \in [Node -> Nat]
  <2>1. Offsets(n) \subseteq Nat
    BY StoreTypes DEF Offsets, IInv
  <2> QED BY <2>1 DEF Restart, IInv, Shape
<1>4. state' \in [Node -> SUBSET Feed] /\ \A k \in Node : state'[k] \subseteq keys[k]
  BY DEF Restart, IInv, Shape, TypeOK
<1>5. TypeOK'
  BY <1>1, <1>3, <1>4 DEF IInv, TypeOK
<1>6. AllNextEntries(n) \subseteq Feed \X (Nat \ {0}) /\ AllNextChunks(n) \subseteq ChunkHandler
  BY AllNextTypes DEF IInv, Shape
<1>7. Shape'
  BY <1>1, <1>3, <1>4, <1>6 DEF IInv, Shape, Restart
<1>8. AllNextEntries(n)' = AllNextEntries(n) /\ AllNextChunks(n)' = AllNextChunks(n)
  BY <1>1 DEF AllNextEntries, NextEntry, AllNextChunks, NextChunk, Open
<1>9. ASSUME NEW k \in Node PROVE Armed(k)'
  <2>1. CASE k # n
    BY <1>1, <2>1, OthersKept DEF Restart, IInv, Shape
  <2>2. CASE k = n
    <3>1. /\ dmxt'[n] = IF Role[n] = "out" THEN {} ELSE AllNextEntries(n)
          /\ chkt'[n] = IF Role[n] = "out" THEN {} ELSE AllNextChunks(n)
      BY DEF Restart, IInv, Shape
    <3> QED BY <1>8, <2>2, <3>1 DEF Armed
  <2> QED BY <2>1, <2>2
<1> QED BY <1>2, <1>5, <1>7, <1>9 DEF IInv

(* The invariant holds at first. *)
LEMMA InitIInv == Init => IInv
<1> SUFFICES ASSUME Init PROVE IInv
  OBVIOUS
<1>1. \A n \in Node : /\ keys[n] = Stored[n].keys /\ have[n] = Stored[n].have
                      /\ got[n] = Stored[n].got /\ state[n] = keys[n]
  BY DEF Init
<1>2. \A n \in Node : /\ Stored[n].have \in [Feed -> Nat]
                      /\ IsStore(Stored[n].keys, Stored[n].have, Stored[n].got)
                      /\ Stored[n].got = [f \in Feed |-> [seq \in 1..Len(Log[f]) |-> Stored[n].got[f][seq]]]
  BY PubNodeAssumption
<1>3. \A n \in Node : IsStore(keys[n], have[n], got[n])
  BY <1>1, <1>2
<1>4. offs \in [Node -> Nat]
  <2>1. IsFiniteSet(Feed)
    BY PubNodeAssumption
  <2>2. Cardinality(Feed) \in Nat
    BY <2>1, FS_CardinalityType
  <2> DEFINE c == Cardinality(Feed)
  <2>3. offs \in [Node -> 0..c]
    BY DEF Init
  <2> HIDE DEF c
  <2>4. c \in Nat
    BY <2>2 DEF c
  <2> QED BY <2>3, <2>4
<1>5. keys \in [Node -> SUBSET Feed] /\ have \in [Node -> [Feed -> Nat]] /\ state = keys
  BY <1>2, <1>3 DEF Init, IsStore
<1>6. got \in [Node -> Counts]
  <2>1. ASSUME NEW n \in Node PROVE Stored[n].got \in Counts
    <3>1. ASSUME NEW f \in Feed
          PROVE  Stored[n].got[f] \in Seq(Nat) /\ Len(Stored[n].got[f]) = Len(Log[f])
      <4>1. Log[f] \in Seq(DOMAIN Length)
        BY PubNodeAssumption
      <4>2. Len(Log[f]) \in Nat
        BY <4>1, LenProperties
      <4>3. ASSUME NEW seq \in 1..Len(Log[f]) PROVE Stored[n].got[f][seq] \in Nat
        <5>1. Log[f][seq] \in DOMAIN Length
          BY <4>1, ElementOfSeq
        <5>2. Length[Log[f][seq]] \in Nat
          BY <5>1, PubNodeAssumption
        <5>3. Stored[n].got[f][seq] \in 0..Length[Log[f][seq]]
          BY <1>2 DEF IsStore
        <5> QED BY <5>2, <5>3
      <4>4. Stored[n].got[f] = [seq \in 1..Len(Log[f]) |-> Stored[n].got[f][seq]]
        BY <1>2
      <4>5. Stored[n].got[f] \in [1..Len(Log[f]) -> Nat]
        BY <4>3, <4>4
      <4> QED BY <4>2, <4>5
    <3>2. Stored[n].got \in [Feed -> Seq(Nat)]
      BY <1>2, <3>1
    <3> QED BY <3>1, <3>2 DEF Counts
  <2> QED BY <2>1 DEF Init
<1>7. TypeOK
  BY <1>3, <1>4, <1>5 DEF TypeOK, Init
<1>8. \A n \in Node : AllNextEntries(n) \subseteq Feed \X (Nat \ {0})
                      /\ AllNextChunks(n) \subseteq ChunkHandler
  BY <1>5, <1>6, <1>7, AllNextTypes
<1>9. Shape
  BY <1>4, <1>5, <1>6, <1>8 DEF Shape, Init
<1>10. Packets
  <2>1. <<>> \in Seq(Pkt)
    BY EmptySeq
  <2> QED BY <2>1 DEF Packets, Init
<1>11. \A n \in Node : Armed(n)
  BY DEF Armed, Init
<1> QED BY <1>7, <1>9, <1>10, <1>11 DEF IInv

(* Every step keeps it. *)
LEMMA NextIInv == IInv /\ [Next]_vars => IInv'
<1> SUFFICES ASSUME IInv, [Next]_vars PROVE IInv'
  OBVIOUS
<1>1. ASSUME NEW n \in Node, NEW m \in Node, Advertise(n, m) PROVE IInv'
  BY <1>1, AdvertiseKeeps
<1>2. ASSUME NEW n \in Node, NEW m \in Node, Rx(n, m) PROVE IInv'
  <2>1. CASE RxWant(n, m)
    BY <2>1, RxRequestKeeps DEF RxWant
  <2>2. CASE RxChnk(n, m)
    BY <2>2, RxRequestKeeps DEF RxChnk
  <2>3. CASE RxEntry(n, m)
    BY <2>3, RxEntryKeeps
  <2>4. CASE RxChunk(n, m)
    BY <2>4, RxChunkKeeps
  <2>5. CASE RxClaim(n, m)
    BY <2>5, RxClaimKeeps
  <2> QED BY <1>2, <2>1, <2>2, <2>3, <2>4, <2>5 DEF Rx
<1>3. ASSUME NEW l \in Links, Break(l) \/ Connect(l) PROVE IInv'
  BY <1>3, BreakKeeps
<1>4. ASSUME NEW n \in Node, Restart(n) PROVE IInv'
  BY <1>4, RestartKeeps
<1>5. CASE UNCHANGED vars
  <2>1. Packets'
    BY <1>5 DEF vars, IInv, Packets
  <2> QED BY <1>5, <2>1, KeptStore DEF vars, IInv, Shape, TypeOK
<1> QED BY <1>1, <1>2, <1>3, <1>4, <1>5 DEF Next

(* The inductive invariant holds of every behaviour. *)
THEOREM IInvHolds == Spec => []IInv
BY InitIInv, NextIInv, PTL DEF Spec

(* What a node stores is a prefix of each feed and of each side chain, as  *)
(* incoming_entry and incoming_chunk take packets that come in any order,  *)
(* twice, or not at all.                                                   *)
THEOREM TypeOKHolds == Spec => []TypeOK
<1>1. IInv => TypeOK
  BY DEF IInv
<1> QED BY <1>1, IInvHolds, PTL

(* The handlers are armed for exactly what the replicas have next, after   *)
(* every packet, new feed ID and restart.                                  *)
THEOREM HandlersMatchHolds == Spec => []HandlersMatch
<1>1. IInv => HandlersMatch
  BY DEF IInv, Armed, HandlersMatch
<1> QED BY <1>1, IInvHolds, PTL
=============================================================================
