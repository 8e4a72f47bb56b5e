---------------------------- MODULE EspNodeProofs ---------------------------
(***************************************************************************)
(* Proofs about an ESP32 node: for any feeds with any side chains, vectors *)
(* and rings of any length, and any number of power failures.              *)
(***************************************************************************)
EXTENDS EspNodeInv, OrderLemmas

-----------------------------------------------------------------------------
(***************************************************************************)
(* The lists of blbt.                                                      *)
(***************************************************************************)
Wait == Chain \X Seq(Nat)
For(W, rest) == {w[1] : w \in {v \in W : v[2] = rest}}

LEMMA ForIs ==
  ASSUME NEW W \in SUBSET Wait, NEW rest
  PROVE  \A c : c \in For(W, rest) <=> <<c, rest>> \in W
BY DEF For, Wait

(* A chain that is added is in the list for its rest, once. *)
LEMMA ArmOK ==
  ASSUME NEW W \in SUBSET Wait, NEW bt, ListsFor(bt, W), NEW f \in Feed, NEW s \in Nat,
         NEW rest \in Seq(Nat), <<<<f, s>>, rest>> \notin W
  PROVE  ListsFor(ArmBlb(bt, rest, f, s), W \union {<<<<f, s>>, rest>>})
<1> DEFINE c == <<f, s>>
           V == W \union {<<c, rest>>}
           l == IF rest \in DOMAIN bt THEN <<c>> \o bt[rest] ELSE <<c>>
           b == ArmBlb(bt, rest, f, s)
<1>1. c \in Chain /\ V \in SUBSET Wait
  BY DEF Chain, Wait
<1>2. /\ bt = [r \in DOMAIN bt |-> bt[r]] /\ DOMAIN bt = {w[2] : w \in W}
      /\ \A r \in DOMAIN bt : bt[r] \in Seq(Chain) /\ IsInjective(bt[r])
                              /\ ToSet(bt[r]) = For(W, r)
  BY DEF ListsFor, For
<1>3. b = [r \in DOMAIN bt \union {rest} |-> IF r # rest THEN bt[r] ELSE l]
  BY DEF ArmBlb
<1> HIDE DEF b
<1>4. DOMAIN b = {w[2] : w \in V}
  BY <1>2, <1>3
<1>5. \A r \in DOMAIN b : r # rest => b[r] = bt[r] /\ For(V, r) = For(W, r)
  BY <1>3 DEF For
<1>6. For(V, rest) = For(W, rest) \union {c}
  <2>1. \A x : <<x, rest>> \in V <=> <<x, rest>> \in W \/ x = c
    OBVIOUS
  <2> HIDE DEF V, c
  <2> QED BY <1>1, <2>1, ForIs
<1>7. l \in Seq(Chain) /\ IsInjective(l) /\ ToSet(l) = For(V, rest)
  <2>1. <<c>> \in Seq(Chain) /\ Len(<<c>>) = 1 /\ <<c>>[1] = c
    BY <1>1
  <2>2. CASE rest \in DOMAIN bt
    <3> DEFINE q == bt[rest]
               n == Len(q)
    <3>1. q \in Seq(Chain) /\ IsInjective(q) /\ ToSet(q) = For(W, rest) /\ n \in Nat
          /\ DOMAIN q = 1..n
      BY <1>2, <2>2, LenProperties
    <3>2. c \notin ToSet(q)
      BY <3>1, ForIs
    <3>3. l = <<c>> \o q
      BY <2>2
    <3> HIDE DEF q, l
    <3>4. /\ l \in Seq(Chain) /\ Len(l) = 1 + n
          /\ \A i \in 1..1+n : l[i] = IF i <= 1 THEN <<c>>[i] ELSE q[i-1]
      BY <2>1, <3>1, <3>3, ConcatProperties
    <3>5. DOMAIN l = 1..1+n
      BY <3>4, LenProperties
    <3>6. l[1] = c /\ \A i \in 2..1+n : l[i] = q[i-1] /\ i-1 \in 1..n
      <4> HIDE DEF n
      <4> QED BY <3>1, <3>4, <2>1
    <3>7. \A i \in 1..1+n : i = 1 \/ i \in 2..1+n
      BY <3>1
    <3>8. \A i \in 1..n : q[i] # c
      BY <3>1, <3>2 DEF ToSet
    <3> HIDE DEF n, c
    <3>9. IsInjective(l)
      <4> SUFFICES ASSUME NEW i \in 1..1+n, NEW j \in 1..1+n, l[i] = l[j] PROVE i = j
        BY <3>5 DEF IsInjective
      <4>1. CASE i = 1 \/ j = 1
        BY <3>6, <3>7, <3>8, <4>1
      <4>2. CASE i # 1 /\ j # 1
        <5>1. i \in 2..1+n /\ j \in 2..1+n
          BY <3>7, <4>2
        <5>2. i-1 \in 1..n /\ j-1 \in 1..n /\ q[i-1] = q[j-1]
          BY <3>6, <5>1
        <5>3. i-1 = j-1
          BY <3>1, <5>2 DEF IsInjective
        <5> QED BY <3>1, <5>1, <5>3
      <4> QED BY <4>1, <4>2
    <3>10. ToSet(l) = ToSet(q) \union {c}
      <4>1. \A x \in ToSet(l) : x \in ToSet(q) \union {c}
        BY <3>1, <3>5, <3>6, <3>7 DEF ToSet
      <4>2. c \in ToSet(l)
        <5>1. 1 \in 1..1+n
          BY <3>1
        <5> QED BY <3>5, <3>6, <5>1 DEF ToSet
      <4>3. ASSUME NEW x \in ToSet(q) PROVE x \in ToSet(l)
        <5>1. PICK i \in 1..n : x = q[i]
          BY <3>1 DEF ToSet
        <5>2. i+1 \in 2..1+n /\ i+1 \in 1..1+n /\ (i+1)-1 = i
          BY <3>1
        <5>3. l[i+1] = q[i]
          BY <3>6, <5>2
        <5> QED BY <3>5, <5>1, <5>2, <5>3 DEF ToSet
      <4> QED BY <4>1, <4>2, <4>3
    <3> QED BY <1>6, <3>1, <3>4, <3>9, <3>10
  <2>3. CASE rest \notin DOMAIN bt
    <3>1. l = <<c>>
      BY <2>3
    <3>2. For(W, rest) = {}
      BY <1>2, <2>3 DEF For
    <3>3. For(V, rest) = {c}
      <4> HIDE DEF V
      <4> QED BY <1>6, <3>2
    <3> HIDE DEF c, l, V
    <3>4. IsInjective(l) /\ ToSet(l) = {c}
      BY <3>1 DEF IsInjective, ToSet
    <3> QED BY <2>1, <3>1, <3>3, <3>4
  <2> QED BY <2>2, <2>3
<1>8. ASSUME NEW r \in DOMAIN b
      PROVE  b[r] \in Seq(Chain) /\ IsInjective(b[r]) /\ ToSet(b[r]) = For(V, r)
  <2> HIDE DEF l, V
  <2>1. CASE r = rest
    <3>1. b[r] = l
      BY <1>3, <2>1
    <3> QED BY <1>7, <2>1, <3>1
  <2>2. CASE r # rest
    <3>1. r \in DOMAIN bt
      BY <1>3, <2>2
    <3> QED BY <1>2, <1>5, <2>2, <3>1
  <2> QED BY <2>1, <2>2
<1>9. b = [r \in DOMAIN b |-> b[r]]
  BY <1>3
<1> HIDE DEF V
<1>10. ListsFor(b, V)
  BY <1>4, <1>8, <1>9 DEF ListsFor, For
<1> QED BY <1>10 DEF b, V

(* When the list of a rest is removed nobody waits for it any more. *)
LEMMA DisarmOK ==
  ASSUME NEW W \in SUBSET Wait, NEW bt, ListsFor(bt, W), NEW rest
  PROVE  ListsFor(DisarmBlb(bt, rest), {w \in W : w[2] # rest})
<1> DEFINE V == {w \in W : w[2] # rest}
           b == DisarmBlb(bt, rest)
<1>1. b = [r \in DOMAIN bt \ {rest} |-> bt[r]]
  BY DEF DisarmBlb
<1>2. /\ bt = [r \in DOMAIN bt |-> bt[r]] /\ DOMAIN bt = {w[2] : w \in W}
      /\ \A r \in DOMAIN bt : bt[r] \in Seq(Chain) /\ IsInjective(bt[r])
                              /\ ToSet(bt[r]) = For(W, r)
  BY DEF ListsFor, For
<1>3. \A r : r # rest => For(V, r) = For(W, r)
  BY DEF For
<1>4. DOMAIN b = {w[2] : w \in V}
  BY <1>1, <1>2
<1> HIDE DEF b, V
<1>5. \A r \in DOMAIN b : b[r] \in Seq(Chain) /\ IsInjective(b[r]) /\ ToSet(b[r]) = For(V, r)
  BY <1>1, <1>2, <1>3
<1>6. b = [r \in DOMAIN b |-> b[r]]
  BY <1>1
<1>7. ListsFor(b, V)
  BY <1>4, <1>5, <1>6 DEF ListsFor, For
<1> QED BY <1>7 DEF b, V

-----------------------------------------------------------------------------
(***************************************************************************)
(* The loops over chains and feeds.                                        *)
(***************************************************************************)
WaitsOf(f, pend) == {<<<<f, s>>, pend[s].rest>> : s \in DOMAIN pend}

(* All the open chains of a feed that is new to the tables are added.      *)
LEMMA ArmChainsOK ==
  ASSUME NEW W \in SUBSET Wait, NEW bt, ListsFor(bt, W), NEW f \in Feed, NEW pend,
         DOMAIN pend \subseteq Nat, IsFiniteSet(DOMAIN pend),
         \A s \in DOMAIN pend : pend[s].rest \in Seq(Nat),
         \A w \in W : w[1][1] # f
  PROVE  /\ ListsFor(ArmChains(bt, f, pend), W \union WaitsOf(f, pend))
         /\ WaitsOf(f, pend) \in SUBSET Wait
<1> DEFINE n == Cardinality(DOMAIN pend)
           open == Keys(DOMAIN pend)
           Arm(b, i) == ArmBlb(b, pend[open[i]].rest, f, open[i])
           F(h) == [i \in 0..Len(open) |-> IF i = 0 THEN bt ELSE Arm(h[i-1], i)]
           Steps(k, h) == h[0] = bt /\ \A i \in 1..k : h[i] = Arm(h[i-1], i)
           armed == CHOOSE h : h = F(h)
           V(k) == W \union {<<<<f, open[j]>>, pend[open[j]].rest>> : j \in 1..k}
<1>1. /\ open \in Seq(DOMAIN pend) /\ Len(open) = n /\ n \in Nat
      /\ \A i, j \in 1..n : open[i] = open[j] => i = j
      /\ \A s \in DOMAIN pend : \E i \in 1..n : open[i] = s
  BY KeysSorted
<1>2. \A i \in 1..n : open[i] \in DOMAIN pend
  BY <1>1, ElementOfSeq
<1>3. ArmChains(bt, f, pend) = armed[Len(open)]
  BY DEF ArmChains
<1> HIDE DEF open, n
<1>4. \E h : Steps(n, h)
  <2> HIDE DEF Arm
  <2> DEFINE T == {k \in 0..n : ~ \E h : Steps(k, h)}
  <2> SUFFICES ASSUME T # {} PROVE FALSE
    <3>1. n \in 0..n
      BY <1>1
    <3> HIDE DEF Steps
    <3> QED BY <3>1
  <2>1. PICK k \in T : \A j \in T : k <= j
    <3>1. T \in SUBSET Nat
      OBVIOUS
    <3> HIDE DEF T
    <3> QED BY <3>1, LeastNat
  <2>2. k \in 0..n /\ ~ \E h : Steps(k, h)
    OBVIOUS
  <2>3. k # 0
    <3> DEFINE h == [i \in 0..n |-> bt]
    <3>1. Steps(0, h)
      BY <1>1
    <3> HIDE DEF Steps, h
    <3> QED BY <2>2, <3>1
  <2>4. k-1 \in 0..n /\ k-1 \notin T
    <3>1. k-1 \in 0..n /\ ~(k <= k-1)
      BY <1>1, <2>2, <2>3
    <3> HIDE DEF T
    <3> QED BY <2>1, <3>1
  <2>5. PICK h : Steps(k-1, h)
    BY <2>4
  <2> DEFINE g == [i \in 0..n |-> IF i = k THEN Arm(h[k-1], k) ELSE h[i]]
  <2>6. Steps(k, g)
    <3>1. g[0] = bt
      BY <1>1, <2>3, <2>5
    <3>2. ASSUME NEW i \in 1..k PROVE g[i] = Arm(g[i-1], i)
      <4>1. i \in 0..n /\ i-1 \in 0..n /\ i-1 # k
        BY <1>1, <2>2, <3>2
      <4>2. CASE i = k
        BY <4>1, <4>2
      <4>3. CASE i # k
        <5>1. i \in 1..k-1
          BY <2>2, <3>2, <4>3
        <5> QED BY <2>5, <4>1, <4>3, <5>1
      <4> QED BY <4>2, <4>3
    <3> QED BY <3>1, <3>2
  <2> HIDE DEF Steps, g
  <2> QED BY <2>2, <2>6
<1>5. Steps(n, armed)
  <2> HIDE DEF Arm
  <2>1. PICK h : Steps(n, h)
    BY <1>4
  <2> DEFINE g == [i \in 0..n |-> h[i]]
  <2>2. g = F(g)
    <3>1. \A i \in 0..n : i = 0 \/ (i \in 1..n /\ i-1 \in 0..n)
      BY <1>1
    <3>2. \A i \in 0..n : g[i] = IF i = 0 THEN bt ELSE Arm(g[i-1], i)
      BY <2>1, <3>1
    <3> QED BY <1>1, <3>2
  <2>3. armed = F(armed)
    <3> HIDE DEF F, g
    <3> QED BY <2>2
  <2> HIDE DEF armed
  <2>4. \A i \in 1..n : i \in 0..n /\ i # 0
    BY <1>1
  <2>5. 0 \in 0..n
    BY <1>1
  <2> QED BY <1>1, <2>3, <2>4, <2>5
<1> HIDE DEF armed
<1>6. \A k \in 0..n : V(k) \in SUBSET Wait
  BY <1>1, <1>2 DEF Wait, Chain
<1>7. \A k \in 0..n : ListsFor(armed[k], V(k))
  <2> DEFINE T == {k \in 0..n : ~ListsFor(armed[k], V(k))}
  <2> SUFFICES ASSUME T # {} PROVE FALSE
    OBVIOUS
  <2>1. PICK k \in T : \A j \in T : k <= j
    <3>1. T \in SUBSET Nat
      OBVIOUS
    <3> HIDE DEF T
    <3> QED BY <3>1, LeastNat
  <2>2. k \in 0..n /\ ~ListsFor(armed[k], V(k))
    OBVIOUS
  <2>3. k # 0
    <3>1. V(0) = W
      OBVIOUS
    <3>2. armed[0] = bt
      BY <1>5
    <3> HIDE DEF V
    <3> QED BY <2>2, <3>1, <3>2
  <2>4. k-1 \in 0..n /\ k-1 \notin T /\ k \in 1..n
    <3>1. k-1 \in 0..n /\ ~(k <= k-1) /\ k \in 1..n
      BY <1>1, <2>2, <2>3
    <3> HIDE DEF T
    <3> QED BY <2>1, <3>1
  <2>5. ListsFor(armed[k-1], V(k-1))
    BY <2>4
  <2> DEFINE s == open[k]
             rest == pend[s].rest
  <2>6. s \in DOMAIN pend /\ s \in Nat /\ rest \in Seq(Nat)
    BY <1>2, <2>4
  <2>7. <<<<f, s>>, rest>> \notin V(k-1)
    <3>1. <<<<f, s>>, rest>> \notin W
      OBVIOUS
    <3>2. \A j \in 1..k-1 : open[j] # s
      BY <1>1, <2>4
    <3> QED BY <3>1, <3>2
  <2>8. V(k) = V(k-1) \union {<<<<f, s>>, rest>>}
    <3>1. \A j : j \in 1..k <=> j \in 1..k-1 \/ j = k
      BY <2>4
    <3> QED BY <3>1
  <2>9. armed[k] = ArmBlb(armed[k-1], rest, f, s)
    BY <1>5, <2>4
  <2> HIDE DEF V, s, rest
  <2>10. ListsFor(armed[k], V(k))
    BY <1>6, <2>4, <2>5, <2>6, <2>7, <2>8, <2>9, ArmOK
  <2> QED BY <2>2, <2>10
<1>8. WaitsOf(f, pend) = {<<<<f, open[j]>>, pend[open[j]].rest>> : j \in 1..n}
  BY <1>1, <1>2 DEF WaitsOf
<1>9. n \in 0..n
  BY <1>1
<1>10. V(n) = W \union WaitsOf(f, pend)
  BY <1>8
<1> HIDE DEF V
<1> QED BY <1>1, <1>3, <1>6, <1>7, <1>9, <1>10

-----------------------------------------------------------------------------
(***************************************************************************)
(* One replica.                                                            *)
(***************************************************************************)
LEMMA LogIs ==
  ASSUME NEW f \in Feed
  PROVE  /\ f \in Nat /\ Log[f] \in Seq(Seq(Nat)) /\ Len(Log[f]) \in Nat
         /\ DOMAIN Log[f] = 1..Len(Log[f])
         /\ \A s \in 1..Len(Log[f]) : Log[f][s] \in Seq(Nat)
<1>1. f \in Nat /\ Log[f] \in Seq(Seq(Nat))
  BY LogAssumption
<1> QED BY <1>1, LenProperties, ElementOfSeq

LEMMA FrontierIs ==
  ASSUME NEW f \in Feed, NEW fr, FrontierOK(f, fr)
  PROVE  /\ fr = [seq |-> fr.seq, pos |-> fr.pos, pend |-> fr.pend]
         /\ fr.seq \in 0..Len(Log[f]) /\ fr.seq \in Nat /\ fr.pos \in Nat
         /\ DOMAIN fr.pend \subseteq 1..fr.seq /\ DOMAIN fr.pend \subseteq Nat
         /\ IsFiniteSet(DOMAIN fr.pend)
         /\ fr.pend = [s \in DOMAIN fr.pend |-> fr.pend[s]]
         /\ \A s \in DOMAIN fr.pend :
              /\ s \in 1..Len(Log[f])
              /\ fr.pend[s] = [cnr |-> fr.pend[s].cnr, rest |-> fr.pend[s].rest,
                               pos |-> fr.pend[s].pos]
              /\ fr.pend[s].cnr \in Nat /\ fr.pend[s].rest \in Seq(Nat) /\ fr.pend[s].pos \in Nat
              /\ fr.pend[s].cnr < Len(Log[f][s])
              /\ fr.pend[s].rest = SubSeq(Log[f][s], fr.pend[s].cnr + 1, Len(Log[f][s]))
<1>1. Len(Log[f]) \in Nat
  BY LogIs
<1>2. /\ fr = [seq |-> fr.seq, pos |-> fr.pos, pend |-> fr.pend]
      /\ fr.seq \in 0..Len(Log[f]) /\ fr.pos \in Nat
      /\ DOMAIN fr.pend \subseteq 1..fr.seq
      /\ fr.pend \in [DOMAIN fr.pend -> [cnr : Nat, rest : Seq(Nat), pos : Nat]]
  BY DEF FrontierOK
<1>3. fr.seq \in Nat /\ 1..fr.seq \subseteq 1..Len(Log[f]) /\ IsFiniteSet(1..fr.seq)
  BY <1>1, <1>2, FS_Interval
<1>4. IsFiniteSet(DOMAIN fr.pend)
  BY <1>2, <1>3, FS_Subset
<1>5. \A s \in DOMAIN fr.pend :
        fr.pend[s].cnr < Len(Log[f][s])
        /\ fr.pend[s].rest = SubSeq(Log[f][s], fr.pend[s].cnr + 1, Len(Log[f][s]))
  BY DEF FrontierOK
<1> QED BY <1>1, <1>2, <1>3, <1>4, <1>5

LEMMA PendIs ==
  ASSUME NEW f \in Feed, NEW fr, FrontierOK(f, fr), NEW s \in DOMAIN fr.pend
  PROVE  /\ fr.pend[s].cnr \in Nat /\ fr.pend[s].cnr < Len(Log[f][s]) /\ s \in 1..Len(Log[f])
         /\ fr.pend[s].rest = SubSeq(Log[f][s], fr.pend[s].cnr + 1, Len(Log[f][s]))
BY FrontierIs

(* What the constructor finds it saves. *)
LEMMA OpenedOK ==
  ASSUME NEW f \in Feed, NEW r, FrontierOK(f, Opened(r).mem)
  PROVE  Saved(f, Opened(r))
<1>1. PICK fr : Opened(r) = Persisted(r, r.log, fr)
  BY DEF Opened
<1>2. Opened(r) = [mem |-> fr, log |-> r.log, frt |-> {fr}, tmp |-> {}]
  BY <1>1 DEF Persisted
<1> HIDE DEF Opened
<1> QED BY <1>2 DEF Saved

LEMMA OpenedSame ==
  ASSUME NEW f \in Feed, NEW r, Saved(f, r)
  PROVE  Opened(r).mem = r.mem
<1>1. r.frt = {r.mem} /\ r.tmp = {}
  BY DEF Saved
<1>2. Opened(r) = Persisted(r, r.log, r.mem)
  BY <1>1 DEF Opened
<1> HIDE DEF Opened
<1> QED BY <1>2 DEF Persisted

LEMMA NewIsOK ==
  ASSUME NEW f \in Feed
  PROVE  FrontierOK(f, Opened(NewReplica).mem) /\ Opened(NewReplica).mem = NoEntries
<1>1. Opened(NewReplica).mem = NoEntries
  BY DEF Opened, NewReplica, Persisted
<1>2. DOMAIN <<>> = {} /\ Len(Log[f]) \in Nat
  BY LogIs
<1>3. FrontierOK(f, NoEntries)
  <2>1. NoEntries = [seq |-> 0, pos |-> 0, pend |-> <<>>]
    BY DEF NoEntries
  <2>2. <<>> \in [DOMAIN <<>> -> [cnr : Nat, rest : Seq(Nat), pos : Nat]]
    BY <1>2
  <2> QED BY <1>2, <2>1, <2>2 DEF FrontierOK
<1> QED BY <1>1, <1>3

(* The rest of a chain *)
LEMMA RestIs ==
  ASSUME NEW chain \in Seq(Nat), NEW c \in Nat, c < Len(chain)
  PROVE  LET rest == SubSeq(chain, c + 1, Len(chain)) IN
         /\ rest \in Seq(Nat) /\ rest # <<>> /\ Len(rest) = Len(chain) - c /\ Len(chain) \in Nat
         /\ Tail(rest) # rest
         /\ Tail(rest) = SubSeq(chain, c + 2, Len(chain)) /\ Tail(rest) \in Seq(Nat)
<1> DEFINE n == Len(chain)
           rest == SubSeq(chain, c + 1, n)
           next == SubSeq(chain, c + 2, n)
<1>1. n \in Nat /\ \A i \in 1..n : chain[i] \in Nat
  BY LenProperties, ElementOfSeq
<1> HIDE DEF n
<1>2. c < n
  BY DEF n
<1>3. c + 1 \in Int /\ c + 2 \in Int /\ n \in Int /\ c + 1 <= n
  BY <1>1, <1>2
<1>4. (\A i \in c+1..n : chain[i] \in Nat) /\ \A i \in c+2..n : chain[i] \in Nat
  BY <1>1
<1>5. /\ rest \in Seq(Nat) /\ Len(rest) = n-(c+1)+1
      /\ \A i \in 1..n-(c+1)+1 : rest[i] = chain[(c+1)+i-1]
  BY <1>3, <1>4, SubSeqProperties
<1>6. /\ next \in Seq(Nat) /\ Len(next) = IF c+2 <= n THEN n-(c+2)+1 ELSE 0
      /\ \A i \in 1..n-(c+2)+1 : next[i] = chain[(c+2)+i-1]
  BY <1>3, <1>4, SubSeqProperties
<1> HIDE DEF rest, next
<1>7. Len(rest) = n - c /\ rest # <<>>
  <2>1. Len(rest) = n - c /\ n - c # 0
    BY <1>1, <1>2, <1>5
  <2>2. Len(<<>>) = 0
    BY EmptySeq
  <2> QED BY <2>1, <2>2
<1>8. /\ Tail(rest) \in Seq(Nat) /\ Len(Tail(rest)) = Len(rest) - 1
      /\ \A i \in 1..Len(Tail(rest)) : Tail(rest)[i] = rest[i+1]
  BY <1>5, <1>7, HeadTailProperties
<1>9. Len(Tail(rest)) = n - c - 1 /\ Len(next) = n - c - 1
  BY <1>1, <1>2, <1>6, <1>7, <1>8
<1>10. \A i \in 1..n-c-1 : Tail(rest)[i] = next[i]
  <2> TAKE i \in 1..n-c-1
  <2>1. i \in 1..n-(c+2)+1 /\ i+1 \in 1..n-(c+1)+1 /\ i \in 1..Len(Tail(rest))
        /\ (c+1)+(i+1)-1 = (c+2)+i-1
    BY <1>1, <1>9
  <2>2. next[i] = chain[(c+2)+i-1] /\ rest[i+1] = chain[(c+1)+(i+1)-1]
        /\ Tail(rest)[i] = rest[i+1]
    BY <1>5, <1>6, <1>8, <2>1
  <2> QED BY <2>1, <2>2
<1>11. Tail(rest) = next
  BY <1>6, <1>8, <1>9, <1>10, SeqEqual
<1>12. Tail(rest) # rest
  BY <1>1, <1>7, <1>9
<1> QED BY <1>1, <1>5, <1>7, <1>8, <1>11, <1>12 DEF rest, next, n

(* What is taken of an entry and its side chain never gets less.           *)
TakenOf(f, fr, s) ==
  IF s > fr.seq THEN -1
  ELSE IF s \in DOMAIN fr.pend THEN fr.pend[s].cnr
  ELSE Len(Log[f][s])
Grows(f, a, b) == \A s \in DOMAIN Log[f] : TakenOf(f, a, s) <= TakenOf(f, b, s)

LEMMA TakenIs ==
  ASSUME NEW f \in Feed, NEW fr, FrontierOK(f, fr), NEW s \in DOMAIN Log[f]
  PROVE  TakenOf(f, fr, s) \in Int /\ -1 <= TakenOf(f, fr, s)
         /\ TakenOf(f, fr, s) <= Len(Log[f][s]) /\ Len(Log[f][s]) \in Nat
<1>1. Len(Log[f][s]) \in Nat /\ s \in Nat
  BY LogIs, LenProperties
<1>2. CASE s > fr.seq
  BY <1>1, <1>2 DEF TakenOf
<1>3. CASE ~(s > fr.seq) /\ s \in DOMAIN fr.pend
  <2>1. TakenOf(f, fr, s) = fr.pend[s].cnr
    BY <1>3 DEF TakenOf
  <2>2. fr.pend[s].cnr \in Nat /\ fr.pend[s].cnr < Len(Log[f][s])
    BY <1>3, FrontierIs
  <2> QED BY <1>1, <2>1, <2>2
<1>4. CASE ~(s > fr.seq) /\ s \notin DOMAIN fr.pend
  <2>1. TakenOf(f, fr, s) = Len(Log[f][s])
    BY <1>4 DEF TakenOf
  <2> QED BY <1>1, <2>1
<1> QED BY <1>2, <1>3, <1>4

LEMMA GrowsRefl ==
  ASSUME NEW f \in Feed, NEW a, FrontierOK(f, a)
  PROVE  Grows(f, a, a)
<1> SUFFICES ASSUME NEW s \in DOMAIN Log[f] PROVE TakenOf(f, a, s) <= TakenOf(f, a, s)
  BY DEF Grows
<1>1. TakenOf(f, a, s) \in Int
  BY TakenIs
<1> QED BY <1>1

LEMMA GrowsTrans ==
  ASSUME NEW f \in Feed, NEW a, NEW b, NEW c, FrontierOK(f, a), FrontierOK(f, b),
         FrontierOK(f, c), Grows(f, a, b), Grows(f, b, c)
  PROVE  Grows(f, a, c)
<1> SUFFICES ASSUME NEW s \in DOMAIN Log[f] PROVE TakenOf(f, a, s) <= TakenOf(f, c, s)
  BY DEF Grows
<1>1. TakenOf(f, a, s) \in Int /\ TakenOf(f, b, s) \in Int /\ TakenOf(f, c, s) \in Int
  BY TakenIs
<1>2. TakenOf(f, a, s) <= TakenOf(f, b, s) /\ TakenOf(f, b, s) <= TakenOf(f, c, s)
  BY DEF Grows
<1> QED BY <1>1, <1>2

(* The next entry is taken with nothing of its side chain.                 *)
LEMMA EntryOK ==
  ASSUME NEW f \in Feed, NEW r, Saved(f, r), NEW s, s = r.mem.seq + 1, s \in DOMAIN Log[f]
  PROVE  LET q == IngestEntry(r, s, Log[f][s])
             old == r.mem.pend
             new == q.mem.pend
         IN /\ Saved(f, q) /\ q.mem.seq = s /\ Grows(f, r.mem, q.mem)
            /\ s \notin DOMAIN old
            /\ Log[f][s] = <<>> => new = old
            /\ Log[f][s] # <<>> =>
                 /\ DOMAIN new = DOMAIN old \union {s}
                 /\ new[s].rest = Log[f][s]
                 /\ \A i \in DOMAIN old : new[i] = old[i]
<1> DEFINE q == IngestEntry(r, s, Log[f][s])
           m == r.mem
           old == m.pend
           new == q.mem.pend
           chain == Log[f][s]
           end == EntryLen * (Len(chain) + 1)
           fr == q.mem
<1>1. FrontierOK(f, m)
  BY DEF Saved
<1>2. /\ m.seq \in Nat /\ m.pos \in Nat /\ DOMAIN old \subseteq 1..m.seq
      /\ old = [i \in DOMAIN old |-> old[i]]
  BY <1>1, FrontierIs
<1>3. s \in 1..Len(Log[f]) /\ chain \in Seq(Nat) /\ Len(chain) \in Nat /\ Len(Log[f]) \in Nat
  BY LogIs, LenProperties
<1>4. s \notin DOMAIN old
  BY <1>2, <1>3
<1>5. PICK log : q = Persisted(r, log,
            [seq |-> s, pos |-> m.pos + end + PtrLen,
             pend |-> IF chain = <<>> THEN old
                      ELSE [i \in DOMAIN old \union {s} |->
                              IF i = s THEN [cnr |-> 0, rest |-> chain,
                                             pos |-> m.pos + EntryLen]
                                       ELSE old[i]]])
  BY DEF IngestEntry
<1>6. /\ q = [mem |-> fr, log |-> log, frt |-> {fr}, tmp |-> {}]
      /\ fr = [seq |-> s, pos |-> m.pos + end + PtrLen, pend |-> new]
      /\ new = IF chain = <<>> THEN old
               ELSE [i \in DOMAIN old \union {s} |->
                       IF i = s THEN [cnr |-> 0, rest |-> chain,
                                      pos |-> m.pos + EntryLen]
                                ELSE old[i]]
  <2> HIDE DEF q, end
  <2> QED BY <1>5 DEF Persisted
<1> HIDE DEF q
<1>7. fr.seq = s /\ fr.pos \in Nat /\ m.pos + EntryLen \in Nat
  <2>1. fr.seq = s /\ fr.pos = m.pos + end + PtrLen
    <3> HIDE DEF end, new
    <3> QED BY <1>6
  <2> DEFINE n == Len(chain)
             p == m.pos
  <2>2. n \in Nat /\ p \in Nat
    BY <1>2, <1>3
  <2> HIDE DEF n, p, fr
  <2>3. p + EntryLen * (n + 1) + PtrLen \in Nat /\ p + EntryLen \in Nat
    BY <2>2 DEF EntryLen, PtrLen
  <2> QED BY <2>1, <2>3 DEF n, p
<1>8. chain = <<>> => new = old
  BY <1>6
<1>9. chain # <<>> =>
        /\ DOMAIN new = DOMAIN old \union {s}
        /\ new[s] = [cnr |-> 0, rest |-> chain, pos |-> m.pos + EntryLen]
        /\ \A i \in DOMAIN old : new[i] = old[i]
        /\ new = [i \in DOMAIN new |-> new[i]]
  BY <1>4, <1>6
<1>10. chain # <<>> => 0 < Len(chain) /\ chain = SubSeq(chain, 0+1, Len(chain))
  <2> SUFFICES ASSUME chain # <<>> PROVE 0 < Len(chain) /\ chain = SubSeq(chain, 1, Len(chain))
    OBVIOUS
  <2>1. Len(chain) # 0
    BY <1>3, EmptySeq
  <2>2. 0 < Len(chain)
    BY <1>3, <2>1
  <2> QED BY <1>3, <2>2
<1>11. \A i \in DOMAIN new :
         /\ i \in 1..s
         /\ new[i] \in [cnr : Nat, rest : Seq(Nat), pos : Nat]
         /\ new[i].cnr < Len(Log[f][i])
         /\ new[i].rest = SubSeq(Log[f][i], new[i].cnr + 1, Len(Log[f][i]))
  <2> TAKE i \in DOMAIN new
  <2>1. CASE i \in DOMAIN old /\ new[i] = old[i]
    <3>1. i \in 1..s
      BY <1>2, <2>1
    <3>2. /\ old[i] \in [cnr : Nat, rest : Seq(Nat), pos : Nat]
          /\ old[i].cnr < Len(Log[f][i])
          /\ old[i].rest = SubSeq(Log[f][i], old[i].cnr + 1, Len(Log[f][i]))
      BY <1>1, <2>1 DEF FrontierOK
    <3> QED BY <2>1, <3>1, <3>2
  <2>2. CASE chain # <<>> /\ i = s
    <3>1. i \in 1..s
      BY <1>3, <2>2
    <3>2. new[i] = [cnr |-> 0, rest |-> chain, pos |-> m.pos + EntryLen]
      BY <1>9, <2>2
    <3>3. new[i].cnr = 0 /\ new[i].rest = chain
          /\ new[i] \in [cnr : Nat, rest : Seq(Nat), pos : Nat]
      BY <1>3, <1>7, <3>2
    <3> QED BY <1>10, <2>2, <3>1, <3>3
  <2> QED BY <1>8, <1>9, <2>1, <2>2
<1>12. FrontierOK(f, fr)
  <2>1. new = [i \in DOMAIN new |-> new[i]]
    BY <1>2, <1>8, <1>9
  <2>2. new \in [DOMAIN new -> [cnr : Nat, rest : Seq(Nat), pos : Nat]]
    <3>1. \A i \in DOMAIN new : new[i] \in [cnr : Nat, rest : Seq(Nat), pos : Nat]
      BY <1>11
    <3> HIDE DEF new
    <3> QED BY <2>1, <3>1
  <2>3. fr = [seq |-> fr.seq, pos |-> fr.pos, pend |-> fr.pend]
    BY <1>6
  <2>4. fr.seq \in 0..Len(Log[f]) /\ DOMAIN new \subseteq 1..fr.seq
    BY <1>3, <1>7, <1>11
  <2>5. fr.pend = new
    OBVIOUS
  <2> HIDE DEF fr, new
  <2> QED BY <1>7, <1>11, <2>2, <2>3, <2>4, <2>5 DEF FrontierOK
<1>13. Grows(f, m, fr)
  <2> SUFFICES ASSUME NEW i \in DOMAIN Log[f] PROVE TakenOf(f, m, i) <= TakenOf(f, fr, i)
    BY DEF Grows
  <2>1. /\ TakenOf(f, m, i) \in Int /\ TakenOf(f, fr, i) \in Int /\ -1 <= TakenOf(f, fr, i)
        /\ i \in Nat
    BY <1>1, <1>12, TakenIs, LogIs
  <2>2. CASE i = s
    <3>1. TakenOf(f, m, i) = -1
      BY <1>2, <2>2 DEF TakenOf
    <3> QED BY <2>1, <3>1
  <2>3. CASE i # s
    <3>1. i > m.seq <=> i > s
      BY <1>2, <2>1, <2>3
    <3>2. i \in DOMAIN old <=> i \in DOMAIN new
      BY <1>8, <1>9, <2>3
    <3>3. i \in DOMAIN old => old[i] = new[i]
      BY <1>8, <1>9
    <3>4. TakenOf(f, m, i) = TakenOf(f, fr, i)
      BY <1>7, <3>1, <3>2, <3>3 DEF TakenOf
    <3> QED BY <2>1, <3>4
  <2> QED BY <2>2, <2>3
<1>14. Saved(f, q)
  BY <1>6, <1>12 DEF Saved
<1>15. chain # <<>> => new[s].rest = chain
  BY <1>9
<1> HIDE DEF new, old
<1>16. /\ Saved(f, q) /\ q.mem.seq = s /\ Grows(f, r.mem, q.mem)
       /\ s \notin DOMAIN old
       /\ Log[f][s] = <<>> => new = old
       /\ Log[f][s] # <<>> =>
            /\ DOMAIN new = DOMAIN old \union {s}
            /\ new[s].rest = Log[f][s]
            /\ \A i \in DOMAIN old : new[i] = old[i]
  BY <1>4, <1>7, <1>8, <1>9, <1>13, <1>14, <1>15
<1> QED BY <1>16 DEF q, new, old

(* A chunk is taken by a chain that waits for it: the chain waits for the  *)
(* rest behind it, or it is complete.                                      *)
ChunkTaken(f, r, q, s, rest) ==
  LET old == r.mem.pend
      new == q.mem.pend
  IN /\ Saved(f, q) /\ q.mem.seq = r.mem.seq /\ Grows(f, r.mem, q.mem)
     /\ rest \in Seq(Nat) /\ Tail(rest) \in Seq(Nat) /\ Tail(rest) # rest
     /\ DOMAIN new = IF Len(rest) = 1 THEN DOMAIN old \ {s} ELSE DOMAIN old
     /\ Len(rest) # 1 => new[s].rest = Tail(rest)
     /\ \A i \in DOMAIN old : i # s => new[i] = old[i]

LEMMA ChunkOK ==
  ASSUME NEW f \in Feed, NEW r, Saved(f, r), NEW s \in DOMAIN r.mem.pend,
         NEW rest, r.mem.pend[s].rest = rest
  PROVE  ChunkTaken(f, r, IngestChunk(r, rest, s), s, rest)
<1> DEFINE q == IngestChunk(r, rest, s)
           m == r.mem
           p == m.pend[s]
           old == m.pend
           new == q.mem.pend
           chain == Log[f][s]
           next == [cnr |-> p.cnr + 1, rest |-> Tail(rest), pos |-> p.pos + EntryLen]
           fr == q.mem
<1>1. FrontierOK(f, m)
  BY DEF Saved
<1>2. /\ m = [seq |-> m.seq, pos |-> m.pos, pend |-> old]
      /\ m.seq \in 0..Len(Log[f]) /\ m.seq \in Nat /\ m.pos \in Nat
      /\ DOMAIN old \subseteq 1..m.seq /\ old = [i \in DOMAIN old |-> old[i]]
  BY <1>1, FrontierIs
<1>3. /\ s \in 1..Len(Log[f]) /\ s \in 1..m.seq /\ p.cnr \in Nat /\ p.pos \in Nat
      /\ p.cnr < Len(chain) /\ rest = SubSeq(chain, p.cnr + 1, Len(chain))
  <2>1. s \in DOMAIN old /\ p = old[s] /\ p.rest = rest
    OBVIOUS
  <2> HIDE DEF p, old
  <2>2. /\ s \in 1..Len(Log[f]) /\ old[s].cnr \in Nat /\ old[s].pos \in Nat
        /\ old[s].cnr < Len(Log[f][s])
        /\ old[s].rest = SubSeq(Log[f][s], old[s].cnr + 1, Len(Log[f][s]))
    BY <1>1, <2>1, FrontierIs DEF old
  <2> QED BY <1>2, <2>1, <2>2
<1>4. chain \in Seq(Nat)
  BY <1>3, LogIs
<1>5. /\ rest \in Seq(Nat) /\ Len(rest) = Len(chain) - p.cnr /\ Len(chain) \in Nat
      /\ Tail(rest) # rest
      /\ Tail(rest) = SubSeq(chain, p.cnr + 2, Len(chain)) /\ Tail(rest) \in Seq(Nat)
  BY <1>3, <1>4, RestIs
<1>6. PICK log : q = Persisted(r, log,
            [m EXCEPT !.pend = IF Len(rest) = 1
                                 THEN [i \in DOMAIN old \ {s} |-> old[i]]
                                 ELSE [old EXCEPT ![s] = next]])
  BY DEF IngestChunk
<1> HIDE DEF next
<1>7. /\ q = [mem |-> fr, log |-> log, frt |-> {fr}, tmp |-> {}]
      /\ fr = [m EXCEPT !.pend = new]
      /\ new = IF Len(rest) = 1 THEN [i \in DOMAIN old \ {s} |-> old[i]]
                                ELSE [old EXCEPT ![s] = next]
  <2> DEFINE pend == IF Len(rest) = 1 THEN [i \in DOMAIN old \ {s} |-> old[i]]
                                      ELSE [old EXCEPT ![s] = next]
             mem == [m EXCEPT !.pend = pend]
  <2>1. q = Persisted(r, log, mem)
    BY <1>6
  <2> HIDE DEF pend
  <2>2. mem = [seq |-> m.seq, pos |-> m.pos, pend |-> pend]
    BY <1>2
  <2> HIDE DEF mem, q
  <2>3. q = [mem |-> mem, log |-> log, frt |-> {mem}, tmp |-> {}]
    BY <2>1 DEF Persisted
  <2>4. fr = mem /\ new = pend
    BY <2>2, <2>3
  <2>5. fr = [m EXCEPT !.pend = new]
    BY <2>4 DEF mem
  <2> QED BY <2>3, <2>4, <2>5 DEF pend
<1> HIDE DEF q
<1>8. fr = [seq |-> m.seq, pos |-> m.pos, pend |-> new]
  <2> HIDE DEF new, fr
  <2> QED BY <1>2, <1>7
<1>9. /\ DOMAIN new = IF Len(rest) = 1 THEN DOMAIN old \ {s} ELSE DOMAIN old
      /\ Len(rest) # 1 => new[s] = next
      /\ \A i \in DOMAIN old : i # s => new[i] = old[i]
      /\ new = [i \in DOMAIN new |-> new[i]]
  BY <1>2, <1>7
<1>10. next \in [cnr : Nat, rest : Seq(Nat), pos : Nat] /\ next.rest = Tail(rest)
       /\ next.cnr = p.cnr + 1
  <2>1. p.cnr + 1 \in Nat /\ p.pos + EntryLen \in Nat
    BY <1>3 DEF EntryLen
  <2> QED BY <1>5, <2>1 DEF next
<1>11. Len(rest) # 1 => p.cnr + 1 < Len(chain)
  <2> DEFINE k == p.cnr
             n == Len(chain)
  <2>1. k \in Nat /\ n \in Nat /\ k < n /\ Len(rest) = n - k
    BY <1>3, <1>5
  <2> HIDE DEF k, n
  <2>2. Len(rest) # 1 => k + 1 < n
    BY <2>1
  <2> QED BY <2>2 DEF k, n
<1>12. p.cnr <= Len(chain) /\ p.cnr <= p.cnr + 1
  <2> DEFINE k == p.cnr
             n == Len(chain)
  <2>1. k \in Nat /\ n \in Nat /\ k < n
    BY <1>3, <1>5
  <2> HIDE DEF k, n
  <2>2. k <= n /\ k <= k + 1
    BY <2>1
  <2> QED BY <2>2 DEF k, n
<1>13. p.cnr + 2 = (p.cnr + 1) + 1
  BY <1>3
<1>14. \A i \in DOMAIN new :
         /\ i \in 1..m.seq
         /\ new[i] \in [cnr : Nat, rest : Seq(Nat), pos : Nat]
         /\ new[i].cnr < Len(Log[f][i])
         /\ new[i].rest = SubSeq(Log[f][i], new[i].cnr + 1, Len(Log[f][i]))
  <2> TAKE i \in DOMAIN new
  <2>1. CASE i # s
    <3>1. i \in DOMAIN old /\ new[i] = old[i] /\ i \in 1..m.seq
      BY <1>2, <1>9, <2>1
    <3>2. /\ old[i] \in [cnr : Nat, rest : Seq(Nat), pos : Nat]
          /\ old[i].cnr < Len(Log[f][i])
          /\ old[i].rest = SubSeq(Log[f][i], old[i].cnr + 1, Len(Log[f][i]))
      BY <1>1, <3>1 DEF FrontierOK
    <3> QED BY <3>1, <3>2
  <2>2. CASE i = s
    <3>1. Len(rest) # 1 /\ new[i] = next
      BY <1>9, <2>2
    <3> HIDE DEF new
    <3> QED BY <1>3, <1>5, <1>10, <1>11, <1>13, <2>2, <3>1
  <2> QED BY <2>1, <2>2
<1>15. fr.pend = new
  OBVIOUS
<1>16. FrontierOK(f, fr)
  <2> HIDE DEF new, fr
  <2>1. new \in [DOMAIN new -> [cnr : Nat, rest : Seq(Nat), pos : Nat]]
    BY <1>9, <1>14
  <2>2. fr = [seq |-> fr.seq, pos |-> fr.pos, pend |-> fr.pend] /\ fr.seq = m.seq
        /\ fr.pos = m.pos
    BY <1>8
  <2>3. DOMAIN new \subseteq 1..fr.seq
    BY <1>14, <2>2
  <2> QED BY <1>2, <1>14, <1>15, <2>1, <2>2, <2>3 DEF FrontierOK
<1>17. fr.seq = m.seq
  <2> HIDE DEF fr, new
  <2> QED BY <1>8
<1>18. Grows(f, m, fr)
  <2> SUFFICES ASSUME NEW i \in DOMAIN Log[f] PROVE TakenOf(f, m, i) <= TakenOf(f, fr, i)
    BY DEF Grows
  <2>1. /\ TakenOf(f, m, i) \in Int /\ TakenOf(f, fr, i) \in Int
    BY <1>1, <1>16, TakenIs
  <2>2. CASE i = s
    <3>1. ~(s > m.seq)
      BY <1>2, <1>3
    <3>2. TakenOf(f, m, i) = p.cnr
      BY <2>2, <3>1 DEF TakenOf
    <3>3. CASE Len(rest) = 1
      <4>1. TakenOf(f, fr, i) = Len(chain)
        BY <1>9, <1>15, <1>17, <2>2, <3>1, <3>3 DEF TakenOf
      <4> QED BY <1>12, <3>2, <4>1
    <3>4. CASE Len(rest) # 1
      <4>1. TakenOf(f, fr, i) = new[s].cnr
        BY <1>9, <1>15, <1>17, <2>2, <3>1, <3>4 DEF TakenOf
      <4> HIDE DEF new
      <4>2. new[s].cnr = p.cnr + 1
        BY <1>9, <1>10, <3>4
      <4> QED BY <1>12, <3>2, <4>1, <4>2
    <3> QED BY <3>3, <3>4
  <2>3. CASE i # s
    <3>1. i \in DOMAIN old <=> i \in DOMAIN new
      BY <1>9, <2>3
    <3>2. i \in DOMAIN old => old[i] = new[i]
      BY <1>9, <2>3
    <3>3. TakenOf(f, m, i) = TakenOf(f, fr, i)
      BY <1>15, <1>17, <3>1, <3>2 DEF TakenOf
    <3> QED BY <2>1, <3>3
  <2> QED BY <2>2, <2>3
<1>19. Saved(f, q)
  BY <1>7, <1>16 DEF Saved
<1>20. Len(rest) # 1 => new[s].rest = Tail(rest)
  BY <1>9, <1>10
<1> HIDE DEF new, old
<1>21. /\ Saved(f, q) /\ q.mem.seq = m.seq /\ Grows(f, m, q.mem)
       /\ rest \in Seq(Nat) /\ Tail(rest) \in Seq(Nat) /\ Tail(rest) # rest
       /\ DOMAIN new = IF Len(rest) = 1 THEN DOMAIN old \ {s} ELSE DOMAIN old
       /\ Len(rest) # 1 => new[s].rest = Tail(rest)
       /\ \A i \in DOMAIN old : i # s => new[i] = old[i]
  BY <1>5, <1>9, <1>17, <1>18, <1>19, <1>20
<1> QED BY <1>21 DEF q, m, new, old, ChunkTaken

-----------------------------------------------------------------------------
(***************************************************************************)
(* The memory of a node.                                                   *)
(***************************************************************************)
LEMMA WaitsIs ==
  ASSUME NEW keys \in SUBSET Feed, NEW reps, \A f \in keys : Saved(f, reps[f])
  PROVE  /\ Waits(keys, reps) \in SUBSET Wait
         /\ \A f, s, rest : <<<<f, s>>, rest>> \in Waits(keys, reps) <=>
              f \in keys /\ s \in DOMAIN reps[f].mem.pend /\ rest = reps[f].mem.pend[s].rest
<1>1. \A f \in keys : \A s \in DOMAIN reps[f].mem.pend :
        s \in Nat /\ reps[f].mem.pend[s].rest \in Seq(Nat)
  <2> TAKE f \in keys
  <2>1. FrontierOK(f, reps[f].mem)
    BY DEF Saved
  <2> QED BY <2>1, FrontierIs
<1>2. Waits(keys, reps) \in SUBSET Wait
  BY <1>1 DEF Waits, Wait, Chain
<1>3. ASSUME NEW f, NEW s, NEW rest
      PROVE  <<<<f, s>>, rest>> \in Waits(keys, reps) <=>
               f \in keys /\ s \in DOMAIN reps[f].mem.pend /\ rest = reps[f].mem.pend[s].rest
  BY DEF Waits
<1> QED BY <1>2, <1>3

(* Two sets of waiting chains are the same if they have the same elements. *)
LEMMA WaitSetsEqual ==
  ASSUME NEW V \in SUBSET Wait, NEW W \in SUBSET Wait,
         \A f \in Feed, s \in Nat, rest \in Seq(Nat) :
           <<<<f, s>>, rest>> \in V <=> <<<<f, s>>, rest>> \in W
  PROVE  V = W
<1>1. \A w \in Wait : \E f \in Feed, s \in Nat, rest \in Seq(Nat) : w = <<<<f, s>>, rest>>
  BY DEF Wait, Chain
<1>2. \A w \in Wait : w \in V <=> w \in W
  BY <1>1
<1> QED BY <1>2

(* There is a place in dmxt for one more feed. *)
LEMMA ArmDmxIs ==
  ASSUME NEW J \in SUBSET Feed, Cardinality(J) < MaxKeys, NEW dt,
         \A x \in dt : x[1] \in J, \A x, y \in dt : x[1] = y[1] => x = y, NEW f, NEW s
  PROVE  ArmDmx(dt, f, s) = dt \union {<<f, s>>}
<1> DEFINE h == [x \in dt |-> x[1]]
<1>1. IsFiniteSet(J)
  BY LogAssumption, FS_Subset
<1>2. h \in Injection(dt, J)
  BY DEF Injection, IsInjective
<1> HIDE DEF h
<1>3. IsFiniteSet(dt) /\ Cardinality(dt) <= Cardinality(J)
  BY <1>1, <1>2, FS_Injection
<1>4. Cardinality(dt) \in Nat /\ Cardinality(J) \in Nat /\ MaxKeys \in Nat
  BY <1>1, <1>3, FS_CardinalityType, EspNodeAssumption
<1>5. Cardinality(dt) < MaxKeys
  BY <1>3, <1>4
<1> QED BY <1>5 DEF ArmDmx

(* A replica is added for a feed that has none. *)
LEMMA AddReplicaOK ==
  ASSUME NEW keys \in SUBSET Feed, NEW m, MemOK(keys, m), NEW f \in Feed, f \notin keys,
         Cardinality(keys) < MaxKeys, FrontierOK(f, Opened(m.replica[f]).mem)
  PROVE  /\ MemOK(keys \union {f}, AddReplica(m, f))
         /\ AddReplica(m, f).replica = [m.replica EXCEPT ![f] = Opened(m.replica[f])]
<1> DEFINE r == Opened(m.replica[f])
           pend == r.mem.pend
           W == Waits(keys, m.replica)
           n == AddReplica(m, f)
           K == keys \union {f}
<1>1. /\ m = [replica |-> m.replica, dmxt |-> m.dmxt, blbt |-> m.blbt]
      /\ m.replica = [g \in Feed |-> m.replica[g]]
      /\ \A g \in keys : Saved(g, m.replica[g])
      /\ m.dmxt = {<<g, m.replica[g].mem.seq + 1>> : g \in keys}
      /\ ListsFor(m.blbt, W)
  BY DEF MemOK
<1>2. Saved(f, r) /\ FrontierOK(f, r.mem)
  BY OpenedOK
<1>3. n = [replica |-> [m.replica EXCEPT ![f] = r],
           dmxt |-> ArmDmx(m.dmxt, f, r.mem.seq + 1),
           blbt |-> ArmChains(m.blbt, f, pend)]
  BY DEF AddReplica
<1> HIDE DEF n, r
<1>4. /\ n.replica = [g \in Feed |-> IF g = f THEN r ELSE m.replica[g]]
      /\ n = [replica |-> n.replica, dmxt |-> n.dmxt, blbt |-> n.blbt]
      /\ n.dmxt = ArmDmx(m.dmxt, f, r.mem.seq + 1)
      /\ n.blbt = ArmChains(m.blbt, f, pend)
      /\ n.replica = [m.replica EXCEPT ![f] = r]
  BY <1>1, <1>3
<1>5. \A g \in K : Saved(g, n.replica[g])
  BY <1>1, <1>2, <1>4
<1>6. n.dmxt = {<<g, n.replica[g].mem.seq + 1>> : g \in K}
  <2> DEFINE dt == m.dmxt
             seqs == [g \in keys |-> m.replica[g].mem.seq + 1]
  <2>3. (\A x \in dt : x[1] \in keys) /\ \A x, y \in dt : x[1] = y[1] => x = y
    <3>1. dt = {<<g, seqs[g]>> : g \in keys}
      BY <1>1
    <3> HIDE DEF dt, seqs
    <3> QED BY <3>1
  <2>4. n.dmxt = dt \union {<<f, r.mem.seq + 1>>}
    <3>1. n.dmxt = ArmDmx(dt, f, r.mem.seq + 1)
      BY <1>4
    <3> HIDE DEF dt
    <3> QED BY <2>3, <3>1, ArmDmxIs
  <2>5. \A g \in keys : n.replica[g] = m.replica[g]
    BY <1>4
  <2>6. n.replica[f] = r
    BY <1>4
  <2> QED BY <1>1, <2>4, <2>5, <2>6
<1>7. /\ DOMAIN pend \subseteq Nat /\ IsFiniteSet(DOMAIN pend)
      /\ \A s \in DOMAIN pend : pend[s].rest \in Seq(Nat)
  BY <1>2, FrontierIs
<1>8. W \in SUBSET Wait /\ \A w \in W : w[1][1] # f
  <2>1. W \in SUBSET Wait
    <3> DEFINE reps == m.replica
    <3>1. \A g \in keys : Saved(g, reps[g])
      BY <1>1
    <3> HIDE DEF reps
    <3>2. Waits(keys, reps) \in SUBSET Wait
      BY <3>1, WaitsIs
    <3> QED BY <3>2 DEF reps
  <2>2. \A w \in W : w[1][1] \in keys
    BY DEF Waits
  <2> QED BY <2>1, <2>2
<1> HIDE DEF W, pend
<1> DEFINE U == WaitsOf(f, pend)
           bt == m.blbt
           V == Waits(K, n.replica)
<1>9. ListsFor(n.blbt, W \union U) /\ U \in SUBSET Wait
  <2>1. ListsFor(bt, W) /\ n.blbt = ArmChains(bt, f, pend)
    BY <1>1, <1>4
  <2> HIDE DEF bt, n
  <2>2. \A w \in W : w[1][1] # f
    BY <1>8
  <2>3. W \in SUBSET Wait
    BY <1>8
  <2> HIDE DEF U
  <2>4. ListsFor(ArmChains(bt, f, pend), W \union WaitsOf(f, pend))
        /\ WaitsOf(f, pend) \in SUBSET Wait
    BY <1>7, <2>1, <2>2, <2>3, ArmChainsOK
  <2> QED BY <2>1, <2>4 DEF U
<1>10. V = W \union U
  <2>1. V \in SUBSET Wait
    BY <1>5, WaitsIs
  <2>2. ASSUME NEW g \in Feed, NEW s \in Nat, NEW rest \in Seq(Nat)
        PROVE  <<<<g, s>>, rest>> \in V <=> <<<<g, s>>, rest>> \in W \union U
    <3>1. <<<<g, s>>, rest>> \in V <=>
            g \in K /\ s \in DOMAIN n.replica[g].mem.pend /\ rest = n.replica[g].mem.pend[s].rest
      BY <1>5, WaitsIs
    <3>2. <<<<g, s>>, rest>> \in W <=>
            g \in keys /\ s \in DOMAIN m.replica[g].mem.pend
            /\ rest = m.replica[g].mem.pend[s].rest
      <4> DEFINE reps == m.replica
      <4>1. \A k \in keys : Saved(k, reps[k])
        BY <1>1
      <4> HIDE DEF reps
      <4>2. <<<<g, s>>, rest>> \in Waits(keys, reps) <=>
              g \in keys /\ s \in DOMAIN reps[g].mem.pend /\ rest = reps[g].mem.pend[s].rest
        BY <4>1, WaitsIs
      <4> QED BY <4>2 DEF reps, W
    <3>3. <<<<g, s>>, rest>> \in U <=>
            g = f /\ s \in DOMAIN pend /\ rest = pend[s].rest
      BY DEF WaitsOf, U
    <3>4. n.replica[g] = IF g = f THEN r ELSE m.replica[g]
      BY <1>4
    <3> HIDE DEF V, U
    <3> QED BY <3>1, <3>2, <3>3, <3>4 DEF pend
  <2> HIDE DEF V, U
  <2> DEFINE X == W \union U
  <2>3. X \in SUBSET Wait
    BY <1>8, <1>9
  <2>4. \A g \in Feed, s \in Nat, rest \in Seq(Nat) :
          <<<<g, s>>, rest>> \in V <=> <<<<g, s>>, rest>> \in X
    BY <2>2
  <2> HIDE DEF X
  <2>5. V = X
    BY <2>1, <2>3, <2>4, WaitSetsEqual
  <2> QED BY <2>5 DEF X
<1>11. n.replica = [g \in Feed |-> n.replica[g]]
  BY <1>4
<1>12. MemOK(K, n)
  BY <1>4, <1>5, <1>6, <1>9, <1>10, <1>11 DEF MemOK
<1> QED BY <1>4, <1>12 DEF n, r

(* After a start, all the feeds found have a replica and are in the tables. *)
LEMMA LoadedOK ==
  ASSUME NEW keys \in SUBSET Feed, Cardinality(keys) <= MaxKeys, NEW flash,
         flash = [f \in Feed |-> flash[f]],
         \A f \in keys : FrontierOK(f, Opened(flash[f]).mem)
  PROVE  /\ MemOK(keys, Loaded(keys, flash))
         /\ \A f \in Feed : Loaded(keys, flash).replica[f] =
                              IF f \in keys THEN Opened(flash[f]) ELSE flash[f]
<1> DEFINE n == Cardinality(keys)
           found == Keys(keys)
           base == [replica |-> flash, dmxt |-> {}, blbt |-> <<>>]
           F(h) == [i \in 0..Len(found) |-> IF i = 0 THEN base ELSE AddReplica(h[i-1], found[i])]
           Steps(k, h) == h[0] = base /\ \A i \in 1..k : h[i] = AddReplica(h[i-1], found[i])
           loaded == CHOOSE h : h = F(h)
           K(k) == {found[j] : j \in 1..k}
<1>1. /\ found \in Seq(keys) /\ Len(found) = n /\ n \in Nat
      /\ \A i, j \in 1..n : found[i] = found[j] => i = j
      /\ \A f \in keys : \E i \in 1..n : found[i] = f
  <2>1. keys \in SUBSET Nat /\ IsFiniteSet(keys)
    BY LogAssumption, FS_Subset
  <2> QED BY <2>1, KeysSorted
<1>2. \A i \in 1..n : found[i] \in keys
  BY <1>1, ElementOfSeq
<1>3. Loaded(keys, flash) = loaded[Len(found)]
  BY DEF Loaded
<1> HIDE DEF found, n, base
<1>4. \E h : Steps(n, h)
  <2> DEFINE T == {k \in 0..n : ~ \E h : Steps(k, h)}
  <2> SUFFICES ASSUME T # {} PROVE FALSE
    <3>1. n \in 0..n
      BY <1>1
    <3> HIDE DEF Steps
    <3> QED BY <3>1
  <2>1. PICK k \in T : \A j \in T : k <= j
    <3>1. T \in SUBSET Nat
      OBVIOUS
    <3> HIDE DEF T
    <3> QED BY <3>1, LeastNat
  <2>2. k \in 0..n /\ ~ \E h : Steps(k, h)
    OBVIOUS
  <2>3. k # 0
    <3> DEFINE h == [i \in 0..n |-> base]
    <3>1. Steps(0, h)
      BY <1>1
    <3> HIDE DEF Steps, h
    <3> QED BY <2>2, <3>1
  <2>4. k-1 \in 0..n /\ k-1 \notin T
    <3>1. k-1 \in 0..n /\ ~(k <= k-1)
      BY <1>1, <2>2, <2>3
    <3> HIDE DEF T
    <3> QED BY <2>1, <3>1
  <2>5. PICK h : Steps(k-1, h)
    BY <2>4
  <2> DEFINE g == [i \in 0..n |-> IF i = k THEN AddReplica(h[k-1], found[k]) ELSE h[i]]
  <2>6. Steps(k, g)
    <3>1. g[0] = base
      BY <1>1, <2>3, <2>5
    <3>2. ASSUME NEW i \in 1..k PROVE g[i] = AddReplica(g[i-1], found[i])
      <4>1. i \in 0..n /\ i-1 \in 0..n /\ i-1 # k
        BY <1>1, <2>2, <3>2
      <4>2. CASE i = k
        BY <4>1, <4>2
      <4>3. CASE i # k
        <5>1. i \in 1..k-1
          BY <2>2, <3>2, <4>3
        <5> QED BY <2>5, <4>1, <4>3, <5>1
      <4> QED BY <4>2, <4>3
    <3> QED BY <3>1, <3>2
  <2> HIDE DEF Steps, g
  <2> QED BY <2>2, <2>6
<1>5. Steps(n, loaded)
  <2>1. PICK h : Steps(n, h)
    BY <1>4
  <2> DEFINE g == [i \in 0..n |-> h[i]]
  <2>2. g = F(g)
    <3>1. \A i \in 0..n : i = 0 \/ (i \in 1..n /\ i-1 \in 0..n)
      BY <1>1
    <3>2. \A i \in 0..n : g[i] = IF i = 0 THEN base ELSE AddReplica(g[i-1], found[i])
      BY <2>1, <3>1
    <3> QED BY <1>1, <3>2
  <2>3. loaded = F(loaded)
    <3> HIDE DEF F, g
    <3> QED BY <2>2
  <2> HIDE DEF loaded
  <2>4. \A i \in 1..n : i \in 0..n /\ i # 0
    BY <1>1
  <2>5. 0 \in 0..n
    BY <1>1
  <2> QED BY <1>1, <2>3, <2>4, <2>5
<1> HIDE DEF loaded
<1>6. \A k \in 0..n : K(k) \in SUBSET keys
  BY <1>1, <1>2
<1> DEFINE Done(k) ==
             /\ MemOK(K(k), loaded[k])
             /\ \A f \in Feed : loaded[k].replica[f] =
                                  IF f \in K(k) THEN Opened(flash[f]) ELSE flash[f]
<1>7. MemOK({}, base)
  <2>1. base.replica = flash /\ base.dmxt = {} /\ base.blbt = <<>>
        /\ base = [replica |-> base.replica, dmxt |-> base.dmxt, blbt |-> base.blbt]
    BY DEF base
  <2>2. Waits({}, flash) = {}
    BY DEF Waits
  <2>3. DOMAIN <<>> = {} /\ <<>> = [i \in {} |-> <<>>[i]]
    OBVIOUS
  <2>4. ListsFor(<<>>, {})
    BY <2>3 DEF ListsFor
  <2> QED BY <2>1, <2>2, <2>4 DEF MemOK
<1>8. \A k \in 0..n : Done(k)
  <2> DEFINE T == {k \in 0..n : ~Done(k)}
  <2> SUFFICES ASSUME T # {} PROVE FALSE
    <3> HIDE DEF Done
    <3> QED OBVIOUS
  <2>1. PICK k \in T : \A j \in T : k <= j
    <3>1. T \in SUBSET Nat
      OBVIOUS
    <3> HIDE DEF T
    <3> QED BY <3>1, LeastNat
  <2>2. k \in 0..n /\ ~Done(k)
    OBVIOUS
  <2>3. k # 0
    <3>1. K(0) = {}
      OBVIOUS
    <3>2. loaded[0] = base
      BY <1>5
    <3>3. base.replica = flash
      BY DEF base
    <3> HIDE DEF K
    <3>4. Done(0)
      BY <1>7, <3>1, <3>2, <3>3
    <3> HIDE DEF Done
    <3> QED BY <2>2, <3>4
  <2>4. k-1 \in 0..n /\ k-1 \notin T /\ k \in 1..n
    <3>1. k-1 \in 0..n /\ ~(k <= k-1) /\ k \in 1..n
      BY <1>1, <2>2, <2>3
    <3> HIDE DEF T
    <3> QED BY <2>1, <3>1
  <2>5. Done(k-1)
    BY <2>4
  <2> DEFINE f == found[k]
             m == loaded[k-1]
             J == K(k-1)
  <2>6. f \in keys /\ f \in Feed
    BY <1>2, <2>4
  <2>7. f \notin J
    <3>1. \A j \in 1..k-1 : found[j] # f
      BY <1>1, <2>4
    <3> QED BY <3>1
  <2>8. K(k) = J \union {f}
    <3>1. \A j : j \in 1..k <=> j \in 1..k-1 \/ j = k
      BY <2>4
    <3> QED BY <3>1
  <2>9. J \in SUBSET keys /\ J \in SUBSET Feed
    BY <1>6, <2>4
  <2>10. loaded[k] = AddReplica(m, f)
    BY <1>5, <2>4
  <2>11. MemOK(J, m) /\ \A g \in Feed : m.replica[g] = IF g \in J THEN Opened(flash[g]) ELSE flash[g]
    BY <2>5
  <2> HIDE DEF K, f, m, J, Done
  <2>12. Cardinality(J) < MaxKeys
    <3>1. IsFiniteSet(keys) /\ J # keys
      BY <2>6, <2>7, LogAssumption, FS_Subset
    <3>2. /\ IsFiniteSet(J) /\ Cardinality(J) <= Cardinality(keys)
          /\ Cardinality(J) # Cardinality(keys)
      BY <2>9, <3>1, FS_Subset
    <3>3. Cardinality(J) \in Nat /\ Cardinality(keys) \in Nat /\ MaxKeys \in Nat
      BY <3>1, <3>2, FS_CardinalityType, EspNodeAssumption
    <3> QED BY <3>2, <3>3
  <2>13. m.replica[f] = flash[f] /\ FrontierOK(f, Opened(m.replica[f]).mem)
    BY <2>6, <2>7, <2>11
  <2>14. /\ MemOK(J \union {f}, AddReplica(m, f))
         /\ AddReplica(m, f).replica = [m.replica EXCEPT ![f] = Opened(m.replica[f])]
    BY <2>6, <2>7, <2>9, <2>11, <2>12, <2>13, AddReplicaOK
  <2>15. m.replica = [g \in Feed |-> m.replica[g]]
    BY <2>11 DEF MemOK
  <2>16. \A g \in Feed : loaded[k].replica[g] = IF g \in K(k) THEN Opened(flash[g]) ELSE flash[g]
    BY <2>7, <2>8, <2>10, <2>11, <2>13, <2>14, <2>15
  <2>17. Done(k)
    BY <2>8, <2>10, <2>14, <2>16 DEF Done
  <2> QED BY <2>2, <2>17
<1>9. K(n) = keys
  BY <1>1, <1>2
<1>10. n \in 0..n
  BY <1>1
<1> HIDE DEF K
<1> QED BY <1>1, <1>3, <1>8, <1>9, <1>10

-----------------------------------------------------------------------------
(***************************************************************************)
(* The next entry.                                                         *)
(***************************************************************************)
LEMMA IncomingOK ==
  ASSUME NEW keys \in SUBSET Feed, Cardinality(keys) <= MaxKeys, NEW m, MemOK(keys, m),
         NEW f \in Feed, NEW s \in DOMAIN Log[f], TakesEntry(m, Entry(f, s))
  PROVE  LET n == IncomingPkt(m, Entry(f, s)) IN
         /\ f \in keys /\ MemOK(keys, n)
         /\ n.replica = [m.replica EXCEPT ![f] = n.replica[f]]
         /\ Grows(f, m.replica[f].mem, n.replica[f].mem)
<1> DEFINE reps == m.replica
           dt == m.dmxt
           bt == m.blbt
           r == reps[f]
           q == IngestEntry(r, s, Log[f][s])
           n == IncomingPkt(m, Entry(f, s))
           old == r.mem.pend
           new == q.mem.pend
           nreps == n.replica
           W == Waits(keys, reps)
           V == Waits(keys, nreps)
           J == keys \ {f}
           c == <<<<f, s>>, Log[f][s]>>
<1>1. /\ m = [replica |-> reps, dmxt |-> dt, blbt |-> bt]
      /\ reps = [g \in Feed |-> reps[g]]
      /\ \A g \in keys : Saved(g, reps[g])
      /\ dt = {<<g, reps[g].mem.seq + 1>> : g \in keys}
      /\ ListsFor(bt, W)
  BY DEF MemOK
<1>2. <<f, s>> \in dt /\ r.mem.seq + 1 = s
  BY DEF TakesEntry, Entry
<1>3. f \in keys /\ Saved(f, r)
  BY <1>1, <1>2
<1>4. n = [replica |-> [reps EXCEPT ![f] = q],
           dmxt |-> ArmDmx(dt \ {<<f, s>>}, f, s + 1),
           blbt |-> IF s \in DOMAIN new THEN ArmBlb(bt, new[s].rest, f, s) ELSE bt]
  BY DEF IncomingPkt, Entry
<1>5. /\ Saved(f, q) /\ q.mem.seq = s /\ Grows(f, r.mem, q.mem) /\ s \notin DOMAIN old
      /\ Log[f][s] = <<>> => new = old
      /\ Log[f][s] # <<>> =>
           /\ DOMAIN new = DOMAIN old \union {s}
           /\ new[s].rest = Log[f][s]
           /\ \A i \in DOMAIN old : new[i] = old[i]
  <2> HIDE DEF r
  <2> QED BY <1>2, <1>3, EntryOK
<1> HIDE DEF n, q, reps, dt, bt
<1>6. /\ nreps = [g \in Feed |-> IF g = f THEN q ELSE reps[g]]
      /\ nreps = [reps EXCEPT ![f] = nreps[f]]
      /\ n = [replica |-> nreps, dmxt |-> n.dmxt, blbt |-> n.blbt]
      /\ n.dmxt = ArmDmx(dt \ {<<f, s>>}, f, s + 1)
      /\ n.blbt = IF s \in DOMAIN new THEN ArmBlb(bt, new[s].rest, f, s) ELSE bt
  BY <1>1, <1>4
<1> HIDE DEF nreps
<1>7. nreps[f] = q /\ (\A g \in J : nreps[g] = reps[g]) /\ nreps = [g \in Feed |-> nreps[g]]
  BY <1>6
<1>8. \A g \in keys : Saved(g, nreps[g])
  BY <1>1, <1>5, <1>7
<1>9. n.dmxt = {<<g, nreps[g].mem.seq + 1>> : g \in keys}
  <2>1. dt \ {<<f, s>>} = {<<g, reps[g].mem.seq + 1>> : g \in J}
    BY <1>1, <1>2
  <2>2. Cardinality(J) < MaxKeys
    <3>1. IsFiniteSet(keys) /\ J \in SUBSET keys /\ J # keys
      BY <1>3, LogAssumption, FS_Subset
    <3>2. /\ IsFiniteSet(J) /\ Cardinality(J) <= Cardinality(keys)
          /\ Cardinality(J) # Cardinality(keys)
      BY <3>1, FS_Subset
    <3>3. Cardinality(J) \in Nat /\ Cardinality(keys) \in Nat /\ MaxKeys \in Nat
      BY <3>1, <3>2, FS_CardinalityType, EspNodeAssumption
    <3> QED BY <3>2, <3>3
  <2> HIDE DEF J
  <2>3. J \in SUBSET Feed /\ keys = J \union {f}
    BY <1>3 DEF J
  <2> DEFINE rem == dt \ {<<f, s>>}
  <2>4. (\A x \in rem : x[1] \in J) /\ \A x, y \in rem : x[1] = y[1] => x = y
    BY <2>1
  <2>5. n.dmxt = rem \union {<<f, s + 1>>}
    <3>1. n.dmxt = ArmDmx(rem, f, s + 1)
      BY <1>6
    <3> HIDE DEF rem
    <3> QED BY <2>2, <2>3, <2>4, <3>1, ArmDmxIs
  <2>6. rem = {<<g, nreps[g].mem.seq + 1>> : g \in J}
    BY <1>7, <2>1 DEF J
  <2>7. nreps[f].mem.seq + 1 = s + 1
    BY <1>5, <1>7
  <2> HIDE DEF rem
  <2> QED BY <2>3, <2>5, <2>6, <2>7
<1>10. W \in SUBSET Wait /\ V \in SUBSET Wait
  <2>1. \A g \in keys : Saved(g, reps[g])
    BY <1>1
  <2> QED BY <1>8, <2>1, WaitsIs
<1>11. ASSUME NEW g \in Feed, NEW i, NEW rest
       PROVE  /\ <<<<g, i>>, rest>> \in W <=>
                   g \in keys /\ i \in DOMAIN reps[g].mem.pend /\ rest = reps[g].mem.pend[i].rest
              /\ <<<<g, i>>, rest>> \in V <=>
                   g \in keys /\ i \in DOMAIN nreps[g].mem.pend /\ rest = nreps[g].mem.pend[i].rest
  BY DEF Waits
<1> HIDE DEF W, V
<1>12. s \in Nat /\ Log[f][s] \in Seq(Nat)
  BY LogIs
<1>13. ListsFor(n.blbt, V)
  <2>1. CASE Log[f][s] = <<>>
    <3>1. \A g \in Feed, i \in Nat, rest \in Seq(Nat) :
            <<<<g, i>>, rest>> \in V <=> <<<<g, i>>, rest>> \in W
      <4> TAKE g \in Feed, i \in Nat, rest \in Seq(Nat)
      <4>1. g \in keys => nreps[g].mem.pend = reps[g].mem.pend
        BY <1>5, <1>7, <2>1
      <4> QED BY <1>10, <1>11, <4>1
    <3>2. V = W
      BY <1>10, <1>11, <3>1, WaitSetsEqual
    <3>3. n.blbt = bt
      BY <1>5, <1>6, <2>1
    <3> QED BY <1>1, <3>2, <3>3
  <2>2. CASE Log[f][s] # <<>>
    <3> DEFINE X == W \union {c}
    <3>1. X \in SUBSET Wait /\ c \notin W
      BY <1>5, <1>10, <1>11, <1>12 DEF Wait, Chain
    <3>2. ASSUME NEW g \in Feed, NEW i \in Nat, NEW rest \in Seq(Nat)
          PROVE  <<<<g, i>>, rest>> \in V <=> <<<<g, i>>, rest>> \in X
      <4>1. CASE g = f
        <5>1. <<<<f, i>>, rest>> \in V <=> i \in DOMAIN new /\ rest = new[i].rest
          BY <1>3, <1>7, <1>11
        <5>2. <<<<f, i>>, rest>> \in W <=> i \in DOMAIN old /\ rest = old[i].rest
          BY <1>3, <1>11
        <5> HIDE DEF new, old
        <5> QED BY <1>5, <2>2, <4>1, <5>1, <5>2
      <4>2. CASE g # f
        BY <1>7, <1>10, <1>11, <4>2
      <4> QED BY <4>1, <4>2
    <3>3. V = X
      <4> HIDE DEF X
      <4> QED BY <1>10, <3>1, <3>2, WaitSetsEqual
    <3>4. n.blbt = ArmBlb(bt, Log[f][s], f, s)
      <4> HIDE DEF new
      <4> QED BY <1>5, <1>6, <2>2
    <3>5. ListsFor(ArmBlb(bt, Log[f][s], f, s), X)
      BY <1>1, <1>10, <1>12, <3>1, ArmOK
    <3> HIDE DEF X
    <3> QED BY <3>3, <3>4, <3>5
  <2> QED BY <2>1, <2>2
<1>14. MemOK(keys, n)
  BY <1>6, <1>7, <1>8, <1>9, <1>13 DEF MemOK, nreps, V
<1>15. f \in keys /\ MemOK(keys, n) /\ nreps = [reps EXCEPT ![f] = nreps[f]]
       /\ Grows(f, reps[f].mem, nreps[f].mem)
  BY <1>3, <1>5, <1>6, <1>7, <1>14
<1> QED BY <1>15 DEF n, reps, nreps

-----------------------------------------------------------------------------
(***************************************************************************)
(* A chunk and the chains in its list.                                     *)
(***************************************************************************)
(* Chains is a loop over the list. *)
LEMMA ChainsSteps ==
  ASSUME NEW m, NEW rest, NEW n \in Nat
  PROVE  /\ Chains(m, rest, 0) = m
         /\ \A k \in 1..n : Chains(m, rest, k) =
                              OneChain(Chains(m, rest, k-1), rest, m.blbt[rest][k])
<1> DEFINE list == m.blbt[rest]
           One(x, i) == OneChain(x, rest, list[i])
           F(k, h) == [i \in 0..k |-> IF i = 0 THEN m ELSE One(h[i-1], i)]
           Steps(k, h) == h[0] = m /\ \A i \in 1..k : h[i] = One(h[i-1], i)
           taken(k) == CHOOSE h : h = F(k, h)
<1>1. \A k : Chains(m, rest, k) = taken(k)[k]
  BY DEF Chains
<1> HIDE DEF list, One
<1>2. \E h : Steps(n, h)
  <2> DEFINE T == {k \in 0..n : ~ \E h : Steps(k, h)}
  <2> SUFFICES ASSUME T # {} PROVE FALSE
    <3>1. n \in 0..n
      OBVIOUS
    <3> HIDE DEF Steps
    <3> QED BY <3>1
  <2>1. PICK k \in T : \A j \in T : k <= j
    <3>1. T \in SUBSET Nat
      OBVIOUS
    <3> HIDE DEF T
    <3> QED BY <3>1, LeastNat
  <2>2. k \in 0..n /\ ~ \E h : Steps(k, h)
    OBVIOUS
  <2>3. k # 0
    <3> DEFINE h == [i \in 0..n |-> m]
    <3>1. Steps(0, h)
      OBVIOUS
    <3> HIDE DEF Steps, h
    <3> QED BY <2>2, <3>1
  <2>4. k-1 \in 0..n /\ k-1 \notin T
    <3>1. k-1 \in 0..n /\ ~(k <= k-1)
      BY <2>2, <2>3
    <3> HIDE DEF T
    <3> QED BY <2>1, <3>1
  <2>5. PICK h : Steps(k-1, h)
    BY <2>4
  <2> DEFINE g == [i \in 0..n |-> IF i = k THEN One(h[k-1], k) ELSE h[i]]
  <2>6. Steps(k, g)
    <3>1. g[0] = m
      BY <2>3, <2>5
    <3>2. ASSUME NEW i \in 1..k PROVE g[i] = One(g[i-1], i)
      <4>1. i \in 0..n /\ i-1 \in 0..n /\ i-1 # k
        BY <2>2, <3>2
      <4>2. CASE i = k
        BY <4>1, <4>2
      <4>3. CASE i # k
        <5>1. i \in 1..k-1
          BY <2>2, <3>2, <4>3
        <5> QED BY <2>5, <4>1, <4>3, <5>1
      <4> QED BY <4>2, <4>3
    <3> QED BY <3>1, <3>2
  <2> HIDE DEF Steps, g
  <2> QED BY <2>2, <2>6
<1>3. PICK h : Steps(n, h)
  BY <1>2
<1>4. ASSUME NEW k \in 0..n
      PROVE  taken(k)[k] = h[k]
  <2> DEFINE g == [i \in 0..k |-> h[i]]
             t == taken(k)
  <2>1. g = F(k, g)
    <3>1. \A i \in 0..k : i = 0 \/ (i \in 1..n /\ i-1 \in 0..k)
      OBVIOUS
    <3>2. \A i \in 0..k : g[i] = IF i = 0 THEN m ELSE One(g[i-1], i)
      BY <1>3, <3>1
    <3> QED BY <3>2
  <2>2. t = F(k, t)
    <3> HIDE DEF F, g
    <3> QED BY <2>1
  <2> HIDE DEF t
  <2>3. t[0] = m /\ \A i \in 1..k : t[i] = One(t[i-1], i)
    <3>1. \A i \in 1..k : i \in 0..k /\ i # 0
      OBVIOUS
    <3> QED BY <2>2, <3>1
  <2> DEFINE T == {i \in 0..k : t[i] # h[i]}
  <2>4. T = {}
    <3> SUFFICES ASSUME T # {} PROVE FALSE
      OBVIOUS
    <3>1. PICK i \in T : \A j \in T : i <= j
      <4>1. T \in SUBSET Nat
        OBVIOUS
      <4> HIDE DEF T
      <4> QED BY <4>1, LeastNat
    <3>2. i \in 0..k /\ t[i] # h[i]
      OBVIOUS
    <3>3. i # 0
      BY <1>3, <2>3, <3>2
    <3>4. i \in 1..k /\ i \in 1..n /\ i-1 \in 0..k /\ i-1 \notin T
      <4>1. i \in 1..k /\ i \in 1..n /\ i-1 \in 0..k /\ ~(i <= i-1)
        BY <3>2, <3>3
      <4> HIDE DEF T
      <4> QED BY <3>1, <4>1
    <3>5. t[i-1] = h[i-1]
      BY <3>4
    <3>6. t[i] = One(t[i-1], i) /\ h[i] = One(h[i-1], i)
      BY <1>3, <2>3, <3>4
    <3> QED BY <3>2, <3>5, <3>6
  <2>5. k \in 0..k
    OBVIOUS
  <2>6. t[k] = h[k]
    BY <2>4, <2>5
  <2> QED BY <2>6 DEF t
<1> HIDE DEF taken
<1>5. \A k \in 0..n : Chains(m, rest, k) = h[k]
  BY <1>1, <1>4
<1>6. 0 \in 0..n /\ \A k \in 1..n : k \in 0..n /\ k-1 \in 0..n
  OBVIOUS
<1>7. Chains(m, rest, 0) = m
  BY <1>3, <1>5, <1>6
<1>8. \A k \in 1..n : Chains(m, rest, k) = One(Chains(m, rest, k-1), k)
  <2> TAKE k \in 1..n
  <2>1. h[k] = One(h[k-1], k)
    BY <1>3
  <2> QED BY <1>5, <1>6, <2>1
<1> QED BY <1>7, <1>8 DEF One, list

(* A chunk on its way through its list: some chains have taken it, the     *)
(* others still wait for it, and all of them are still in the list.        *)
Advanced(keys, m, k, rest, took, left) ==
  LET W == Waits(keys, k.replica) IN
  /\ k = [replica |-> k.replica, dmxt |-> k.dmxt, blbt |-> k.blbt]
  /\ k.replica = [f \in Feed |-> k.replica[f]]
  /\ \A f \in keys : Saved(f, k.replica[f]) /\ Grows(f, m.replica[f].mem, k.replica[f].mem)
  /\ \A f \in Feed \ keys : k.replica[f] = m.replica[f]
  /\ k.dmxt = {<<f, k.replica[f].mem.seq + 1>> : f \in keys}
  /\ ListsFor(k.blbt, W \union (took \X {rest}))
  /\ For(W, rest) = left

LEMMA OneChainOK ==
  ASSUME NEW keys \in SUBSET Feed, NEW m, \A f \in keys : Saved(f, m.replica[f]),
         NEW k, NEW rest, NEW took \in SUBSET Chain, NEW left,
         Advanced(keys, m, k, rest, took, left), NEW chain \in left
  PROVE  LET n == OneChain(k, rest, chain) IN
         /\ Advanced(keys, m, n, rest, took \union {chain}, left \ {chain})
         /\ chain \in Chain /\ chain[1] \in keys
         /\ n.replica = [k.replica EXCEPT ![chain[1]] = n.replica[chain[1]]]
<1> DEFINE reps == k.replica
           bt == k.blbt
           f == chain[1]
           s == chain[2]
           r == reps[f]
           q == IngestChunk(r, rest, s)
           n == OneChain(k, rest, chain)
           old == r.mem.pend
           new == q.mem.pend
           nreps == n.replica
           W == Waits(keys, reps)
           V == Waits(keys, nreps)
           took2 == took \union {chain}
           Y == W \union (took \X {rest})
           Z == V \union (took2 \X {rest})
<1>1. /\ k = [replica |-> reps, dmxt |-> k.dmxt, blbt |-> bt]
      /\ reps = [g \in Feed |-> reps[g]]
      /\ \A g \in Feed \ keys : reps[g] = m.replica[g]
      /\ k.dmxt = {<<g, reps[g].mem.seq + 1>> : g \in keys}
      /\ ListsFor(bt, Y)
      /\ For(W, rest) = left
  BY DEF Advanced
<1>2. /\ \A g \in keys : Saved(g, reps[g]) /\ Grows(g, m.replica[g].mem, reps[g].mem)
      /\ \A g \in keys : Saved(g, reps[g])
  BY DEF Advanced
<1>3. W \in SUBSET Wait
  <2> HIDE DEF reps
  <2> QED BY <1>2, WaitsIs
<1>4. /\ chain \in Chain /\ chain = <<f, s>> /\ f \in keys /\ s \in DOMAIN old
      /\ old[s].rest = rest /\ s \in Nat
  <2>1. <<chain, rest>> \in W
    <3> HIDE DEF W
    <3> QED BY <1>1, <1>3, ForIs
  <2>2. chain \in Chain /\ chain = <<f, s>> /\ s \in Nat
    <3> HIDE DEF W
    <3> QED BY <1>3, <2>1 DEF Wait, Chain
  <2>3. <<<<f, s>>, rest>> \in W
    <3> HIDE DEF W, f, s
    <3> QED BY <2>1, <2>2
  <2> HIDE DEF f, s
  <2>4. f \in keys /\ s \in DOMAIN old /\ old[s].rest = rest
    BY <2>3 DEF Waits
  <2> QED BY <2>2, <2>4
<1> HIDE DEF f, s, r
<1>5. /\ Saved(f, q) /\ q.mem.seq = r.mem.seq /\ Grows(f, r.mem, q.mem)
      /\ rest \in Seq(Nat) /\ Tail(rest) \in Seq(Nat) /\ Tail(rest) # rest
      /\ DOMAIN new = IF Len(rest) = 1 THEN DOMAIN old \ {s} ELSE DOMAIN old
      /\ Len(rest) # 1 => new[s].rest = Tail(rest)
      /\ \A i \in DOMAIN old : i # s => new[i] = old[i]
  <2>1. f \in Feed /\ Saved(f, r)
    BY <1>2, <1>4 DEF r
  <2>2. s \in DOMAIN r.mem.pend /\ r.mem.pend[s].rest = rest
    BY <1>4
  <2>3. ChunkTaken(f, r, q, s, rest)
    BY <2>1, <2>2, ChunkOK
  <2> HIDE DEF q
  <2> QED BY <2>3 DEF ChunkTaken
<1>6. n = [k EXCEPT !.replica[f] = q,
                    !.blbt = IF Len(rest) = 1 THEN bt ELSE ArmBlb(bt, Tail(rest), f, s)]
  BY <1>4 DEF OneChain, Expects, f, s, r
<1> HIDE DEF n, q, reps, bt
<1>7. /\ nreps = [g \in Feed |-> IF g = f THEN q ELSE reps[g]]
      /\ nreps = [reps EXCEPT ![f] = nreps[f]]
      /\ n = [replica |-> nreps, dmxt |-> n.dmxt, blbt |-> n.blbt]
      /\ n.dmxt = k.dmxt
      /\ n.blbt = IF Len(rest) = 1 THEN bt ELSE ArmBlb(bt, Tail(rest), f, s)
  <2>1. n = [replica |-> [reps EXCEPT ![f] = q], dmxt |-> k.dmxt,
             blbt |-> IF Len(rest) = 1 THEN bt ELSE ArmBlb(bt, Tail(rest), f, s)]
    BY <1>1, <1>6 DEF reps, bt
  <2> QED BY <1>1, <1>4, <2>1
<1> HIDE DEF nreps
<1>8. /\ nreps[f] = q /\ r = reps[f] /\ nreps = [g \in Feed |-> nreps[g]]
      /\ \A g \in Feed : g # f => nreps[g] = reps[g]
  BY <1>4, <1>7 DEF r
<1>9. \A g \in keys : Saved(g, nreps[g])
  BY <1>2, <1>5, <1>8
<1>10. ASSUME NEW g \in keys PROVE Grows(g, m.replica[g].mem, nreps[g].mem)
  <2>1. CASE g = f
    <3>1. FrontierOK(f, m.replica[f].mem) /\ FrontierOK(f, r.mem) /\ FrontierOK(f, q.mem)
      BY <1>2, <1>4, <1>5, <1>8 DEF Saved
    <3>2. Grows(f, m.replica[f].mem, r.mem)
      BY <1>2, <1>4, <1>8
    <3>3. Grows(f, m.replica[f].mem, q.mem)
      BY <1>5, <1>4, <3>1, <3>2, GrowsTrans
    <3> QED BY <1>8, <2>1, <3>3
  <2>2. CASE g # f
    BY <1>2, <1>8, <2>2
  <2> QED BY <2>1, <2>2
<1>11. \A g \in Feed \ keys : nreps[g] = m.replica[g]
  BY <1>1, <1>4, <1>8
<1>12. n.dmxt = {<<g, nreps[g].mem.seq + 1>> : g \in keys}
  <2>1. \A g \in keys : nreps[g].mem.seq = reps[g].mem.seq
    BY <1>5, <1>8
  <2>2. {<<g, nreps[g].mem.seq + 1>> : g \in keys} = {<<g, reps[g].mem.seq + 1>> : g \in keys}
    BY <2>1
  <2> QED BY <1>1, <1>7, <2>2
<1>13. V \in SUBSET Wait
  BY <1>9, WaitsIs
<1>14. ASSUME NEW g \in Feed, NEW i, NEW x
       PROVE  /\ <<<<g, i>>, x>> \in W <=>
                   g \in keys /\ i \in DOMAIN reps[g].mem.pend /\ x = reps[g].mem.pend[i].rest
              /\ <<<<g, i>>, x>> \in V <=>
                   g \in keys /\ i \in DOMAIN nreps[g].mem.pend /\ x = nreps[g].mem.pend[i].rest
  BY DEF Waits
<1> HIDE DEF W, V
<1>15. ASSUME NEW x
       PROVE  /\ <<<<f, s>>, x>> \in W <=> x = rest
              /\ <<<<f, s>>, x>> \in V <=> Len(rest) # 1 /\ x = Tail(rest)
  <2>1. /\ <<<<f, s>>, x>> \in W <=> s \in DOMAIN old /\ x = old[s].rest
        /\ <<<<f, s>>, x>> \in V <=> s \in DOMAIN new /\ x = new[s].rest
    BY <1>4, <1>8, <1>14
  <2> HIDE DEF old, new
  <2> QED BY <1>4, <1>5, <2>1
<1>16. ASSUME NEW g \in Feed, NEW i, NEW x, <<g, i>> # <<f, s>>
       PROVE  <<<<g, i>>, x>> \in V <=> <<<<g, i>>, x>> \in W
  <2>1. CASE g # f
    BY <1>8, <1>14, <2>1
  <2>2. CASE g = f
    <3>1. i # s
      BY <1>16, <2>2
    <3>2. /\ <<<<f, i>>, x>> \in W <=> i \in DOMAIN old /\ x = old[i].rest
          /\ <<<<f, i>>, x>> \in V <=> i \in DOMAIN new /\ x = new[i].rest
      BY <1>4, <1>8, <1>14
    <3> HIDE DEF old, new
    <3> QED BY <1>5, <2>2, <3>1, <3>2
  <2> QED BY <2>1, <2>2
<1> HIDE DEF old, new
<1>17. For(V, rest) = left \ {chain}
  <2>1. \A c : c \in For(V, rest) <=> <<c, rest>> \in V
    BY <1>13, ForIs
  <2>2. \A c : c \in left <=> <<c, rest>> \in W
    BY <1>1, <1>3, ForIs
  <2>3. ASSUME NEW c PROVE <<c, rest>> \in V <=> <<c, rest>> \in W /\ c # chain
    <3>1. CASE c = chain
      <4>1. ~(<<<<f, s>>, rest>> \in V)
        BY <1>5, <1>15
      <4> QED BY <1>4, <3>1, <4>1
    <3>2. CASE c # chain
      <4>1. <<c, rest>> \in V \union W => \E g \in Feed, i \in Nat : c = <<g, i>>
        BY <1>3, <1>13 DEF Wait, Chain
      <4> SUFFICES ASSUME NEW g \in Feed, NEW i \in Nat, c = <<g, i>>
                   PROVE  <<c, rest>> \in V <=> <<c, rest>> \in W
        BY <3>2, <4>1
      <4>2. <<g, i>> # <<f, s>>
        BY <1>4, <3>2
      <4>3. <<<<g, i>>, rest>> \in V <=> <<<<g, i>>, rest>> \in W
        BY <1>16, <4>2
      <4> QED BY <4>3
    <3> QED BY <3>1, <3>2
  <2>4. \A c : c \in For(V, rest) <=> c \in left \ {chain}
    BY <2>1, <2>2, <2>3
  <2> QED BY <2>4
<1>18. Y \in SUBSET Wait /\ Z \in SUBSET Wait
  BY <1>3, <1>4, <1>5, <1>13 DEF Wait
<1>19. ASSUME NEW c \in Chain, NEW x
       PROVE  <<c, x>> \in Z <=>
                <<c, x>> \in Y \/ (Len(rest) # 1 /\ c = chain /\ x = Tail(rest))
  <2>1. CASE c = chain
    <3>1. /\ <<chain, x>> \in W <=> x = rest
          /\ <<chain, x>> \in V <=> Len(rest) # 1 /\ x = Tail(rest)
      BY <1>4, <1>15
    <3> QED BY <2>1, <3>1
  <2>2. CASE c # chain
    <3>1. PICK g \in Feed, i \in Nat : c = <<g, i>>
      BY DEF Chain
    <3>2. <<g, i>> # <<f, s>>
      BY <1>4, <2>2, <3>1
    <3>3. <<<<g, i>>, x>> \in V <=> <<<<g, i>>, x>> \in W
      BY <1>16, <3>2
    <3> QED BY <2>2, <3>1, <3>3
  <2> QED BY <2>1, <2>2
<1>20. <<chain, Tail(rest)>> \notin Y
  <2>1. <<<<f, s>>, Tail(rest)>> \notin W
    BY <1>5, <1>15
  <2> QED BY <1>4, <1>5, <2>1
<1> HIDE DEF Y, Z
<1>21. ListsFor(n.blbt, Z)
  <2>1. CASE Len(rest) = 1
    <3>1. \A g \in Feed, i \in Nat, x \in Seq(Nat) :
            <<<<g, i>>, x>> \in Z <=> <<<<g, i>>, x>> \in Y
      <4> TAKE g \in Feed, i \in Nat, x \in Seq(Nat)
      <4>1. <<g, i>> \in Chain
        BY DEF Chain
      <4> QED BY <1>19, <2>1, <4>1
    <3>2. Z = Y
      BY <1>18, <3>1, WaitSetsEqual
    <3> QED BY <1>1, <1>7, <2>1, <3>2
  <2>2. CASE Len(rest) # 1
    <3> DEFINE X == Y \union {<<chain, Tail(rest)>>}
    <3>1. X \in SUBSET Wait
      <4>1. <<chain, Tail(rest)>> \in Wait
        BY <1>4, <1>5 DEF Wait
      <4> QED BY <1>18, <4>1
    <3>2. ASSUME NEW g \in Feed, NEW i \in Nat, NEW x \in Seq(Nat)
          PROVE  <<<<g, i>>, x>> \in Z <=> <<<<g, i>>, x>> \in X
      <4>1. <<g, i>> \in Chain
        BY DEF Chain
      <4> QED BY <1>19, <2>2, <4>1
    <3>3. Z = X
      <4> HIDE DEF X
      <4> QED BY <1>18, <3>1, <3>2, WaitSetsEqual
    <3>4. ListsFor(ArmBlb(bt, Tail(rest), f, s), Y \union {<<<<f, s>>, Tail(rest)>>})
      <4>1. <<<<f, s>>, Tail(rest)>> \notin Y /\ f \in Feed
        BY <1>4, <1>20
      <4> QED BY <1>1, <1>4, <1>5, <1>18, <4>1, ArmOK
    <3>5. Z = Y \union {<<<<f, s>>, Tail(rest)>>}
      BY <1>4, <3>3
    <3> QED BY <1>7, <2>2, <3>4, <3>5
  <2> QED BY <2>1, <2>2
<1>22. Advanced(keys, m, n, rest, took2, left \ {chain})
  BY <1>7, <1>8, <1>9, <1>10, <1>11, <1>12, <1>17, <1>21 DEF Advanced, nreps, V, Z
<1>23. nreps = [reps EXCEPT ![f] = nreps[f]] /\ chain \in Chain /\ f \in keys
  BY <1>4, <1>7
<1> QED BY <1>22, <1>23 DEF n, nreps, reps, f

(* The chunk goes through its whole list. *)
Took(list, k) == {list[j] : j \in 1..k}
Left(list, k) == {list[j] : j \in k+1..Len(list)}

LEMMA ChainsOK ==
  ASSUME NEW keys \in SUBSET Feed, NEW m, MemOK(keys, m), NEW rest \in DOMAIN m.blbt
  PROVE  LET list == m.blbt[rest] IN
         /\ Len(list) \in Nat /\ DOMAIN list = 1..Len(list)
         /\ \A k \in 0..Len(list) :
              Advanced(keys, m, Chains(m, rest, k), rest, Took(list, k), Left(list, k))
         /\ \A k \in 1..Len(list) : list[k][1] \in keys
<1> DEFINE list == m.blbt[rest]
           n == Len(list)
           reps == m.replica
           bt == m.blbt
           W == Waits(keys, reps)
           C(k) == Chains(m, rest, k)
           Done(k) == Advanced(keys, m, C(k), rest, Took(list, k), Left(list, k))
<1>1. /\ m = [replica |-> reps, dmxt |-> m.dmxt, blbt |-> bt]
      /\ reps = [f \in Feed |-> reps[f]]
      /\ m.dmxt = {<<f, reps[f].mem.seq + 1>> : f \in keys}
      /\ ListsFor(bt, W)
  BY DEF MemOK
<1>2. \A f \in keys : Saved(f, m.replica[f])
  BY DEF MemOK
<1>3. list \in Seq(Chain) /\ IsInjective(list) /\ ToSet(list) = For(W, rest)
  BY <1>1 DEF ListsFor, For
<1>4. n \in Nat /\ DOMAIN list = 1..n /\ \A k \in 1..n : list[k] \in Chain
  BY <1>3, LenProperties, ElementOfSeq
<1>5. /\ C(0) = m
      /\ \A k \in 1..n : C(k) = OneChain(C(k-1), rest, list[k])
  <2> HIDE DEF n
  <2> QED BY <1>4, ChainsSteps
<1> HIDE DEF list, C
<1>6. Done(0)
  <2>1. Took(list, 0) = {} /\ Took(list, 0) \X {rest} = {}
    BY DEF Took
  <2>2. Left(list, 0) = For(W, rest)
    BY <1>3, <1>4 DEF Left, ToSet
  <2>3. \A f \in keys : Grows(f, m.replica[f].mem, m.replica[f].mem)
    <3> TAKE f \in keys
    <3>1. FrontierOK(f, m.replica[f].mem)
      BY <1>2 DEF Saved
    <3> QED BY <3>1, GrowsRefl
  <2>4. ListsFor(m.blbt, Waits(keys, m.replica) \union (Took(list, 0) \X {rest}))
    <3>1. Waits(keys, m.replica) \union (Took(list, 0) \X {rest}) = Waits(keys, m.replica)
      BY <2>1
    <3> QED BY <1>1, <3>1
  <2> QED BY <1>1, <1>2, <1>5, <2>2, <2>3, <2>4 DEF Advanced
<1>7. \A k \in 0..n : Took(list, k) \in SUBSET Chain
  BY <1>4 DEF Took
<1> HIDE DEF n
<1>8. ASSUME NEW k \in 1..n, Done(k-1)
      PROVE  Done(k) /\ list[k][1] \in keys
  <2> DEFINE chain == list[k]
             took == Took(list, k-1)
             left == Left(list, k-1)
  <2>1. k-1 \in 0..n /\ chain \in left
    <3>1. k \in (k-1)+1..n /\ k-1 \in 0..n
      BY <1>4
    <3> QED BY <3>1 DEF Left, n
  <2>2. Took(list, k) = took \union {chain}
    <3>1. \A j : j \in 1..k <=> j \in 1..k-1 \/ j = k
      BY <1>4
    <3> QED BY <3>1 DEF Took
  <2>3. Left(list, k) = left \ {chain}
    <3>1. \A j : j \in k+1..n <=> j \in (k-1)+1..n /\ j # k
      BY <1>4
    <3>2. \A j \in (k-1)+1..n : j # k => list[j] # list[k]
      BY <1>3, <1>4 DEF IsInjective
    <3>3. Left(list, k) = {list[j] : j \in k+1..n} /\ left = {list[j] : j \in (k-1)+1..n}
      BY DEF Left, n
    <3> QED BY <3>1, <3>2, <3>3
  <2>4. took \in SUBSET Chain /\ Advanced(keys, m, C(k-1), rest, took, left)
    BY <1>7, <1>8, <2>1
  <2> HIDE DEF took, left, chain, Done
  <2>5. /\ Advanced(keys, m, OneChain(C(k-1), rest, chain), rest, took \union {chain}, left \ {chain})
        /\ chain[1] \in keys
    BY <1>2, <2>1, <2>4, OneChainOK
  <2>6. C(k) = OneChain(C(k-1), rest, chain)
    BY <1>5 DEF chain
  <2> QED BY <2>2, <2>3, <2>5, <2>6 DEF Done, chain
<1> HIDE DEF Done
<1>9. \A k \in 0..n : Done(k)
  <2> DEFINE T == {k \in 0..n : ~Done(k)}
  <2> SUFFICES ASSUME T # {} PROVE FALSE
    OBVIOUS
  <2>1. PICK k \in T : \A j \in T : k <= j
    <3>1. T \in SUBSET Nat
      OBVIOUS
    <3> HIDE DEF T
    <3> QED BY <3>1, LeastNat
  <2>2. k \in 0..n /\ ~Done(k)
    OBVIOUS
  <2>3. k # 0
    BY <1>6, <2>2
  <2>4. k-1 \in 0..n /\ k-1 \notin T /\ k \in 1..n
    <3>1. k-1 \in 0..n /\ ~(k <= k-1) /\ k \in 1..n
      BY <1>4, <2>2, <2>3
    <3> HIDE DEF T
    <3> QED BY <2>1, <3>1
  <2> QED BY <1>8, <2>2, <2>4
<1>10. \A k \in 1..n : list[k][1] \in keys
  <2> TAKE k \in 1..n
  <2>1. k-1 \in 0..n
    BY <1>4
  <2> QED BY <1>8, <1>9, <2>1
<1> QED BY <1>4, <1>9, <1>10 DEF Done, n, C, list

LEMMA IncomingChunkOK ==
  ASSUME NEW keys \in SUBSET Feed, NEW m, MemOK(keys, m), NEW rest \in DOMAIN m.blbt
  PROVE  LET n == IncomingChunk(m, rest) IN
         /\ MemOK(keys, n)
         /\ \A f \in Feed \ keys : n.replica[f] = m.replica[f]
         /\ \A f \in keys : Grows(f, m.replica[f].mem, n.replica[f].mem)
<1> DEFINE list == m.blbt[rest]
           k == Len(list)
           done == Chains(m, rest, k)
           n == IncomingChunk(m, rest)
           reps == done.replica
           bt == done.blbt
           W == Waits(keys, reps)
           took == Took(list, k)
           Y == W \union (took \X {rest})
<1>1. k \in Nat /\ Advanced(keys, m, done, rest, took, Left(list, k)) /\ DOMAIN list = 1..k
  <2>1. k \in Nat /\ DOMAIN list = 1..k
    BY ChainsOK
  <2>2. \A j \in 0..k : Advanced(keys, m, Chains(m, rest, j), rest, Took(list, j), Left(list, j))
    BY ChainsOK
  <2> HIDE DEF list, k
  <2>3. k \in 0..k
    BY <2>1
  <2> QED BY <2>1, <2>2, <2>3
<1>2. n = IF done = m THEN m ELSE [done EXCEPT !.blbt = DisarmBlb(@, rest)]
  BY DEF IncomingChunk
<1>3. Left(list, k) = {}
  BY <1>1 DEF Left
<1>4. /\ done = [replica |-> reps, dmxt |-> done.dmxt, blbt |-> bt]
      /\ reps = [f \in Feed |-> reps[f]]
      /\ \A f \in Feed \ keys : reps[f] = m.replica[f]
      /\ done.dmxt = {<<f, reps[f].mem.seq + 1>> : f \in keys}
      /\ ListsFor(bt, Y) /\ For(W, rest) = {}
  <2> HIDE DEF done, list, k, took
  <2> QED BY <1>1, <1>3 DEF Advanced
<1>5. /\ \A f \in keys : Saved(f, reps[f])
      /\ \A f \in keys : Grows(f, m.replica[f].mem, reps[f].mem)
  <2> HIDE DEF done, list, k, took
  <2> QED BY <1>1 DEF Advanced
<1>6. list \in Seq(Chain) /\ rest \in Seq(Nat)
  <2> DEFINE X == Waits(keys, m.replica)
  <2>1. /\ DOMAIN m.blbt = {w[2] : w \in X}
        /\ list \in Seq(Chain)
    BY DEF MemOK, ListsFor
  <2>2. X \in SUBSET Wait
    <3> DEFINE reps0 == m.replica
    <3>1. \A f \in keys : Saved(f, reps0[f])
      BY DEF MemOK
    <3> HIDE DEF reps0
    <3>2. Waits(keys, reps0) \in SUBSET Wait
      BY <3>1, WaitsIs
    <3> QED BY <3>2 DEF reps0
  <2> HIDE DEF X
  <2> QED BY <2>1, <2>2 DEF Wait
<1>7. took \in SUBSET Chain
  BY <1>1, <1>6, ElementOfSeq DEF Took
<1> HIDE DEF done, n, list, k, took
<1>8. CASE done = m
  <2>1. n = m
    BY <1>2, <1>8
  <2> QED BY <1>4, <1>5, <1>8, <2>1 DEF n
<1>9. CASE done # m
  <2> HIDE DEF reps, bt
  <2>1. n = [replica |-> reps, dmxt |-> done.dmxt, blbt |-> DisarmBlb(bt, rest)]
    BY <1>2, <1>4, <1>9 DEF reps, bt
  <2>2. W \in SUBSET Wait
    BY <1>5, WaitsIs
  <2> HIDE DEF W
  <2>3. ASSUME NEW w \in W PROVE w[2] # rest
    <3>1. w[2] = rest => w[1] \in For(W, rest)
      BY DEF For
    <3> QED BY <1>4, <3>1
  <2>4. Y \in SUBSET Wait
    BY <1>6, <1>7, <2>2 DEF Wait
  <2>5. {w \in Y : w[2] # rest} = W
    BY <2>3
  <2> HIDE DEF Y
  <2>6. ListsFor(DisarmBlb(bt, rest), {w \in Y : w[2] # rest})
    BY <1>4, <2>4, DisarmOK
  <2>7. n.replica = reps /\ n.dmxt = done.dmxt /\ n.blbt = DisarmBlb(bt, rest)
        /\ n = [replica |-> n.replica, dmxt |-> n.dmxt, blbt |-> n.blbt]
    BY <2>1
  <2>8. ListsFor(n.blbt, Waits(keys, n.replica))
    BY <2>5, <2>6, <2>7 DEF W
  <2>9. MemOK(keys, n)
    BY <1>4, <1>5, <2>7, <2>8 DEF MemOK
  <2> QED BY <1>4, <1>5, <2>7, <2>9 DEF n
<1> QED BY <1>8, <1>9

-----------------------------------------------------------------------------
(***************************************************************************)
(* A packet, with and without a power failure.                             *)
(***************************************************************************)
LEMMA PacketIs ==
  ASSUME NEW pkt \in Packet
  PROVE  \/ \E f \in Feed : \E s \in DOMAIN Log[f] : pkt = Entry(f, s) /\ pkt.typ = "e"
         \/ pkt.typ # "e"
<1>0. PICK f \in Feed :
        pkt \in UNION {{Entry(f, s)} \union {Chunk(r) : r \in Rests(Log[f][s])} :
                         s \in DOMAIN Log[f]}
  BY DEF Packet
<1>1. PICK s \in DOMAIN Log[f] :
        pkt \in {Entry(f, s)} \union {Chunk(r) : r \in Rests(Log[f][s])}
  BY <1>0
<1>2. Entry(f, s).typ = "e" /\ \A r : Chunk(r).typ # "e"
  BY DEF Entry, Chunk
<1> QED BY <1>1, <1>2

After(keys, m, n) ==
  /\ MemOK(keys, n)
  /\ \A f \in Feed \ keys : n.replica[f] = m.replica[f]
  /\ \A f \in keys : Grows(f, m.replica[f].mem, n.replica[f].mem)

LEMMA AfterRefl ==
  ASSUME NEW keys \in SUBSET Feed, NEW m, MemOK(keys, m)
  PROVE  After(keys, m, m)
<1>1. ASSUME NEW f \in keys PROVE Grows(f, m.replica[f].mem, m.replica[f].mem)
  <2>1. FrontierOK(f, m.replica[f].mem)
    BY DEF MemOK, Saved
  <2> QED BY <2>1, GrowsRefl
<1> QED BY <1>1 DEF After

LEMMA HandledOK ==
  ASSUME NEW keys \in SUBSET Feed, Cardinality(keys) <= MaxKeys, NEW m, MemOK(keys, m),
         NEW pkt \in Packet
  PROVE  After(keys, m, Handled(m, pkt))
<1>1. CASE \E f \in Feed : \E s \in DOMAIN Log[f] : pkt = Entry(f, s) /\ pkt.typ = "e"
  <2>0. PICK f \in Feed : \E s \in DOMAIN Log[f] : pkt = Entry(f, s) /\ pkt.typ = "e"
    BY <1>1
  <2>1. PICK s \in DOMAIN Log[f] : pkt = Entry(f, s) /\ pkt.typ = "e"
    BY <2>0
  <2>2. CASE TakesEntry(m, pkt)
    <3> DEFINE n == IncomingPkt(m, pkt)
               reps == m.replica
    <3>1. Handled(m, pkt) = n
      BY <2>1, <2>2 DEF Handled
    <3>2. /\ f \in keys /\ MemOK(keys, n)
          /\ n.replica = [reps EXCEPT ![f] = n.replica[f]]
          /\ Grows(f, reps[f].mem, n.replica[f].mem)
      BY <2>1, <2>2, IncomingOK
    <3>3. reps = [g \in Feed |-> reps[g]]
      BY DEF MemOK
    <3>4. \A g \in keys : Grows(g, reps[g].mem, reps[g].mem)
      BY AfterRefl DEF After
    <3> HIDE DEF n, reps
    <3>5. \A g \in Feed : g # f => n.replica[g] = reps[g]
      BY <3>2, <3>3
    <3>6. \A g \in keys : Grows(g, reps[g].mem, n.replica[g].mem)
      BY <3>2, <3>4, <3>5
    <3>7. \A g \in Feed \ keys : n.replica[g] = reps[g]
      BY <3>2, <3>5
    <3> QED BY <3>1, <3>2, <3>6, <3>7 DEF After, reps
  <2>3. CASE ~TakesEntry(m, pkt)
    <3>1. Handled(m, pkt) = m
      BY <2>1, <2>3 DEF Handled
    <3> QED BY <3>1, AfterRefl
  <2> QED BY <2>2, <2>3
<1>2. CASE pkt.typ # "e"
  <2>1. CASE pkt.rest \in DOMAIN m.blbt
    <3>1. Handled(m, pkt) = IncomingChunk(m, pkt.rest)
      BY <1>2, <2>1 DEF Handled
    <3> DEFINE n == IncomingChunk(m, pkt.rest)
    <3>2. /\ MemOK(keys, n)
          /\ \A f \in Feed \ keys : n.replica[f] = m.replica[f]
          /\ \A f \in keys : Grows(f, m.replica[f].mem, n.replica[f].mem)
      BY <2>1, IncomingChunkOK
    <3> HIDE DEF n
    <3>3. After(keys, m, n)
      BY <3>2 DEF After
    <3> QED BY <3>1, <3>3 DEF n
  <2>2. CASE pkt.rest \notin DOMAIN m.blbt
    <3>1. Handled(m, pkt) = m
      BY <1>2, <2>2 DEF Handled
    <3> QED BY <3>1, AfterRefl
  <2> QED BY <2>1, <2>2
<1> QED BY <1>1, <1>2, PacketIs

(* Between the log and the rename of tmp.bin the constructor finds the     *)
(* frontier from before or the new one, or a torn file.                    *)
LEMMA MidwayOK ==
  ASSUME NEW f \in Feed, NEW r, Saved(f, r), NEW q, Saved(f, q), NEW x \in Midway(r, q),
         ~Unreadable(x)
  PROVE  Opened(x).mem \in {r.mem, q.mem}
<1>1. /\ r = [mem |-> r.mem, log |-> r.log, frt |-> {r.mem}, tmp |-> {}]
      /\ q.frt = {q.mem}
  BY DEF Saved
<1>2. PICK t \in {{}, {Torn}, q.frt} : x = [r EXCEPT !.log = q.log, !.tmp = t]
  BY DEF Midway
<1>3. x = [mem |-> r.mem, log |-> q.log, frt |-> {r.mem}, tmp |-> t]
  <2> DEFINE mem == r.mem
             log == r.log
  <2>1. r = [mem |-> mem, log |-> log, frt |-> {mem}, tmp |-> {}]
    BY <1>1
  <2> HIDE DEF mem, log
  <2>2. x = [[mem |-> mem, log |-> log, frt |-> {mem}, tmp |-> {}] EXCEPT !.log = q.log, !.tmp = t]
    BY <1>2, <2>1, Zenon
  <2>3. x = [mem |-> mem, log |-> q.log, frt |-> {mem}, tmp |-> t]
    BY <2>2
  <2> QED BY <2>3 DEF mem
<1>4. x.tmp = t /\ x.frt = {r.mem} /\ Torn \notin t
  BY <1>3 DEF Unreadable
<1>5. CASE t = {}
  <2>1. Opened(x) = Persisted(x, x.log, r.mem)
    BY <1>4, <1>5 DEF Opened
  <2> HIDE DEF Opened
  <2> QED BY <2>1 DEF Persisted
<1>6. CASE t = q.frt
  <2>1. Opened(x) = Persisted(x, x.log, q.mem)
    BY <1>1, <1>4, <1>6 DEF Opened
  <2> HIDE DEF Opened
  <2> QED BY <2>1 DEF Persisted
<1> QED BY <1>2, <1>4, <1>5, <1>6

(* What the power may leave on flash *)
FlashOK(keys, m, flash) ==
  /\ flash = [f \in Feed |-> flash[f]]
  /\ \A f \in Feed \ keys : flash[f] = m.replica[f]
  /\ \A f \in keys : ~Unreadable(flash[f]) =>
       FrontierOK(f, Opened(flash[f]).mem)
       /\ Grows(f, m.replica[f].mem, Opened(flash[f]).mem)

LEMMA AfterFlash ==
  ASSUME NEW keys \in SUBSET Feed, NEW m, NEW n, After(keys, m, n)
  PROVE  FlashOK(keys, m, n.replica)
<1>1. n.replica = [f \in Feed |-> n.replica[f]]
  BY DEF After, MemOK
<1>2. ASSUME NEW f \in keys
      PROVE  FrontierOK(f, Opened(n.replica[f]).mem)
             /\ Grows(f, m.replica[f].mem, Opened(n.replica[f]).mem)
  <2>1. Saved(f, n.replica[f]) /\ Grows(f, m.replica[f].mem, n.replica[f].mem)
    BY DEF After, MemOK
  <2>2. Opened(n.replica[f]).mem = n.replica[f].mem
    BY <2>1, OpenedSame
  <2> QED BY <2>1, <2>2 DEF Saved
<1> QED BY <1>1, <1>2 DEF After, FlashOK

LEMMA MidwayFlash ==
  ASSUME NEW keys \in SUBSET Feed, NEW m, NEW reps, reps = [g \in Feed |-> reps[g]],
         \A g \in Feed \ keys : reps[g] = m.replica[g],
         \A g \in keys : Saved(g, reps[g]) /\ Grows(g, m.replica[g].mem, reps[g].mem),
         NEW f \in keys, NEW q, Saved(f, q), Grows(f, m.replica[f].mem, q.mem),
         NEW x \in Midway(reps[f], q)
  PROVE  FlashOK(keys, m, [reps EXCEPT ![f] = x])
<1> DEFINE flash == [reps EXCEPT ![f] = x]
<1>1. flash[f] = x /\ flash = [g \in Feed |-> flash[g]]
      /\ \A g \in Feed : g # f => flash[g] = reps[g]
  OBVIOUS
<1> HIDE DEF flash
<1>2. ASSUME NEW g \in keys, ~Unreadable(flash[g])
      PROVE  FrontierOK(g, Opened(flash[g]).mem)
             /\ Grows(g, m.replica[g].mem, Opened(flash[g]).mem)
  <2>1. Saved(g, reps[g]) /\ Grows(g, m.replica[g].mem, reps[g].mem)
    OBVIOUS
  <2>2. CASE g = f
    <3>1. Opened(flash[f]).mem \in {reps[f].mem, q.mem}
      <4>1. ~Unreadable(x)
        BY <1>1, <1>2, <2>2
      <4>2. Saved(f, reps[f])
        BY <2>1, <2>2
      <4> QED BY <1>1, <4>1, <4>2, MidwayOK
    <3>2. FrontierOK(f, reps[f].mem) /\ FrontierOK(f, q.mem)
      BY <2>1, <2>2 DEF Saved
    <3> QED BY <2>1, <2>2, <3>1, <3>2
  <2>3. CASE g # f
    <3>1. flash[g] = reps[g]
      BY <1>1, <2>3
    <3>2. Opened(reps[g]).mem = reps[g].mem
      BY <2>1, OpenedSame
    <3> QED BY <2>1, <3>1, <3>2 DEF Saved
  <2> QED BY <2>2, <2>3
<1>3. \A g \in Feed \ keys : flash[g] = m.replica[g]
  BY <1>1
<1>4. FlashOK(keys, m, flash)
  BY <1>1, <1>2, <1>3 DEF FlashOK
<1> QED BY <1>4 DEF flash

LEMMA InterruptedOK ==
  ASSUME NEW keys \in SUBSET Feed, Cardinality(keys) <= MaxKeys, NEW m, MemOK(keys, m),
         NEW pkt \in Packet, NEW flash \in Interrupted(m, pkt)
  PROVE  FlashOK(keys, m, flash)
<1>1. CASE \E f \in Feed : \E s \in DOMAIN Log[f] : pkt = Entry(f, s) /\ pkt.typ = "e"
  <2>0. PICK f \in Feed : \E s \in DOMAIN Log[f] : pkt = Entry(f, s) /\ pkt.typ = "e"
    BY <1>1
  <2>1. PICK s \in DOMAIN Log[f] : pkt = Entry(f, s) /\ pkt.typ = "e"
    BY <2>0
  <2> DEFINE reps == m.replica
             n == IncomingPkt(m, pkt)
             q == n.replica[f]
  <2>2. TakesEntry(m, pkt) /\ pkt.fid = f
    BY <2>1 DEF Interrupted, Entry
  <2>3. PICK x \in Midway(reps[f], q) : flash = [reps EXCEPT ![f] = x]
    <3> HIDE DEF n
    <3> QED BY <2>1, <2>2 DEF Interrupted, n
  <2>4. f \in keys /\ MemOK(keys, n) /\ Grows(f, reps[f].mem, q.mem)
    BY <2>1, <2>2, IncomingOK
  <2>5. Saved(f, q)
    <3> HIDE DEF n
    <3> QED BY <2>4 DEF MemOK
  <2>6. /\ reps = [g \in Feed |-> reps[g]]
        /\ \A g \in keys : Saved(g, reps[g]) /\ Grows(g, reps[g].mem, reps[g].mem)
    BY AfterRefl DEF After, MemOK
  <2> HIDE DEF q, n
  <2>7. \A g \in Feed \ keys : reps[g] = m.replica[g]
    OBVIOUS
  <2>8. \A g \in keys : Saved(g, reps[g]) /\ Grows(g, m.replica[g].mem, reps[g].mem)
    BY <2>6
  <2>9. Grows(f, m.replica[f].mem, q.mem)
    BY <2>4
  <2> HIDE DEF reps
  <2>10. FlashOK(keys, m, [reps EXCEPT ![f] = x])
    BY <2>3, <2>4, <2>5, <2>6, <2>7, <2>8, <2>9, MidwayFlash
  <2> QED BY <2>3, <2>10
<1>2. CASE pkt.typ # "e"
  <2> DEFINE rest == pkt.rest
             list == m.blbt[rest]
             C(k) == Chains(m, rest, k)
  <2>1. rest \in DOMAIN m.blbt
    BY <1>2 DEF Interrupted
  <2>2. /\ Len(list) \in Nat /\ DOMAIN list = 1..Len(list)
        /\ \A k \in 0..Len(list) :
             Advanced(keys, m, C(k), rest, Took(list, k), Left(list, k))
        /\ \A k \in 1..Len(list) : list[k][1] \in keys
    BY <2>1, ChainsOK
  <2>3. PICK k \in DOMAIN list :
          flash \in {[C(k-1).replica EXCEPT ![list[k][1]] = r] :
                       r \in Midway(C(k-1).replica[list[k][1]], C(k).replica[list[k][1]])}
    <3> HIDE DEF C
    <3> QED BY <1>2, <2>1 DEF Interrupted, C
  <2> HIDE DEF C, list, rest
  <2> DEFINE h == list[k][1]
             reps == C(k-1).replica
             q == C(k).replica[h]
  <2>4. PICK x \in Midway(reps[h], q) : flash = [reps EXCEPT ![h] = x]
    BY <2>3
  <2>5. k \in 0..Len(list) /\ k-1 \in 0..Len(list) /\ h \in keys
    BY <2>2
  <2>6. /\ reps = [g \in Feed |-> reps[g]]
        /\ \A g \in Feed \ keys : reps[g] = m.replica[g]
        /\ \A g \in keys : Saved(g, reps[g]) /\ Grows(g, m.replica[g].mem, reps[g].mem)
    BY <2>2, <2>5 DEF Advanced
  <2>7. Saved(h, q) /\ Grows(h, m.replica[h].mem, q.mem)
    BY <2>2, <2>5 DEF Advanced
  <2> HIDE DEF q, reps, h
  <2>8. FlashOK(keys, m, [reps EXCEPT ![h] = x])
    BY <2>4, <2>5, <2>6, <2>7, MidwayFlash
  <2> QED BY <2>4, <2>8
<1> QED BY <1>1, <1>2, PacketIs

-----------------------------------------------------------------------------
(***************************************************************************)
(* The vectors: an element asks for what is missing.                       *)
(***************************************************************************)
MemAt(keys, reps, x) == reps[Keys(keys)[x]].mem
WantItem(keys, reps, x) == <<x, MemAt(keys, reps, x).seq + 1>>
ChnkItems(keys, reps, x) ==
  LET pend == MemAt(keys, reps, x).pend
      open == Keys(DOMAIN pend)
  IN [i \in DOMAIN open |-> <<x, open[i], pend[open[i]].cnr>>]

WantFresh(keys, reps, v) ==
  v.valid => \A item \in ToSet(v.items) :
    item[1] \in 1..Cardinality(keys) /\ item = WantItem(keys, reps, item[1])
ChnkFresh(keys, reps, v) ==
  v.valid =>
    /\ \A item \in ToSet(v.items) :
         item[1] \in 1..Cardinality(keys) /\ item \in ToSet(ChnkItems(keys, reps, item[1]))
    /\ v.items = <<>> => \A f \in keys : DOMAIN reps[f].mem.pend = {}

LEMMA FreshIs ==
  VectorsFresh <=> (up => WantFresh(goset, replica, want) /\ ChnkFresh(goset, replica, chnk))
<1>1. \A x : ReplicaAt(x) = MemAt(goset, replica, x)
  BY DEF ReplicaAt, MemAt
<1>2. \A x : WantOf(x) = <<WantItem(goset, replica, x)>>
  BY <1>1 DEF WantOf, WantItem
<1>3. \A x : ChnkOf(x) = ChnkItems(goset, replica, x)
  BY <1>1 DEF ChnkOf, ChnkItems
<1>4. OpenChains = {} <=> \A f \in goset : DOMAIN replica[f].mem.pend = {}
  <2>1. \A f \in goset : \A s \in DOMAIN replica[f].mem.pend : <<f, s>> \in OpenChains
    BY DEF OpenChains
  <2>2. \A c \in OpenChains : \E f \in goset : \E s \in DOMAIN replica[f].mem.pend : TRUE
    BY DEF OpenChains
  <2> QED BY <2>1, <2>2
<1>5. \A a, b : <<a>> = <<b>> <=> a = b
  OBVIOUS
<1> QED BY <1>2, <1>3, <1>4, <1>5 DEF VectorsFresh, WantFresh, ChnkFresh

LEMMA FreshIsNext ==
  VectorsFresh' <=>
    (up' => WantFresh(goset', replica', want') /\ ChnkFresh(goset', replica', chnk'))
<1>1. \A x : ReplicaAt(x)' = MemAt(goset', replica', x)
  BY DEF ReplicaAt, MemAt
<1>2. \A x : WantOf(x)' = <<WantItem(goset', replica', x)>>
  BY <1>1 DEF WantOf, WantItem
<1>3. \A x : ChnkOf(x)' = ChnkItems(goset', replica', x)
  BY <1>1 DEF ChnkOf, ChnkItems
<1>4. OpenChains' = {} <=> \A f \in goset' : DOMAIN replica'[f].mem.pend = {}
  <2>1. \A f \in goset' : \A s \in DOMAIN replica'[f].mem.pend : <<f, s>> \in OpenChains'
    BY DEF OpenChains
  <2>2. \A c \in OpenChains' : \E f \in goset' : \E s \in DOMAIN replica'[f].mem.pend : TRUE
    BY DEF OpenChains
  <2> QED BY <2>1, <2>2
<1>5. \A a, b : <<a>> = <<b>> <=> a = b
  OBVIOUS
<1> QED BY <1>2, <1>3, <1>4, <1>5 DEF VectorsFresh, WantFresh, ChnkFresh

(* Keys, read as an array *)
LEMMA KeysAre ==
  ASSUME NEW keys \in SUBSET Feed
  PROVE  /\ Cardinality(keys) \in Nat /\ DOMAIN Keys(keys) = 1..Cardinality(keys)
         /\ \A x \in 1..Cardinality(keys) : Keys(keys)[x] \in keys
         /\ \A f \in keys : \E x \in 1..Cardinality(keys) : Keys(keys)[x] = f
<1>1. keys \in SUBSET Nat /\ IsFiniteSet(keys)
  BY LogAssumption, FS_Subset
<1>2. /\ Keys(keys) \in Seq(keys) /\ Len(Keys(keys)) = Cardinality(keys)
      /\ Cardinality(keys) \in Nat
      /\ \A f \in keys : \E x \in 1..Cardinality(keys) : Keys(keys)[x] = f
  BY <1>1, KeysSorted
<1> QED BY <1>2, LenProperties, ElementOfSeq

(* dmxt fixes the frontiers, and blbt what is open and how far.            *)
LEMMA SameTables ==
  ASSUME NEW keys \in SUBSET Feed, NEW m, MemOK(keys, m), NEW n, MemOK(keys, n), NEW f \in keys
  PROVE  /\ m.dmxt = n.dmxt => m.replica[f].mem.seq = n.replica[f].mem.seq
         /\ m.blbt = n.blbt =>
              /\ DOMAIN m.replica[f].mem.pend = DOMAIN n.replica[f].mem.pend
              /\ \A s \in DOMAIN m.replica[f].mem.pend :
                   m.replica[f].mem.pend[s].cnr = n.replica[f].mem.pend[s].cnr
<1> DEFINE a == m.replica
           b == n.replica
           W == Waits(keys, a)
           V == Waits(keys, b)
<1>1. /\ \A g \in keys : Saved(g, a[g])
      /\ m.dmxt = {<<g, a[g].mem.seq + 1>> : g \in keys}
      /\ ListsFor(m.blbt, W)
  BY DEF MemOK
<1>2. /\ \A g \in keys : Saved(g, b[g])
      /\ n.dmxt = {<<g, b[g].mem.seq + 1>> : g \in keys}
      /\ ListsFor(n.blbt, V)
  BY DEF MemOK
<1>3. FrontierOK(f, a[f].mem) /\ FrontierOK(f, b[f].mem)
  BY <1>1, <1>2 DEF Saved
<1> HIDE DEF a, b
<1>4. a[f].mem.seq \in Nat /\ b[f].mem.seq \in Nat
  BY <1>3, FrontierIs
<1>5. ASSUME m.dmxt = n.dmxt PROVE a[f].mem.seq = b[f].mem.seq
  <2>1. <<f, a[f].mem.seq + 1>> \in n.dmxt
    BY <1>1, <1>5
  <2>2. a[f].mem.seq + 1 = b[f].mem.seq + 1
    BY <1>2, <2>1
  <2> QED BY <1>4, <2>2
<1>6. W \in SUBSET Wait /\ V \in SUBSET Wait
  BY <1>1, <1>2, WaitsIs
<1>7. ASSUME NEW s, NEW rest
      PROVE  /\ <<<<f, s>>, rest>> \in W <=> s \in DOMAIN a[f].mem.pend /\ rest = a[f].mem.pend[s].rest
             /\ <<<<f, s>>, rest>> \in V <=> s \in DOMAIN b[f].mem.pend /\ rest = b[f].mem.pend[s].rest
  BY DEF Waits
<1> HIDE DEF W, V
<1>8. ASSUME NEW bt, NEW X \in SUBSET Wait, ListsFor(bt, X), NEW c, NEW rest
      PROVE  <<c, rest>> \in X <=> rest \in DOMAIN bt /\ c \in ToSet(bt[rest])
  <2>1. DOMAIN bt = {w[2] : w \in X} /\ \A r \in DOMAIN bt : ToSet(bt[r]) = For(X, r)
    BY <1>8 DEF ListsFor, For
  <2>2. c \in For(X, rest) <=> <<c, rest>> \in X
    BY ForIs
  <2>3. <<c, rest>> \in X => rest \in DOMAIN bt
    BY <2>1
  <2> QED BY <2>1, <2>2, <2>3
<1>9. ASSUME m.blbt = n.blbt, NEW s
      PROVE  /\ s \in DOMAIN a[f].mem.pend <=> s \in DOMAIN b[f].mem.pend
             /\ s \in DOMAIN a[f].mem.pend => a[f].mem.pend[s].rest = b[f].mem.pend[s].rest
  <2>1. \A rest : <<<<f, s>>, rest>> \in W <=> <<<<f, s>>, rest>> \in V
    BY <1>1, <1>2, <1>6, <1>8, <1>9
  <2> QED BY <1>7, <2>1
<1>10. ASSUME NEW s, s \in DOMAIN a[f].mem.pend, s \in DOMAIN b[f].mem.pend,
              a[f].mem.pend[s].rest = b[f].mem.pend[s].rest
       PROVE  a[f].mem.pend[s].cnr = b[f].mem.pend[s].cnr
  <2> DEFINE chain == Log[f][s]
             len == Len(chain)
             fa == a[f].mem
             fb == b[f].mem
             i == fa.pend[s].cnr
             j == fb.pend[s].cnr
             ra == SubSeq(chain, i+1, len)
             rb == SubSeq(chain, j+1, len)
  <2>1. /\ f \in Feed /\ FrontierOK(f, fa) /\ s \in DOMAIN fa.pend /\ FrontierOK(f, fb) /\ s \in DOMAIN fb.pend
        /\ fa.pend[s].rest = fb.pend[s].rest
    BY <1>3, <1>10
  <2> HIDE DEF fa, fb
  <2>2. /\ i \in Nat /\ i < len /\ fa.pend[s].rest = ra /\ s \in 1..Len(Log[f])
        /\ j \in Nat /\ j < len /\ fb.pend[s].rest = rb
    <3>1. /\ fa.pend[s].cnr \in Nat /\ fa.pend[s].cnr < Len(Log[f][s]) /\ s \in 1..Len(Log[f])
          /\ fa.pend[s].rest = SubSeq(Log[f][s], fa.pend[s].cnr + 1, Len(Log[f][s]))
      BY <2>1, PendIs
    <3>2. /\ fb.pend[s].cnr \in Nat /\ fb.pend[s].cnr < Len(Log[f][s])
          /\ fb.pend[s].rest = SubSeq(Log[f][s], fb.pend[s].cnr + 1, Len(Log[f][s]))
      BY <2>1, PendIs
    <3> QED BY <3>1, <3>2
  <2>3. chain \in Seq(Nat)
    BY <2>2, LogIs
  <2> HIDE DEF i, j, chain
  <2>4. Len(ra) = len - i /\ Len(rb) = len - j /\ len \in Nat
    BY <2>2, <2>3, RestIs
  <2>5. ra = rb
    BY <2>1, <2>2
  <2> HIDE DEF ra, rb, len
  <2>6. i = j
    BY <2>2, <2>4, <2>5
  <2> QED BY <2>6 DEF i, j, fa, fb
<1>11. ASSUME m.blbt = n.blbt
       PROVE  /\ DOMAIN a[f].mem.pend = DOMAIN b[f].mem.pend
              /\ \A s \in DOMAIN a[f].mem.pend : a[f].mem.pend[s].cnr = b[f].mem.pend[s].cnr
  BY <1>9, <1>10, <1>11
<1> QED BY <1>5, <1>11 DEF a, b

LEMMA KeepsFresh ==
  ASSUME NEW keys \in SUBSET Feed, NEW m, MemOK(keys, m), NEW n, MemOK(keys, n), NEW v
  PROVE  /\ m.dmxt = n.dmxt /\ WantFresh(keys, m.replica, v) => WantFresh(keys, n.replica, v)
         /\ m.blbt = n.blbt /\ ChnkFresh(keys, m.replica, v) => ChnkFresh(keys, n.replica, v)
<1> DEFINE a == m.replica
           b == n.replica
<1>1. \A x \in 1..Cardinality(keys) : Keys(keys)[x] \in keys
  BY KeysAre
<1>2. ASSUME m.dmxt = n.dmxt, NEW x \in 1..Cardinality(keys)
      PROVE  WantItem(keys, a, x) = WantItem(keys, b, x)
  <2>1. a[Keys(keys)[x]].mem.seq = b[Keys(keys)[x]].mem.seq
    BY <1>1, <1>2, SameTables
  <2> QED BY <2>1 DEF WantItem, MemAt
<1>3. ASSUME m.blbt = n.blbt, NEW x \in 1..Cardinality(keys)
      PROVE  ChnkItems(keys, a, x) = ChnkItems(keys, b, x)
  <2> DEFINE p == a[Keys(keys)[x]].mem.pend
             q == b[Keys(keys)[x]].mem.pend
             open == Keys(DOMAIN p)
  <2>1. DOMAIN p = DOMAIN q /\ \A s \in DOMAIN p : p[s].cnr = q[s].cnr
    <3> DEFINE f == Keys(keys)[x]
    <3>1. f \in keys
      BY <1>1
    <3> HIDE DEF f
    <3>2. /\ DOMAIN m.replica[f].mem.pend = DOMAIN n.replica[f].mem.pend
          /\ \A s \in DOMAIN m.replica[f].mem.pend :
               m.replica[f].mem.pend[s].cnr = n.replica[f].mem.pend[s].cnr
      BY <1>3, <3>1, SameTables
    <3> QED BY <3>2 DEF f
  <2>2. FrontierOK(Keys(keys)[x], a[Keys(keys)[x]].mem)
    BY <1>1 DEF MemOK, Saved
  <2>3. DOMAIN p \in SUBSET Nat /\ IsFiniteSet(DOMAIN p)
    BY <1>1, <2>2, FrontierIs
  <2>4. \A i \in DOMAIN open : open[i] \in DOMAIN p
    <3> HIDE DEF p
    <3>1. open \in Seq(DOMAIN p)
      BY <2>3, KeysSorted
    <3> HIDE DEF open
    <3> QED BY <3>1, LenProperties, ElementOfSeq
  <2> HIDE DEF p, q
  <2>5. open = Keys(DOMAIN q)
    BY <2>1
  <2> HIDE DEF open
  <2>6. [i \in DOMAIN open |-> <<x, open[i], p[open[i]].cnr>>]
        = [i \in DOMAIN open |-> <<x, open[i], q[open[i]].cnr>>]
    BY <2>1, <2>4
  <2> QED BY <2>5, <2>6 DEF ChnkItems, MemAt, open, p, q
<1>4. \A f \in keys : m.blbt = n.blbt => DOMAIN a[f].mem.pend = DOMAIN b[f].mem.pend
  BY SameTables
<1> HIDE DEF a, b
<1>5. m.dmxt = n.dmxt /\ WantFresh(keys, a, v) => WantFresh(keys, b, v)
  BY <1>2 DEF WantFresh
<1>6. m.blbt = n.blbt /\ ChnkFresh(keys, a, v) => ChnkFresh(keys, b, v)
  BY <1>3, <1>4 DEF ChnkFresh
<1> QED BY <1>5, <1>6 DEF a, b

(* The loop visits every feed, wherever it starts. *)
LEMMA RotatedIs ==
  ASSUME NEW offs \in 0..Cardinality(goset), Cardinality(goset) \in Nat
  PROVE  LET n == Cardinality(goset)
             rot == Rotated(offs)
         IN /\ rot \in [1..n -> 1..n] /\ Len(rot) = n
            /\ \A x \in 1..n : \E j \in 1..n : rot[j] = x
<1> DEFINE n == Cardinality(goset)
           rot == Rotated(offs)
<1>1. rot = [i \in 1..n |-> ((offs + i - 1) % n) + 1]
  BY DEF Rotated
<1> HIDE DEF n, rot
<1>2. n \in Nat /\ offs \in 0..n
  BY DEF n
<1>3. ASSUME NEW i \in 1..n PROVE rot[i] \in 1..n
  <2>1. n \in Nat \ {0} /\ offs + i - 1 \in Nat
    BY <1>2
  <2>2. (offs + i - 1) % n \in 0..n-1
    BY <2>1
  <2> DEFINE c == (offs + i - 1) % n
  <2>3. rot[i] = c + 1
    BY <1>1
  <2> HIDE DEF c
  <2>4. c \in 0..n-1
    BY <2>2 DEF c
  <2> QED BY <2>1, <2>3, <2>4
<1>4. rot \in [1..n -> 1..n]
  BY <1>1, <1>3
<1>5. Len(rot) = n
  BY <1>2, <1>4
<1>6. ASSUME NEW x \in 1..n PROVE \E j \in 1..n : rot[j] = x
  <2>1. n \in Nat \ {0} /\ x - 1 \in 0..n-1
    BY <1>2
  <2>2. (x - 1) % n = x - 1 /\ ((x - 1) + n) % n = x - 1
    BY <2>1
  <2>3. CASE x - 1 - offs >= 0
    <3> DEFINE j == x - offs
    <3>1. j \in 1..n /\ offs + j - 1 = x - 1
      BY <1>2, <2>3
    <3>2. rot[j] = ((offs + j - 1) % n) + 1
      BY <1>1, <3>1
    <3>3. rot[j] = ((x - 1) % n) + 1
      BY <3>1, <3>2
    <3> HIDE DEF j
    <3>4. rot[j] = (x - 1) + 1
      BY <2>2, <3>3
    <3> QED BY <2>1, <3>1, <3>4
  <2>4. CASE x - 1 - offs < 0
    <3> DEFINE j == x - offs + n
    <3>1. j \in 1..n /\ offs + j - 1 = (x - 1) + n
      BY <1>2, <2>4
    <3>2. rot[j] = ((offs + j - 1) % n) + 1
      BY <1>1, <3>1
    <3>3. rot[j] = (((x - 1) + n) % n) + 1
      BY <3>1, <3>2
    <3> HIDE DEF j
    <3>4. rot[j] = (x - 1) + 1
      BY <2>2, <3>3
    <3> QED BY <2>1, <3>1, <3>4
  <2> QED BY <1>2, <2>1, <2>3, <2>4
<1> QED BY <1>4, <1>5, <1>6 DEF n, rot

(* The first elements of a sequence *)
LEMMA FirstOf ==
  ASSUME NEW M, NEW flat \in Seq(M), NEW len \in Nat \ {0}
  PROVE  LET items == SubSeq(flat, 1, Min({len, Len(flat)})) IN
         /\ \A item \in ToSet(items) : item \in M
         /\ items = <<>> => flat = <<>>
<1> DEFINE n == Len(flat)
           k == Min({len, n})
           items == SubSeq(flat, 1, k)
<1>1. n \in Nat /\ \A i \in 1..n : flat[i] \in M
  BY LenProperties, ElementOfSeq
<1> HIDE DEF n
<1>2. k \in {len, n} /\ k <= len /\ k <= n
  <2>1. \E x \in {len, n} : \A y \in {len, n} : x <= y
    BY <1>1
  <2> QED BY <2>1 DEF Min
<1> HIDE DEF k
<1>3. k \in Nat /\ k <= n
  BY <1>1, <1>2
<1>4. \A i \in 1..k : flat[i] \in M
  BY <1>1, <1>3
<1>5. items \in Seq(M) /\ Len(items) = IF 1 <= k THEN k-1+1 ELSE 0
  BY <1>1, <1>3, <1>4, SubSeqProperties
<1> HIDE DEF items
<1>6. \A item \in ToSet(items) : item \in M
  BY <1>5, LenProperties, ElementOfSeq DEF ToSet
<1>7. ASSUME items = <<>> PROVE flat = <<>>
  <2>1. Len(items) = 0
    BY <1>7, EmptySeq
  <2>2. k = 0
    BY <1>3, <1>5, <2>1
  <2>3. n = 0
    BY <1>1, <1>2, <2>2
  <2> QED BY <2>3, EmptySeq DEF n
<1> QED BY <1>6, <1>7 DEF items, k, n

(* The offset of the next vector *)
LEMMA OffsIs ==
  ASSUME NEW n \in Nat \ {0}, NEW offs \in 0..n, NEW full \in SUBSET (1..n)
  PROVE  (offs + Min(full \union {n + 1})) % n \in 0..n
<1> DEFINE T == full \union {n + 1}
           k == Min(T)
<1>1. T \in SUBSET Nat /\ T # {}
  OBVIOUS
<1> HIDE DEF T
<1>2. \E x \in T : \A y \in T : x <= y
  BY <1>1, LeastNat
<1>3. k \in Nat
  BY <1>1, <1>2 DEF Min
<1> HIDE DEF k
<1>4. offs + k \in Nat
  BY <1>3
<1>5. (offs + k) % n \in 0..n-1
  BY <1>4
<1> DEFINE c == (offs + k) % n
<1> HIDE DEF c
<1>6. c \in 0..n-1
  BY <1>5 DEF c
<1>7. c \in 0..n
  BY <1>6
<1> QED BY <1>7 DEF c, k, T

(* mk_want_vect and mk_chnk_vect *)
VectorOK(v, n) ==
  /\ v = [valid |-> v.valid, items |-> v.items, offs |-> v.offs]
  /\ v.valid \in BOOLEAN /\ v.offs \in 0..n

LEMMA MkWantOK ==
  ASSUME goset \in SUBSET Feed, goset # {}, VectorOK(want, Cardinality(goset)),
         WantFresh(goset, replica, want)
  PROVE  VectorOK(MkWantVect, Cardinality(goset)) /\ WantFresh(goset, replica, MkWantVect)
<1> DEFINE n == Cardinality(goset)
           rot == Rotated(want.offs)
           ss == [j \in 1..n |-> WantOf(rot[j])]
           flat == FlattenSeq(ss)
           full == {i \in 1..n : Len(FlattenSeq([j \in 1..i |-> WantOf(rot[j])])) >= WantLen}
           items == SubSeq(flat, 1, Min({WantLen, Len(flat)}))
           offs == (want.offs + Min(full \union {n + 1})) % n
           v == MkWantVect
           M == {WantItem(goset, replica, x) : x \in 1..n}
<1>1. n \in Nat \ {0} /\ want.offs \in 0..n
  <2>1. IsFiniteSet(goset)
    BY LogAssumption, FS_Subset
  <2> QED BY <2>1, FS_CardinalityType, FS_EmptySet DEF VectorOK
<1>2. CASE want.valid
  BY <1>2 DEF MkWantVect
<1>3. CASE ~want.valid
  <2>1. rot \in [1..n -> 1..n] /\ Len(rot) = n
    BY <1>1, RotatedIs
  <2>2. v = Vector(WantOf, WantLen, want.offs)
    BY <1>3 DEF MkWantVect
  <2>3. v = [valid |-> TRUE, items |-> items, offs |-> offs]
    BY <2>1, <2>2 DEF Vector
  <2>4. flat \in Seq(M)
    <3>1. \A x \in 1..n : WantOf(x) \in Seq(M)
      <4> TAKE x \in 1..n
      <4>1. WantOf(x) = <<WantItem(goset, replica, x)>>
        BY DEF WantOf, WantItem, ReplicaAt, MemAt
      <4>2. WantItem(goset, replica, x) \in M
        OBVIOUS
      <4> HIDE DEF M
      <4> QED BY <4>1, <4>2
    <3> HIDE DEF M, rot
    <3>2. \A j \in 1..n : WantOf(rot[j]) \in Seq(M)
      BY <2>1, <3>1
    <3>3. ss \in Seq(Seq(M))
      BY <1>1, <3>2
    <3> HIDE DEF ss
    <3> QED BY <3>3, FlattenSeqType
  <2> HIDE DEF flat, full
  <2>5. \A item \in ToSet(items) : item \in M
    <3>1. WantLen \in Nat \ {0}
      BY EspNodeAssumption
    <3> HIDE DEF M
    <3> QED BY <2>4, <3>1, FirstOf
  <2>6. offs \in 0..n
    <3>1. full \in SUBSET (1..n)
      BY DEF full
    <3> HIDE DEF n
    <3> QED BY <1>1, <3>1, OffsIs
  <2> HIDE DEF items, offs, v
  <2>7. VectorOK(v, n)
    BY <2>3, <2>6 DEF VectorOK
  <2>8. WantFresh(goset, replica, v)
    <3> SUFFICES ASSUME NEW item \in ToSet(items)
                 PROVE  item[1] \in 1..n /\ item = WantItem(goset, replica, item[1])
      BY <2>3 DEF WantFresh
    <3>1. PICK x \in 1..n : item = WantItem(goset, replica, x)
      BY <2>5
    <3>2. item[1] = x
      BY <3>1 DEF WantItem
    <3> QED BY <3>1, <3>2
  <2> QED BY <2>7, <2>8 DEF v
<1> QED BY <1>2, <1>3

LEMMA MkChnkOK ==
  ASSUME goset \in SUBSET Feed, goset # {}, VectorOK(chnk, Cardinality(goset)),
         ChnkFresh(goset, replica, chnk), MemOK(goset, Mem)
  PROVE  VectorOK(MkChnkVect, Cardinality(goset)) /\ ChnkFresh(goset, replica, MkChnkVect)
<1> DEFINE n == Cardinality(goset)
           rot == Rotated(chnk.offs)
           ss == [j \in 1..n |-> ChnkOf(rot[j])]
           flat == FlattenSeq(ss)
           full == {i \in 1..n : Len(FlattenSeq([j \in 1..i |-> ChnkOf(rot[j])])) >= ChnkLen}
           items == SubSeq(flat, 1, Min({ChnkLen, Len(flat)}))
           offs == (chnk.offs + Min(full \union {n + 1})) % n
           v == MkChnkVect
           Of(x) == ChnkItems(goset, replica, x)
           M == UNION {ToSet(Of(x)) : x \in 1..n}
<1>1. n \in Nat \ {0} /\ chnk.offs \in 0..n
  <2>1. IsFiniteSet(goset)
    BY LogAssumption, FS_Subset
  <2> QED BY <2>1, FS_CardinalityType, FS_EmptySet DEF VectorOK
<1>2. CASE chnk.valid
  BY <1>2 DEF MkChnkVect
<1>3. CASE ~chnk.valid
  <2>1. rot \in [1..n -> 1..n] /\ Len(rot) = n /\ \A x \in 1..n : \E j \in 1..n : rot[j] = x
    BY <1>1, RotatedIs
  <2>2. v = Vector(ChnkOf, ChnkLen, chnk.offs)
    BY <1>3 DEF MkChnkVect
  <2>3. v = [valid |-> TRUE, items |-> items, offs |-> offs]
    BY <2>1, <2>2 DEF Vector
  <2>4. ASSUME NEW x \in 1..n
        PROVE  LET pend == MemAt(goset, replica, x).pend
                   k == Cardinality(DOMAIN pend)
               IN /\ k \in Nat /\ IsFiniteSet(DOMAIN pend)
                  /\ DOMAIN Of(x) = 1..k /\ Of(x) = [i \in 1..k |-> Of(x)[i]]
                  /\ \A i \in 1..k : Of(x)[i][1] = x
    <3> DEFINE f == Keys(goset)[x]
               pend == MemAt(goset, replica, x).pend
               k == Cardinality(DOMAIN pend)
               open == Keys(DOMAIN pend)
    <3>1. f \in goset
      BY KeysAre
    <3>2. FrontierOK(f, replica[f].mem)
      <4> HIDE DEF f
      <4> QED BY <3>1 DEF MemOK, Saved, Mem
    <3>3. DOMAIN pend \in SUBSET Nat /\ IsFiniteSet(DOMAIN pend)
      <4> HIDE DEF f
      <4>1. DOMAIN replica[f].mem.pend \in SUBSET Nat /\ IsFiniteSet(DOMAIN replica[f].mem.pend)
        BY <3>1, <3>2, FrontierIs
      <4> QED BY <4>1 DEF MemAt, f
    <3>4. Of(x) = [i \in DOMAIN open |-> <<x, open[i], pend[open[i]].cnr>>]
      BY DEF ChnkItems
    <3> HIDE DEF pend
    <3>5. open \in Seq(DOMAIN pend) /\ Len(open) = k /\ k \in Nat
      BY <3>3, KeysSorted
    <3> HIDE DEF open, k
    <3>6. DOMAIN open = 1..k
      BY <3>5, LenProperties
    <3>7. \A i \in 1..k : Of(x)[i] = <<x, open[i], pend[open[i]].cnr>>
      BY <3>4, <3>6
    <3> HIDE DEF Of
    <3> QED BY <3>3, <3>4, <3>5, <3>6, <3>7 DEF pend, k
  <2>5. \A x \in 1..n : ChnkOf(x) = Of(x)
    BY DEF ChnkOf, ChnkItems, ReplicaAt, MemAt
  <2> HIDE DEF Of
  <2>6. ss \in Seq(Seq(M)) /\ Len(ss) = n /\ \A j \in 1..n : ss[j] = Of(rot[j])
    <3>1. \A x \in 1..n : Of(x) \in Seq(M)
      <4> TAKE x \in 1..n
      <4> DEFINE k == Cardinality(DOMAIN MemAt(goset, replica, x).pend)
      <4>1. k \in Nat /\ DOMAIN Of(x) = 1..k /\ Of(x) = [i \in 1..k |-> Of(x)[i]]
        BY <2>4
      <4> HIDE DEF k
      <4>2. \A i \in 1..k : Of(x)[i] \in M
        BY <4>1 DEF ToSet
      <4> HIDE DEF M
      <4> QED BY <4>1, <4>2
    <3> HIDE DEF M, rot
    <3>2. \A j \in 1..n : ChnkOf(rot[j]) \in Seq(M) /\ ChnkOf(rot[j]) = Of(rot[j])
      BY <2>1, <2>5, <3>1
    <3> QED BY <1>1, <3>2
  <2>7. flat \in Seq(M) /\ (flat = <<>> => \A j \in 1..n : Of(rot[j]) = <<>>)
    <3> HIDE DEF M, ss, rot, n
    <3> QED BY <2>6, FlattenSeqType, FlattenSeqEmpty
  <2> HIDE DEF flat, full
  <2>8. (\A item \in ToSet(items) : item \in M) /\ (items = <<>> => flat = <<>>)
    <3>1. ChnkLen \in Nat \ {0}
      BY EspNodeAssumption
    <3> HIDE DEF M
    <3> QED BY <2>7, <3>1, FirstOf
  <2>9. offs \in 0..n
    <3>1. full \in SUBSET (1..n)
      BY DEF full
    <3> HIDE DEF n
    <3> QED BY <1>1, <3>1, OffsIs
  <2> HIDE DEF items, offs, v
  <2>10. VectorOK(v, n)
    BY <2>3, <2>9 DEF VectorOK
  <2>11. ASSUME NEW item \in ToSet(items)
         PROVE  item[1] \in 1..n /\ item \in ToSet(Of(item[1]))
    <3>1. PICK x \in 1..n : item \in ToSet(Of(x))
      BY <2>8
    <3>2. item[1] = x
      BY <2>4, <3>1 DEF ToSet
    <3> QED BY <3>1, <3>2
  <2>12. ASSUME items = <<>>, NEW f \in goset PROVE DOMAIN replica[f].mem.pend = {}
    <3>1. PICK x \in 1..n : Keys(goset)[x] = f
      BY KeysAre
    <3>2. Of(x) = <<>>
      <4>1. PICK j \in 1..n : rot[j] = x
        BY <2>1
      <4> HIDE DEF rot
      <4> QED BY <2>7, <2>8, <2>12, <4>1
    <3> DEFINE D == DOMAIN replica[f].mem.pend
    <3>3. D = DOMAIN MemAt(goset, replica, x).pend
      BY <3>1 DEF MemAt
    <3> HIDE DEF D
    <3>4. IsFiniteSet(D) /\ Cardinality(D) \in Nat /\ DOMAIN Of(x) = 1..Cardinality(D)
      BY <2>4, <3>3
    <3>5. DOMAIN Of(x) = {}
      BY <3>2
    <3>6. Cardinality(D) = 0
      BY <3>4, <3>5
    <3>7. D = {}
      BY <3>4, <3>6, FS_EmptySet
    <3> QED BY <3>7 DEF D
  <2>13. ChnkFresh(goset, replica, v)
    BY <2>3, <2>11, <2>12 DEF ChnkFresh, Of
  <2> QED BY <2>10, <2>13 DEF v
<1> QED BY <1>2, <1>3

-----------------------------------------------------------------------------
(***************************************************************************)
(* The invariant, and what every step keeps.                               *)
(***************************************************************************)
Running(keys, m, rg, w, c) ==
  /\ MemOK(keys, m)
  /\ \A f \in Feed \ keys : m.replica[f] = NewReplica
  /\ rg \in Seq(Packet)
  /\ VectorOK(w, Cardinality(keys)) /\ VectorOK(c, Cardinality(keys))
  /\ WantFresh(keys, m.replica, w) /\ ChnkFresh(keys, m.replica, c)

LEMMA InvIs ==
  IInv <=> /\ goset \in SUBSET Feed /\ Cardinality(goset) <= MaxKeys
           /\ up => Running(goset, Mem, ring, want, chnk)
<1>1. Mem.replica = replica
  BY DEF Mem
<1>2. \A v : VectorOK(v, Cardinality(goset)) <=>
               /\ v = [valid |-> v.valid, items |-> v.items, offs |-> v.offs]
               /\ v.offs \in 0..Cardinality(goset) /\ v.valid \in BOOLEAN
  BY DEF VectorOK
<1> QED BY <1>1, <1>2, FreshIs DEF IInv, Running

LEMMA InvIsNext ==
  IInv' <=> /\ goset' \in SUBSET Feed /\ Cardinality(goset') <= MaxKeys
            /\ up' => Running(goset', Mem', ring', want', chnk')
<1>1. Mem'.replica = replica'
  BY DEF Mem
<1>2. \A v : VectorOK(v, Cardinality(goset')) <=>
               /\ v = [valid |-> v.valid, items |-> v.items, offs |-> v.offs]
               /\ v.offs \in 0..Cardinality(goset') /\ v.valid \in BOOLEAN
  BY DEF VectorOK
<1>3. MemOK(goset, Mem)' <=> MemOK(goset', Mem')
  BY DEF MemOK, Saved, FrontierOK, ListsFor, Waits
<1> QED BY <1>1, <1>2, <1>3, FreshIsNext DEF IInv, Running

Keeps == up' => \A f \in goset : f \in goset' /\ Grows(f, replica[f].mem, replica'[f].mem)

LEMMA KeepsIs ==
  Keeps => (up' => \A f \in goset : \A s \in DOMAIN Log[f] :
                     f \in goset' /\ Taken(f, s) <= Taken(f, s)')
<1>1. \A f, s : Taken(f, s) = TakenOf(f, replica[f].mem, s)
                /\ Taken(f, s)' = TakenOf(f, replica'[f].mem, s)
  BY DEF Taken, TakenOf
<1> QED BY <1>1 DEF Keeps, Grows

(* What is kept when the memory of the node is the same *)
LEMMA SameKeeps ==
  ASSUME IInv, up, UNCHANGED <<goset, replica>>
  PROVE  Keeps
<1>1. goset \in SUBSET Feed /\ MemOK(goset, Mem) /\ Mem.replica = replica
  BY InvIs DEF Running, Mem
<1>2. \A f \in goset : Grows(f, replica[f].mem, replica[f].mem)
  BY <1>1, AfterRefl DEF After
<1> QED BY <1>2 DEF Keeps

LEMMA FreshVector ==
  ASSUME NEW keys \in SUBSET Feed, NEW reps
  PROVE  VectorOK(Fresh, Cardinality(keys)) /\ WantFresh(keys, reps, Fresh) /\ ChnkFresh(keys, reps, Fresh)
<1>1. Cardinality(keys) \in Nat
  BY KeysAre
<1> QED BY <1>1 DEF Fresh, VectorOK, WantFresh, ChnkFresh

(* Whenever the power failed: the node runs with what it had on flash, or  *)
(* it does not run any more.                                               *)
LEMMA RestartOK ==
  ASSUME IInv, up, NEW keys \in SUBSET Feed, goset \subseteq keys, Cardinality(keys) <= MaxKeys,
         \A f \in Feed \ keys : replica[f] = NewReplica,
         NEW flash, FlashOK(keys, Mem, flash), Restart(keys, flash)
  PROVE  IInv' /\ Keeps
<1>1. CASE \E f \in keys : Unreadable(flash[f])
  <2>1. up' = FALSE /\ goset' = goset
    BY <1>1 DEF Restart, tables
  <2>2. goset \in SUBSET Feed /\ Cardinality(goset) <= MaxKeys
    BY InvIs
  <2> QED BY <2>1, <2>2, InvIsNext DEF Keeps
<1>2. CASE ~ \E f \in keys : Unreadable(flash[f])
  <2> DEFINE m == Loaded(keys, flash)
  <2>1. /\ goset' = keys /\ up' = up
        /\ replica' = m.replica /\ dmxt' = m.dmxt /\ blbt' = m.blbt
        /\ want' = Fresh /\ chnk' = Fresh /\ ring' = <<>>
    BY <1>2 DEF Restart, Started
  <2>2. /\ flash = [f \in Feed |-> flash[f]]
        /\ \A f \in keys : FrontierOK(f, Opened(flash[f]).mem)
        /\ \A f \in keys : Grows(f, replica[f].mem, Opened(flash[f]).mem)
        /\ \A f \in Feed \ keys : flash[f] = NewReplica
    BY <1>2 DEF FlashOK, Mem
  <2>3. /\ MemOK(keys, m)
        /\ \A f \in Feed : m.replica[f] = IF f \in keys THEN Opened(flash[f]) ELSE flash[f]
    BY <2>2, LoadedOK
  <2> HIDE DEF m
  <2>4. Mem' = m
    BY <2>1, <2>3 DEF Mem, MemOK
  <2>5. \A f \in Feed \ keys : m.replica[f] = NewReplica
    BY <2>2, <2>3
  <2>6. <<>> \in Seq(Packet)
    OBVIOUS
  <2>7. Running(keys, m, <<>>, Fresh, Fresh)
    BY <2>3, <2>5, <2>6, FreshVector DEF Running
  <2>8. IInv'
    BY <2>1, <2>4, <2>7, InvIsNext
  <2>9. Keeps
    BY <2>1, <2>2, <2>3 DEF Keeps
  <2> QED BY <2>8, <2>9
<1> QED BY <1>1, <1>2

LEMMA PowerFailsOK ==
  ASSUME IInv, PowerFails
  PROVE  IInv' /\ Keeps
<1>1. /\ up /\ goset \in SUBSET Feed /\ Cardinality(goset) <= MaxKeys
      /\ MemOK(goset, Mem) /\ ring \in Seq(Packet) /\ Mem.replica = replica
      /\ \A f \in Feed \ goset : replica[f] = NewReplica
  BY InvIs DEF PowerFails, Running, Mem
<1>2. PICK flash \in {replica} \union
                     (IF ring = <<>> THEN {} ELSE Interrupted(Mem, Head(ring))) :
        Restart(goset, flash)
  BY DEF PowerFails
<1>3. FlashOK(goset, Mem, flash)
  <2>1. CASE flash = replica
    <3>1. After(goset, Mem, Mem)
      BY <1>1, AfterRefl
    <3> QED BY <1>1, <2>1, <3>1, AfterFlash
  <2>2. CASE ring # <<>> /\ flash \in Interrupted(Mem, Head(ring))
    <3>1. Head(ring) \in Packet
      BY <1>1, <2>2, HeadTailProperties
    <3> QED BY <1>1, <2>2, <3>1, InterruptedOK
  <2> QED BY <1>2, <2>1, <2>2
<1> QED BY <1>1, <1>2, <1>3, RestartOK

(* The files of a replica that is being made *)
LEMMA MidwayNew ==
  ASSUME NEW x \in Midway(NewReplica, Opened(NewReplica)), ~Unreadable(x)
  PROVE  Opened(x).mem = NoEntries
<1>1. Opened(NewReplica) = [mem |-> NoEntries, log |-> {}, frt |-> {NoEntries}, tmp |-> {}]
  BY DEF Opened, NewReplica, Persisted
<1>2. PICK t \in {{}, {Torn}, {NoEntries}} : x = [NewReplica EXCEPT !.log = {}, !.tmp = t]
  <2>1. Opened(NewReplica).log = {} /\ Opened(NewReplica).frt = {NoEntries}
    BY <1>1
  <2> QED BY <2>1 DEF Midway
<1>3. x = [mem |-> NoEntries, log |-> {}, frt |-> {}, tmp |-> t]
  BY <1>2 DEF NewReplica
<1>4. x.tmp = t /\ x.frt = {} /\ Torn \notin t
  BY <1>3 DEF Unreadable
<1>5. Opened(x) = Persisted(x, x.log, NoEntries)
  <2>1. CASE t = {}
    BY <1>4, <2>1 DEF Opened
  <2>2. CASE t = {NoEntries}
    BY <1>4, <2>2 DEF Opened
  <2> QED BY <1>2, <1>4, <2>1, <2>2
<1> HIDE DEF Opened
<1> QED BY <1>5 DEF Persisted

LEMMA OneMore ==
  ASSUME goset \in SUBSET Feed, NEW f \in Feed, f \notin goset, Cardinality(goset) < MaxKeys
  PROVE  /\ goset \union {f} \in SUBSET Feed /\ Cardinality(goset) \in Nat
         /\ Cardinality(goset \union {f}) = Cardinality(goset) + 1
         /\ Cardinality(goset \union {f}) <= MaxKeys
<1>1. IsFiniteSet(goset)
  BY LogAssumption, FS_Subset
<1>2. Cardinality(goset \union {f}) = Cardinality(goset) + 1 /\ Cardinality(goset) \in Nat
  BY <1>1, FS_AddElement, FS_CardinalityType
<1> QED BY <1>2, EspNodeAssumption

LEMMA PowerFailsInAddKeyOK ==
  ASSUME IInv, NEW f \in Feed, PowerFailsInAddKey(f)
  PROVE  IInv' /\ Keeps
<1> DEFINE keys == goset \union {f}
<1>1. /\ up /\ f \notin goset /\ goset \in SUBSET Feed /\ Cardinality(goset) < MaxKeys
      /\ MemOK(goset, Mem) /\ Mem.replica = replica
      /\ \A g \in Feed \ goset : replica[g] = NewReplica
  BY InvIs DEF PowerFailsInAddKey, Running, Mem
<1>2. PICK r \in Midway(NewReplica, Opened(NewReplica)) : Restart(keys, [replica EXCEPT ![f] = r])
  BY DEF PowerFailsInAddKey
<1>3. keys \in SUBSET Feed /\ Cardinality(keys) <= MaxKeys
  BY <1>1, OneMore
<1> DEFINE flash == [replica EXCEPT ![f] = r]
<1>4. /\ flash = [g \in Feed |-> flash[g]] /\ flash[f] = r
      /\ \A g \in Feed : g # f => flash[g] = replica[g]
  BY <1>1 DEF MemOK
<1> HIDE DEF flash
<1>5. FlashOK(keys, Mem, flash)
  <2>1. ASSUME NEW g \in keys, ~Unreadable(flash[g])
        PROVE  FrontierOK(g, Opened(flash[g]).mem)
               /\ Grows(g, replica[g].mem, Opened(flash[g]).mem)
    <3>1. CASE g = f
      <4>1. Opened(flash[f]).mem = NoEntries
        BY <1>4, <2>1, <3>1, MidwayNew
      <4>2. FrontierOK(f, NoEntries) /\ Grows(f, NoEntries, NoEntries)
        BY NewIsOK, GrowsRefl
      <4>3. replica[f].mem = NoEntries
        BY <1>1 DEF NewReplica
      <4> QED BY <3>1, <4>1, <4>2, <4>3
    <3>2. CASE g # f
      <4>1. g \in goset /\ flash[g] = replica[g] /\ Saved(g, replica[g])
        BY <1>1, <1>3, <1>4, <3>2 DEF MemOK
      <4>2. Opened(replica[g]).mem = replica[g].mem /\ FrontierOK(g, replica[g].mem)
        BY <1>1, <4>1, OpenedSame DEF Saved
      <4>3. Grows(g, replica[g].mem, replica[g].mem)
        BY <1>1, <4>1, <4>2, GrowsRefl
      <4> QED BY <4>1, <4>2, <4>3
    <3> QED BY <3>1, <3>2
  <2>2. \A g \in Feed \ keys : flash[g] = replica[g]
    BY <1>4
  <2> QED BY <1>1, <1>4, <2>1, <2>2 DEF FlashOK
<1>6. goset \subseteq keys /\ \A g \in Feed \ keys : replica[g] = NewReplica
  BY <1>1
<1>7. Restart(keys, flash)
  BY <1>2 DEF flash
<1> HIDE DEF keys
<1> QED BY <1>1, <1>3, <1>5, <1>6, <1>7, RestartOK

LEMMA StaleIs ==
  ASSUME NEW v, NEW n, VectorOK(v, n)
  PROVE  /\ Stale(v) = [valid |-> FALSE, items |-> v.items, offs |-> v.offs]
         /\ \A i : [Stale(v) EXCEPT !.offs = i] = [valid |-> FALSE, items |-> v.items, offs |-> i]
<1> DEFINE a == v.valid
           b == v.items
           c == v.offs
           no == FALSE
           u == [valid |-> no, items |-> b, offs |-> c]
<1>1. v = [valid |-> a, items |-> b, offs |-> c]
  BY DEF VectorOK
<1> HIDE DEF a, b, c
<1>2. Stale(v) = [[valid |-> a, items |-> b, offs |-> c] EXCEPT !.valid = no]
  BY <1>1, Zenon DEF Stale
<1> HIDE DEF no
<1>3. [[valid |-> a, items |-> b, offs |-> c] EXCEPT !.valid = no] = u
  OBVIOUS
<1>4. \A i : [u EXCEPT !.offs = i] = [valid |-> no, items |-> b, offs |-> i]
  OBVIOUS
<1> HIDE DEF u
<1>5. Stale(v) = u
  BY <1>2, <1>3
<1> QED BY <1>4, <1>5, Zenon DEF b, c, no, u

LEMMA AddKeyOK ==
  ASSUME IInv, NEW f \in Feed, AddKey(f)
  PROVE  IInv' /\ Keeps
<1> DEFINE keys == goset \union {f}
           m == AddReplica(Mem, f)
           n == Cardinality(goset)
<1>1. /\ up /\ f \notin goset /\ goset \in SUBSET Feed /\ n < MaxKeys
      /\ MemOK(goset, Mem) /\ Mem.replica = replica /\ ring \in Seq(Packet)
      /\ VectorOK(want, n) /\ VectorOK(chnk, n)
      /\ \A g \in Feed \ goset : replica[g] = NewReplica
  BY InvIs DEF AddKey, Running, Mem
<1>2. keys \in SUBSET Feed /\ Cardinality(keys) = n + 1 /\ Cardinality(keys) <= MaxKeys /\ n \in Nat
  BY <1>1, OneMore
<1>3. /\ goset' = keys /\ up' = up /\ ring' = ring
      /\ replica' = m.replica /\ dmxt' = m.dmxt /\ blbt' = m.blbt
  BY DEF AddKey
<1>4. PICK w, c \in 0..n : want' = [Stale(want) EXCEPT !.offs = w]
                           /\ chnk' = [Stale(chnk) EXCEPT !.offs = c]
  BY DEF AddKey
<1>5. /\ MemOK(keys, m)
      /\ m.replica = [replica EXCEPT ![f] = Opened(replica[f])]
  <2>1. FrontierOK(f, Opened(Mem.replica[f]).mem)
    BY <1>1, NewIsOK
  <2> QED BY <1>1, <2>1, AddReplicaOK
<1> HIDE DEF m, keys, n
<1>6. \A g \in Feed : g # f => m.replica[g] = replica[g]
  BY <1>1, <1>5 DEF MemOK
<1>7. Mem' = m
  BY <1>3, <1>5 DEF Mem, MemOK
<1>8. ASSUME NEW v, VectorOK(v, n), NEW i \in 0..n
      PROVE  LET u == [Stale(v) EXCEPT !.offs = i] IN
             VectorOK(u, Cardinality(keys)) /\ WantFresh(keys, m.replica, u)
             /\ ChnkFresh(keys, m.replica, u)
  <2> DEFINE u == [Stale(v) EXCEPT !.offs = i]
  <2>3. u = [valid |-> FALSE, items |-> v.items, offs |-> i]
    BY <1>8, StaleIs
  <2>4. i \in 0..Cardinality(keys)
    BY <1>2
  <2> HIDE DEF u
  <2>5. VectorOK(u, Cardinality(keys)) /\ WantFresh(keys, m.replica, u)
        /\ ChnkFresh(keys, m.replica, u)
    BY <2>3, <2>4 DEF VectorOK, WantFresh, ChnkFresh
  <2> QED BY <2>5 DEF u
<1>9. \A g \in Feed \ keys : m.replica[g] = NewReplica
  BY <1>1, <1>6 DEF keys
<1>10. Running(keys, m, ring, want', chnk')
  BY <1>1, <1>4, <1>5, <1>8, <1>9 DEF Running
<1>11. IInv'
  BY <1>2, <1>3, <1>7, <1>10, InvIsNext
<1>12. Keeps
  <2>1. \A g \in goset : Grows(g, replica[g].mem, replica[g].mem)
    BY <1>1, AfterRefl DEF After
  <2>2. \A g \in goset : m.replica[g] = replica[g] /\ g \in keys
    BY <1>1, <1>6 DEF keys
  <2> QED BY <1>3, <2>1, <2>2 DEF Keeps
<1> QED BY <1>11, <1>12

LEMMA HandleOK ==
  ASSUME IInv, Handle
  PROVE  IInv' /\ Keeps
<1> DEFINE m == Handled(Mem, Head(ring))
           n == Cardinality(goset)
<1>1. /\ up /\ goset \in SUBSET Feed /\ n <= MaxKeys
      /\ MemOK(goset, Mem) /\ ring \in Seq(Packet) /\ ring # <<>> /\ Mem.replica = replica
      /\ VectorOK(want, n) /\ VectorOK(chnk, n)
      /\ WantFresh(goset, replica, want) /\ ChnkFresh(goset, replica, chnk)
      /\ \A f \in Feed \ goset : replica[f] = NewReplica
  BY InvIs DEF Handle, Running, Mem
<1>2. /\ goset' = goset /\ up' = up /\ ring' = Tail(ring)
      /\ replica' = m.replica /\ dmxt' = m.dmxt /\ blbt' = m.blbt
      /\ want' = StaleIf(want, m.dmxt # dmxt) /\ chnk' = StaleIf(chnk, m.blbt # blbt)
  BY DEF Handle
<1>3. Head(ring) \in Packet /\ Tail(ring) \in Seq(Packet)
  BY <1>1, HeadTailProperties
<1>4. After(goset, Mem, m)
  BY <1>1, <1>3, HandledOK
<1> HIDE DEF m, n
<1>5. /\ MemOK(goset, m) /\ \A f \in Feed \ goset : m.replica[f] = replica[f]
      /\ \A f \in goset : Grows(f, replica[f].mem, m.replica[f].mem)
  BY <1>1, <1>4 DEF After
<1>6. Mem' = m
  BY <1>2, <1>5 DEF Mem, MemOK
<1>7. Mem.dmxt = dmxt /\ Mem.blbt = blbt
  BY DEF Mem
<1>8. ASSUME NEW v, VectorOK(v, n)
      PROVE  VectorOK(Stale(v), n) /\ ~Stale(v).valid
  <2>2. Stale(v) = [valid |-> FALSE, items |-> v.items, offs |-> v.offs]
    BY <1>8, StaleIs
  <2> QED BY <1>8, <2>2 DEF VectorOK
<1>9. VectorOK(want', n) /\ WantFresh(goset, m.replica, want')
  <2>1. CASE m.dmxt # dmxt
    BY <1>1, <1>2, <1>8, <2>1 DEF StaleIf, WantFresh
  <2>2. CASE m.dmxt = dmxt
    <3>1. want' = want
      BY <1>2, <2>2 DEF StaleIf
    <3>2. WantFresh(goset, m.replica, want)
      BY <1>1, <1>5, <1>7, <2>2, KeepsFresh
    <3> QED BY <1>1, <3>1, <3>2
  <2> QED BY <2>1, <2>2
<1>10. VectorOK(chnk', n) /\ ChnkFresh(goset, m.replica, chnk')
  <2>1. CASE m.blbt # blbt
    BY <1>1, <1>2, <1>8, <2>1 DEF StaleIf, ChnkFresh
  <2>2. CASE m.blbt = blbt
    <3>1. chnk' = chnk
      BY <1>2, <2>2 DEF StaleIf
    <3>2. ChnkFresh(goset, m.replica, chnk)
      BY <1>1, <1>5, <1>7, <2>2, KeepsFresh
    <3> QED BY <1>1, <3>1, <3>2
  <2> QED BY <2>1, <2>2
<1>11. Running(goset, m, ring', want', chnk')
  BY <1>1, <1>2, <1>3, <1>5, <1>9, <1>10 DEF Running, n
<1>12. IInv'
  BY <1>1, <1>2, <1>6, <1>11, InvIsNext DEF n
<1>13. Keeps
  BY <1>2, <1>5 DEF Keeps
<1> QED BY <1>12, <1>13

LEMMA TickOK ==
  ASSUME IInv, Tick
  PROVE  IInv' /\ Keeps
<1> DEFINE n == Cardinality(goset)
<1>1. /\ up /\ goset \in SUBSET Feed /\ n <= MaxKeys /\ goset # {}
      /\ MemOK(goset, Mem) /\ ring \in Seq(Packet) /\ Mem.replica = replica
      /\ VectorOK(want, n) /\ VectorOK(chnk, n)
      /\ WantFresh(goset, replica, want) /\ ChnkFresh(goset, replica, chnk)
      /\ \A f \in Feed \ goset : Mem.replica[f] = NewReplica
  BY InvIs DEF Tick, Running, Mem
<1>2. /\ goset' = goset /\ up' = up /\ ring' = ring
      /\ replica' = replica /\ dmxt' = dmxt /\ blbt' = blbt
      /\ (want' = MkWantVect /\ chnk' = chnk) \/ (want' = want /\ chnk' = MkChnkVect)
  BY DEF Tick, tables
<1>3. Mem' = Mem
  BY <1>2 DEF Mem
<1>4. VectorOK(want', n) /\ WantFresh(goset, replica, want')
      /\ VectorOK(chnk', n) /\ ChnkFresh(goset, replica, chnk')
  <2>1. VectorOK(MkWantVect, n) /\ WantFresh(goset, replica, MkWantVect)
    BY <1>1, MkWantOK
  <2>2. VectorOK(MkChnkVect, n) /\ ChnkFresh(goset, replica, MkChnkVect)
    BY <1>1, MkChnkOK
  <2> QED BY <1>1, <1>2, <2>1, <2>2
<1>5. Running(goset, Mem, ring, want', chnk')
  BY <1>1, <1>4 DEF Running
<1>6. IInv'
  BY <1>1, <1>2, <1>3, <1>5, InvIsNext
<1>7. Keeps
  BY <1>1, <1>2, SameKeeps
<1> QED BY <1>6, <1>7

-----------------------------------------------------------------------------
(***************************************************************************)
(* The theorems.                                                           *)
(***************************************************************************)
LEMMA InitOK == Init => IInv
<1> SUFFICES ASSUME Init PROVE IInv
  OBVIOUS
<1> DEFINE flash == [f \in Feed |-> NewReplica]
           m == Loaded(goset, flash)
<1>1. /\ goset \in SUBSET Feed /\ Cardinality(goset) <= MaxKeys
      /\ replica = m.replica /\ dmxt = m.dmxt /\ blbt = m.blbt
      /\ want = Fresh /\ chnk = Fresh /\ ring = <<>>
  BY EspNodeAssumption DEF Init
<1>2. \A f \in goset : FrontierOK(f, Opened(flash[f]).mem)
  BY <1>1, NewIsOK
<1>3. flash = [f \in Feed |-> flash[f]] /\ \A f \in Feed : flash[f] = NewReplica
  OBVIOUS
<1> HIDE DEF flash
<1>4. /\ MemOK(goset, m)
      /\ \A f \in Feed : m.replica[f] = IF f \in goset THEN Opened(flash[f]) ELSE flash[f]
  <2>1. /\ goset \in SUBSET Feed /\ Cardinality(goset) <= MaxKeys
        /\ flash = [f \in Feed |-> flash[f]]
    BY <1>1, <1>3
  <2> QED BY <1>2, <2>1, LoadedOK
<1> HIDE DEF m
<1>5. Mem = m
  BY <1>1, <1>4 DEF Mem, MemOK
<1>6. <<>> \in Seq(Packet)
  OBVIOUS
<1>7. Running(goset, m, ring, want, chnk)
  BY <1>1, <1>3, <1>4, <1>6, FreshVector DEF Running
<1> QED BY <1>1, <1>5, <1>7, InvIs

LEMMA NextOK ==
  ASSUME IInv, Next
  PROVE  IInv' /\ Keeps
<1>1. ASSUME NEW f \in Feed, AddKey(f) PROVE IInv' /\ Keeps
  BY <1>1, AddKeyOK
<1>2. ASSUME NEW f \in Feed, PowerFailsInAddKey(f) PROVE IInv' /\ Keeps
  BY <1>2, PowerFailsInAddKeyOK
<1>3. ASSUME NEW pkt \in Packet, Receive(pkt) PROVE IInv' /\ Keeps
  <2>1. /\ up /\ UNCHANGED <<goset, replica, dmxt, blbt, want, chnk, up>>
        /\ ring' = Append(ring, pkt)
    BY <1>3 DEF Receive, tables, vectors
  <2>2. Mem' = Mem
    BY <2>1 DEF Mem
  <2>3. Running(goset, Mem, ring, want, chnk)
    BY <2>1, InvIs
  <2>4. Append(ring, pkt) \in Seq(Packet)
    BY <2>3, AppendProperties DEF Running
  <2>5. Running(goset, Mem, ring', want, chnk)
    BY <2>1, <2>3, <2>4 DEF Running
  <2>6. IInv'
    BY <2>1, <2>2, <2>5, InvIs, InvIsNext
  <2> QED BY <2>1, <2>6, SameKeeps
<1>4. CASE Handle
  BY <1>4, HandleOK
<1>5. CASE Tick
  BY <1>5, TickOK
<1>6. CASE Dequeue
  <2>1. up /\ UNCHANGED <<goset, replica, dmxt, blbt, want, chnk, ring, up>>
    BY <1>6 DEF Dequeue, tables
  <2>2. Mem' = Mem
    BY <2>1 DEF Mem
  <2>3. IInv'
    BY <2>1, <2>2, InvIs, InvIsNext
  <2> QED BY <2>1, <2>3, SameKeeps
<1>7. CASE PowerFails
  BY <1>7, PowerFailsOK
<1> QED BY <1>1, <1>2, <1>3, <1>4, <1>5, <1>6, <1>7 DEF Next

(* Between any two handlers, with any number of power failures before: the *)
(* frontiers in memory are the ones on flash and account for every chunk,  *)
(* the tables hold what is awaited, and the cached vectors are good.       *)
THEOREM IInvHolds == Spec => []IInv
<1>1. ASSUME IInv, [Next]_vars PROVE IInv'
  <2>1. CASE Next
    BY <1>1, <2>1, NextOK
  <2>2. CASE UNCHANGED vars
    <3>1. UNCHANGED <<goset, replica, dmxt, blbt, want, chnk, ring, up>>
      BY <2>2 DEF vars, tables, vectors
    <3>2. Mem' = Mem
      BY <3>1 DEF Mem
    <3> QED BY <1>1, <3>1, <3>2, InvIs, InvIsNext
  <2> QED BY <1>1, <2>1, <2>2
<1> QED BY <1>1, InitOK, PTL DEF Spec

LEMMA InvMatches == IInv => HandlersMatch
<1> SUFFICES ASSUME IInv, up PROVE HandlersMatch
  BY DEF HandlersMatch
<1> DEFINE W == Waits(goset, replica)
<1>1. /\ goset \in SUBSET Feed
      /\ \A f \in goset : Saved(f, replica[f])
      /\ dmxt = {<<f, replica[f].mem.seq + 1>> : f \in goset}
      /\ ListsFor(blbt, W)
  BY InvIs DEF Running, MemOK, Mem
<1>2. W \in SUBSET Wait
  BY <1>1, WaitsIs
<1>3. ASSUME NEW c, NEW rest
      PROVE  <<c, rest>> \in W <=> c \in OpenChains /\ rest = RestOf(c)
  <2>1. \A w \in W : \E f \in goset : \E s \in DOMAIN replica[f].mem.pend :
          w = <<<<f, s>>, replica[f].mem.pend[s].rest>>
    BY DEF Waits
  <2>2. \A f \in goset : \A s \in DOMAIN replica[f].mem.pend :
          <<<<f, s>>, replica[f].mem.pend[s].rest>> \in W
    BY DEF Waits
  <2>3. \A d \in OpenChains : \E f \in goset : \E s \in DOMAIN replica[f].mem.pend : d = <<f, s>>
    BY DEF OpenChains
  <2>4. \A f \in goset : \A s \in DOMAIN replica[f].mem.pend : <<f, s>> \in OpenChains
    BY DEF OpenChains
  <2>5. \A f, s : RestOf(<<f, s>>) = replica[f].mem.pend[s].rest
    BY DEF RestOf
  <2> HIDE DEF W
  <2>6. <<c, rest>> \in W => c \in OpenChains /\ rest = RestOf(c)
    <3> SUFFICES ASSUME <<c, rest>> \in W PROVE c \in OpenChains /\ rest = RestOf(c)
      OBVIOUS
    <3>1. PICK f \in goset : \E s \in DOMAIN replica[f].mem.pend :
                              <<c, rest>> = <<<<f, s>>, replica[f].mem.pend[s].rest>>
      BY <2>1
    <3>2. PICK s \in DOMAIN replica[f].mem.pend :
                 <<c, rest>> = <<<<f, s>>, replica[f].mem.pend[s].rest>>
      BY <3>1
    <3>3. c = <<f, s>> /\ rest = replica[f].mem.pend[s].rest
      BY <3>2
    <3> QED BY <2>4, <2>5, <3>3
  <2>7. ASSUME c \in OpenChains, rest = RestOf(c) PROVE <<c, rest>> \in W
    <3>1. PICK f \in goset : \E s \in DOMAIN replica[f].mem.pend : c = <<f, s>>
      BY <2>3, <2>7
    <3>2. PICK s \in DOMAIN replica[f].mem.pend : c = <<f, s>>
      BY <3>1
    <3> QED BY <2>2, <2>5, <2>7, <3>2
  <2> QED BY <2>6, <2>7
<1>4. /\ DOMAIN blbt = {w[2] : w \in W}
      /\ \A rest \in DOMAIN blbt : IsInjective(blbt[rest]) /\ ToSet(blbt[rest]) = For(W, rest)
  BY <1>1 DEF ListsFor, For
<1> HIDE DEF W
<1>5. DOMAIN blbt = {RestOf(c) : c \in OpenChains}
  <2>1. ASSUME NEW rest \in DOMAIN blbt PROVE \E c \in OpenChains : rest = RestOf(c)
    <3>1. PICK w \in W : rest = w[2]
      BY <1>4
    <3>2. w = <<w[1], w[2]>>
      BY <1>2 DEF Wait
    <3>3. <<w[1], rest>> \in W
      BY <3>1, <3>2
    <3> QED BY <1>3, <3>3
  <2>2. ASSUME NEW c \in OpenChains PROVE RestOf(c) \in DOMAIN blbt
    <3>1. <<c, RestOf(c)>> \in W
      BY <1>3
    <3> QED BY <1>4, <3>1
  <2> QED BY <2>1, <2>2
<1>6. ASSUME NEW rest \in DOMAIN blbt
      PROVE  ToSet(blbt[rest]) = {c \in OpenChains : RestOf(c) = rest}
  <2>1. \A c : c \in For(W, rest) <=> <<c, rest>> \in W
    BY <1>2, ForIs
  <2>2. \A c : c \in For(W, rest) <=> c \in {d \in OpenChains : RestOf(d) = rest}
    BY <1>3, <2>1
  <2> QED BY <1>4, <2>2
<1> QED BY <1>1, <1>4, <1>5, <1>6 DEF HandlersMatch

(* Every next entry and every open chain is awaited, each once: no chain   *)
(* is lost from the list it shares with another one.                       *)
THEOREM HandlersMatchHolds == Spec => []HandlersMatch
BY IInvHolds, InvMatches, PTL

(* A cached vector whose flag is set asks for what is missing now.         *)
THEOREM VectorsFreshHolds == Spec => []VectorsFresh
<1>1. IInv => VectorsFresh
  BY DEF IInv
<1> QED BY <1>1, IInvHolds, PTL

(* Whatever was taken stays, also when the power fails at any write.       *)
THEOREM NeverForgetsHolds == Spec => NeverForgets
<1>1. ASSUME IInv, [Next]_vars
      PROVE  [up' => \A f \in goset : \A s \in DOMAIN Log[f] :
                       f \in goset' /\ Taken(f, s) <= Taken(f, s)']_vars
  <2>1. CASE Next
    BY <1>1, <2>1, NextOK, KeepsIs
  <2>2. CASE UNCHANGED vars
    BY <2>2
  <2> QED BY <1>1, <2>1, <2>2
<1> QED BY <1>1, IInvHolds, PTL DEF Spec, NeverForgets
=============================================================================
