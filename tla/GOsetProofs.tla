---------------------------- MODULE GOsetProofs -----------------------------
(***************************************************************************)
(* Proofs about the grow-only set, for any number of nodes, keys, tables   *)
(* of any size, and whatever is lost.                                      *)
(***************************************************************************)
EXTENDS GOsetInv, OrderLemmas

(* A claim about two or more elements of a set spans them. *)
LEMMA MkClaimSpans ==
  ASSUME NEW K \in SUBSET Key, NEW lo \in 1..Cardinality(K), NEW hi \in 1..Cardinality(K),
         lo < hi
  PROVE  MkClaim(K, lo, hi) \in GoodClaim
<1> DEFINE a == KeyAt(K, lo)
           z == KeyAt(K, hi)
           xo == {k \in K : KeyIndex(K, k) \in lo..hi}
<1>1. K \in SUBSET Nat /\ IsFiniteSet(K) /\ Cardinality(K) \in Nat
  BY GOsetAssumption, FS_Subset, FS_CardinalityType
<1>2. a \in K /\ z \in K /\ KeyIndex(K, a) = lo /\ KeyIndex(K, z) = hi
  BY <1>1, KeyAtIndex
<1> HIDE DEF a, z
<1>3. a \in xo /\ z \in xo
  BY <1>1, <1>2
<1>4. ASSUME NEW k \in xo PROVE a <= k /\ k <= z
  <2>1. k \in K /\ KeyIndex(K, k) \in lo..hi /\ k \in Nat /\ a \in Nat /\ z \in Nat
    BY <1>1, <1>2
  <2>2. ~(k < a)
    <3> SUFFICES ASSUME k < a PROVE FALSE
      OBVIOUS
    <3>1. KeyIndex(K, k) < lo
      BY <1>1, <1>2, <2>1, IndexGrows
    <3> QED BY <2>1, <3>1
  <2>3. ~(z < k)
    <3> SUFFICES ASSUME z < k PROVE FALSE
      OBVIOUS
    <3>1. hi < KeyIndex(K, k)
      BY <1>1, <1>2, <2>1, IndexGrows
    <3> QED BY <2>1, <3>1
  <2> QED BY <2>1, <2>2, <2>3
<1>5. a < z
  <2>1. a <= z /\ a # z /\ a \in Nat /\ z \in Nat
    BY <1>1, <1>2, <1>3, <1>4
  <2> QED BY <2>1
<1>6. xo \in SUBSET Key /\ a \in Key /\ z \in Key
  BY <1>2
<1>7. MkClaim(K, lo, hi) = [typ |-> "c", lo |-> a, hi |-> z, xo |-> xo]
  BY DEF MkClaim, a, z
<1> HIDE DEF xo
<1> QED BY <1>3, <1>4, <1>5, <1>6, <1>7 DEF GoodClaim, Claim, Spans

-----------------------------------------------------------------------------
(* What is queued are messages, and no more than the queue takes. *)
LEMMA QueuedProperties ==
  ASSUME NEW M, NEW queue \in Seq(M), NEW msgs \in Seq(M)
  PROVE  Queued(queue, msgs) \in Seq(M) /\ Len(Queued(queue, msgs)) <= QueueLen
<1> DEFINE all == queue \o msgs
           D == Distinct(all)
           c == Cardinality(D)
           fits == Min({QueueLen, c})
<1>1. all \in Seq(M) /\ Len(all) \in Nat /\ DOMAIN all = 1..Len(all)
  BY ConcatProperties, LenProperties
<1> HIDE DEF all
<1>2. D \in SUBSET Nat /\ D \in SUBSET (1..Len(all)) /\ IsFiniteSet(D)
  <2>1. D \in SUBSET (1..Len(all))
    BY <1>1 DEF Distinct
  <2>2. IsFiniteSet(1..Len(all))
    BY <1>1, FS_Interval
  <2> HIDE DEF D
  <2>3. IsFiniteSet(D)
    BY <2>1, <2>2, FS_Subset
  <2> QED BY <2>1, <2>3, <1>1
<1>3. c \in Nat
  BY <1>2, FS_CardinalityType
<1>4. QueueLen \in Nat
  BY GOsetAssumption
<1> HIDE DEF D
<1>5. fits \in Nat /\ fits <= QueueLen /\ fits <= c
  <2> HIDE DEF c
  <2>1. \E x \in {QueueLen, c} : \A y \in {QueueLen, c} : x <= y
    BY <1>3, <1>4
  <2>2. fits \in {QueueLen, c} /\ fits <= QueueLen /\ fits <= c
    BY <2>1 DEF Min
  <2> QED BY <1>3, <1>4, <2>2
<1> HIDE DEF fits
<1>6. ASSUME NEW i \in 1..fits PROVE all[KeyAt(D, i)] \in M
  <2>1. i \in 1..c
    BY <1>3, <1>5
  <2>2. KeyAt(D, i) \in D
    BY <1>2, <2>1, KeyAtIndex
  <2>3. KeyAt(D, i) \in 1..Len(all)
    BY <1>2, <2>2
  <2> QED BY <1>1, <2>3, ElementOfSeq
<1>7. Queued(queue, msgs) = [i \in 1..fits |-> all[KeyAt(D, i)]]
  BY DEF Queued, fits, c, D, all
<1> DEFINE q == [i \in 1..fits |-> all[KeyAt(D, i)]]
<1>8. q \in Seq(M)
  BY <1>5, <1>6, IsASeq
<1>9. Len(q) = fits
  BY <1>5, <1>8, LenProperties
<1> QED BY <1>5, <1>7, <1>8, <1>9

(* Putting a message in the queue changes nothing else. *)
LEMMA EnqueueOK ==
  ASSUME NEW s \in GoodState, NEW msg \in Msg
  PROVE  /\ Enqueue(s, msg) \in GoodState
         /\ Enqueue(s, msg).keys = s.keys /\ Enqueue(s, msg).pending = s.pending
<1>1. s \in State /\ s.queue \in Seq(Msg)
  BY DEF GoodState, State
<1>2. <<msg>> \in Seq(Msg)
  OBVIOUS
<1>3. Queued(s.queue, <<msg>>) \in Seq(Msg) /\ Len(Queued(s.queue, <<msg>>)) <= QueueLen
  BY <1>1, <1>2, QueuedProperties
<1>4. Enqueue(s, msg) = [s EXCEPT !.queue = Queued(s.queue, <<msg>>)]
  BY DEF Enqueue
<1>5. Enqueue(s, msg) \in State
  BY <1>1, <1>3, <1>4 DEF State
<1>6. /\ Enqueue(s, msg).keys = s.keys /\ Enqueue(s, msg).novelty = s.novelty
      /\ Enqueue(s, msg).pending = s.pending
      /\ Enqueue(s, msg).queue = Queued(s.queue, <<msg>>)
  BY <1>1, <1>4 DEF State
<1> QED BY <1>3, <1>5, <1>6 DEF GoodState

(* After a start a node has the keys that are stored. *)
LEMMA StartedOK ==
  ASSUME NEW K \in SUBSET Key, Cardinality(K) <= MaxKeys
  PROVE  Started(K) \in GoodState
<1>1. MaxPending \in Nat /\ QueueLen \in Nat /\ NoveltyPerRound \in Nat
  BY GOsetAssumption
<1>2. IsFiniteSet({}) /\ Cardinality({}) = 0
  BY FS_EmptySet
<1>3. /\ <<>> \in Seq(Key) /\ <<>> \in Seq(Msg) /\ Len(<<>>) = 0
  BY EmptySeq
<1>4. 0 \in 0..NoveltyPerRound /\ 0 <= MaxPending /\ 0 <= QueueLen
  BY <1>1
<1>5. Started(K) = [keys |-> K, span |-> 0, credit |-> 0, novelty |-> <<>>,
                    pending |-> {}, queue |-> <<>>]
  BY DEF Started
<1>6. Started(K) \in State
  BY <1>3, <1>4, <1>5 DEF State
<1>7. /\ Started(K).keys = K /\ Started(K).novelty = <<>> /\ Started(K).pending = {}
      /\ Started(K).queue = <<>>
  BY <1>5
<1> QED BY <1>2, <1>3, <1>4, <1>6, <1>7 DEF GoodState

(* A key that a node hears of is in its set from then on, unless it is full. *)
LEMMA AddOK ==
  ASSUME NEW s \in GoodState, NEW key \in Key
  PROVE  /\ Add(s, key) \in GoodState
         /\ s.keys \subseteq Add(s, key).keys
         /\ key \in Add(s, key).keys \/ Cardinality(Add(s, key).keys) = MaxKeys
<1>1. s \in State /\ IsFiniteSet(Key) /\ MaxKeys \in Nat /\ MaxPending \in Nat
  BY GOsetAssumption DEF GoodState
<1>2. s.keys \in SUBSET Key /\ IsFiniteSet(s.keys) /\ Cardinality(s.keys) \in Nat
      /\ Cardinality(s.keys) <= MaxKeys
  BY <1>1, FS_Subset, FS_CardinalityType DEF State, GoodState
<1>3. CASE key \in s.keys \/ Cardinality(s.keys) >= MaxKeys
  <2>1. Add(s, key) = s
    BY <1>3 DEF Add
  <2> QED BY <1>1, <1>2, <1>3, <2>1
<1>4. CASE ~(key \in s.keys \/ Cardinality(s.keys) >= MaxKeys)
  <2> DEFINE K == s.keys \union {key}
             t == [s EXCEPT !.keys = K]
  <2>1. Add(s, key) = Announce(t, key)
    BY <1>4 DEF Add
  <2>2. Cardinality(K) = Cardinality(s.keys) + 1 /\ Cardinality(K) <= MaxKeys
    <3>1. Cardinality(K) = IF key \in s.keys THEN Cardinality(s.keys)
                                             ELSE Cardinality(s.keys) + 1
      BY <1>2, FS_AddElement
    <3> HIDE DEF K
    <3> QED BY <3>1, <1>1, <1>2, <1>4
  <2>3. t \in State /\ t.keys = K /\ t.novelty = s.novelty /\ t.pending = s.pending
        /\ t.queue = s.queue
    BY <1>1, <1>2 DEF State
  <2>4. t \in GoodState
    <3>1. \A c \in s.pending : {c.lo, c.hi} \subseteq K
      BY <1>1, <1>2, <1>4 DEF GoodState
    <3> QED BY <2>2, <2>3, <3>1 DEF GoodState
  <2> HIDE DEF t
  <2>5. Announce(t, key) \in GoodState /\ Announce(t, key).keys = t.keys
    <3>1. CASE Cardinality(t.keys) < t.span
      BY <3>1, <2>4 DEF Announce
    <3>2. CASE ~(Cardinality(t.keys) < t.span) /\ t.credit > 0
      <4> DEFINE u == [t EXCEPT !.credit = @ - 1]
      <4>1. t.credit - 1 \in 0..NoveltyPerRound
        BY <2>3, <3>2, GOsetAssumption DEF State
      <4>2. /\ u \in State /\ u.keys = t.keys /\ u.novelty = t.novelty
            /\ u.pending = t.pending /\ u.queue = t.queue
        BY <2>3, <4>1 DEF State
      <4>3. u \in GoodState
        BY <2>4, <4>2 DEF GoodState
      <4>4. Novelty(key) \in Msg
        BY DEF Novelty, Msg
      <4>5. Announce(t, key) = Enqueue(u, Novelty(key))
        BY <3>2 DEF Announce
      <4> HIDE DEF u
      <4> QED BY <4>2, <4>3, <4>4, <4>5, EnqueueOK
    <3>3. CASE ~(Cardinality(t.keys) < t.span) /\ ~(t.credit > 0) /\ Len(t.novelty) < MaxPending
      <4> DEFINE u == [t EXCEPT !.novelty = Append(@, key)]
      <4>1. Append(t.novelty, key) \in Seq(Key) /\ Len(Append(t.novelty, key)) = Len(t.novelty) + 1
            /\ Len(t.novelty) \in Nat
        BY <2>3, AppendProperties, LenProperties DEF State
      <4>2. /\ u \in State /\ u.keys = t.keys /\ u.novelty = Append(t.novelty, key)
            /\ u.pending = t.pending /\ u.queue = t.queue
        BY <2>3, <4>1 DEF State
      <4>3. Len(u.novelty) <= MaxPending
        BY <1>1, <3>3, <4>1, <4>2
      <4>4. u \in GoodState
        BY <2>4, <4>2, <4>3 DEF GoodState
      <4>5. Announce(t, key) = u
        BY <3>3 DEF Announce
      <4> QED BY <4>2, <4>4, <4>5
    <3>4. CASE ~(Cardinality(t.keys) < t.span) /\ ~(t.credit > 0) /\ ~(Len(t.novelty) < MaxPending)
      BY <3>4, <2>4 DEF Announce
    <3> QED BY <3>1, <3>2, <3>3, <3>4
  <2> QED BY <2>1, <2>3, <2>5
<1> QED BY <1>3, <1>4

(* A claim that is heard makes its two ends known. *)
LEMMA RxOK ==
  ASSUME NEW s \in GoodState, NEW msg \in Msg
  PROVE  Rx(s, msg) \in GoodState
<1>1. CASE msg.typ = "n"
  <2>1. msg.key \in Key
    BY <1>1 DEF Msg, GoodClaim, Claim
  <2> QED BY <1>1, <2>1, AddOK DEF Rx
<1>2. CASE msg.typ # "n"
  <2>1. msg \in GoodClaim /\ msg.lo \in Key /\ msg.hi \in Key /\ msg.xo \in SUBSET Key
    BY <1>2 DEF Msg, GoodClaim, Claim
  <2> DEFINE span == IF Cnt(msg) > s.span THEN Cnt(msg) ELSE s.span
             heard == [s EXCEPT !.span = span]
             low == Add(heard, msg.lo)
             t == Add(low, msg.hi)
  <2>2. s \in State
    BY DEF GoodState
  <2>3. span \in Nat
    <3>1. IsFiniteSet(msg.xo)
      BY <2>1, GOsetAssumption, FS_Subset
    <3>2. Cnt(msg) \in Nat
      BY <3>1, FS_CardinalityType DEF Cnt
    <3> QED BY <2>2, <3>2 DEF State
  <2>4. /\ heard \in State /\ heard.keys = s.keys /\ heard.novelty = s.novelty
        /\ heard.pending = s.pending /\ heard.queue = s.queue
    <3> HIDE DEF span
    <3> QED BY <2>2, <2>3 DEF State
  <2>5. heard \in GoodState
    <3> HIDE DEF heard
    <3> QED BY <2>4 DEF GoodState
  <2>6. Rx(s, msg) = AddPending(t, msg)
    BY <1>2 DEF Rx, RxClaim
  <2> HIDE DEF heard
  <2>7. low \in GoodState /\ (msg.lo \in low.keys \/ Cardinality(low.keys) = MaxKeys)
    BY <2>1, <2>5, AddOK
  <2> HIDE DEF low
  <2>8. t \in GoodState /\ low.keys \subseteq t.keys
        /\ (msg.hi \in t.keys \/ Cardinality(t.keys) = MaxKeys)
    BY <2>1, <2>7, AddOK
  <2> HIDE DEF t
  <2>9. t \in State /\ IsFiniteSet(t.keys) /\ Cardinality(t.keys) <= MaxKeys
        /\ IsFiniteSet(t.pending) /\ t.pending \in SUBSET GoodClaim /\ t.keys \in SUBSET Key
    BY <2>8, GOsetAssumption, FS_Subset DEF GoodState, State
  <2>10. {msg.lo, msg.hi} \subseteq t.keys \/ Cardinality(t.keys) = MaxKeys
    <3>1. CASE msg.lo \in low.keys
      BY <3>1, <2>8
    <3>2. CASE Cardinality(low.keys) = MaxKeys
      <4>1. Cardinality(low.keys) <= Cardinality(t.keys)
        BY <2>8, <2>9, FS_Subset
      <4>2. Cardinality(t.keys) \in Nat /\ MaxKeys \in Nat
        BY <2>9, GOsetAssumption, FS_CardinalityType
      <4> QED BY <3>2, <2>9, <4>1, <4>2
    <3> QED BY <2>7, <3>1, <3>2
  <2>11. CASE Cardinality(t.pending) >= MaxPending
    BY <2>6, <2>8, <2>11 DEF AddPending
  <2>12. CASE ~(Cardinality(t.pending) >= MaxPending)
    <3> DEFINE P == t.pending \union {msg}
               u == [t EXCEPT !.pending = P]
    <3>1. Cardinality(t.pending) \in Nat /\ MaxPending \in Nat
      BY <2>9, GOsetAssumption, FS_CardinalityType
    <3>2. IsFiniteSet(P) /\ Cardinality(P) <= MaxPending
      <4>1. IsFiniteSet(P) /\ Cardinality(P) = IF msg \in t.pending THEN Cardinality(t.pending)
                                                ELSE Cardinality(t.pending) + 1
        BY <2>9, FS_AddElement
      <4> HIDE DEF P
      <4> QED BY <4>1, <3>1, <2>12
    <3>3. P \in SUBSET GoodClaim
      BY <2>1, <2>9
    <3>4. \A c \in P : {c.lo, c.hi} \subseteq t.keys \/ Cardinality(t.keys) = MaxKeys
      BY <2>8, <2>10 DEF GoodState
    <3>5. Rx(s, msg) = u
      BY <2>6, <2>12 DEF AddPending
    <3> HIDE DEF P
    <3>6. /\ u \in State /\ u.keys = t.keys /\ u.novelty = t.novelty
          /\ u.pending = P /\ u.queue = t.queue
      BY <2>9, <3>3 DEF State
    <3> HIDE DEF u
    <3>7. u \in GoodState
      BY <2>8, <3>2, <3>4, <3>6 DEF GoodState
    <3> QED BY <3>5, <3>7
  <2> QED BY <2>11, <2>12
<1> QED BY <1>1, <1>2

-----------------------------------------------------------------------------
(***************************************************************************)
(* The help about an interval stays inside of goset_keys and makes sense:  *)
(* there is an element between the two known ends, and each half that is   *)
(* claimed has two ends.                                                   *)
(***************************************************************************)
LEMMA HelpForOK ==
  ASSUME NEW K \in SUBSET Key, NEW lo0 \in 1..Cardinality(K), NEW hi0 \in 1..Cardinality(K),
         lo0 + 2 <= hi0
  PROVE  HelpFor(K, lo0, hi0) \in Seq(Msg)
<1> DEFINE n == Cardinality(K)
           lo == lo0 + 1
           hi == hi0 - 1
           sz == (hi + 1 - lo) \div 2
<1>1. K \in SUBSET Nat /\ IsFiniteSet(K) /\ n \in Nat
  BY GOsetAssumption, FS_Subset, FS_CardinalityType
<1> HIDE DEF n
<1>2. lo0 \in 1..n /\ hi0 \in 1..n
  BY DEF n
<1>3. lo \in 1..n /\ hi \in 1..n /\ lo <= hi
  BY <1>1, <1>2
<1>4. CASE hi <= lo
  <2>1. KeyAt(K, lo) \in Key
    BY <1>1, <1>3, KeyAtIndex DEF n
  <2>2. Novelty(KeyAt(K, lo)) \in Msg
    BY <2>1 DEF Novelty, Msg
  <2>3. HelpFor(K, lo0, hi0) = <<Novelty(KeyAt(K, lo))>>
    BY <1>4 DEF HelpFor
  <2> QED BY <2>2, <2>3
<1>5. CASE lo < hi /\ hi - lo <= 2
  <2>1. MkClaim(K, lo, hi) \in Msg
    BY <1>3, <1>5, MkClaimSpans DEF n, Msg
  <2>2. ~(hi <= lo)
    BY <1>1, <1>3, <1>5
  <2>3. HelpFor(K, lo0, hi0) = <<MkClaim(K, lo, hi)>>
    BY <1>5, <2>2 DEF HelpFor
  <2> QED BY <2>1, <2>3
<1>6. CASE lo < hi /\ ~(hi - lo <= 2)
  <2>1. /\ lo + sz - 1 \in 1..n /\ lo + sz \in 1..n
        /\ lo < lo + sz - 1 /\ lo + sz < hi
    <3>1. sz \in Int /\ 2 * sz <= hi + 1 - lo /\ hi + 1 - lo < 2 * sz + 2
      BY <1>1, <1>3
    <3> HIDE DEF sz, lo, hi
    <3> QED BY <1>1, <1>3, <1>6, <3>1
  <2>2. /\ MkClaim(K, lo, lo + sz - 1) \in Msg /\ MkClaim(K, lo + sz, hi) \in Msg
    <3> HIDE DEF sz, lo, hi
    <3> QED BY <1>3, <2>1, MkClaimSpans DEF n, Msg
  <2>3. ~(hi <= lo)
    BY <1>1, <1>3, <1>6
  <2>4. HelpFor(K, lo0, hi0) = <<MkClaim(K, lo, lo + sz - 1), MkClaim(K, lo + sz, hi)>>
    BY <1>6, <2>3 DEF HelpFor
  <2> HIDE DEF sz, lo, hi
  <2> QED BY <2>2, <2>4
<1> QED BY <1>1, <1>3, <1>4, <1>5, <1>6

(* A claim that is neither bogus nor a match and that this node has as     *)
(* many keys of leaves an element between its ends to tell about.          *)
LEMMA PendingClaim ==
  ASSUME NEW K \in SUBSET Key, NEW c \in GoodClaim, ~Eliminated(K, c)
  PROVE  /\ Partial(K, c) \in Msg
         /\ KeyIndex(K, c.lo) \in 1..Cardinality(K) /\ KeyIndex(K, c.hi) \in 1..Cardinality(K)
         /\ Cnt(c) <= Mine(K, c) => KeyIndex(K, c.lo) + 2 <= KeyIndex(K, c.hi)
<1>1. K \in SUBSET Nat /\ IsFiniteSet(K) /\ Cardinality(K) \in Nat
  BY GOsetAssumption, FS_Subset, FS_CardinalityType
<1>2. /\ c \in Claim /\ c.lo < c.hi /\ {c.lo, c.hi} \subseteq c.xo /\ c.xo \in SUBSET Key
      /\ c.lo \in K /\ c.hi \in K /\ c.lo \in Nat /\ c.hi \in Nat
      /\ Between(K, c) # c.xo
  BY <1>1 DEF GoodClaim, Claim, Spans, Eliminated
<1> DEFINE B == Between(K, c)
<1>3. B \in SUBSET K /\ \A k \in B : c.lo <= k /\ k <= c.hi
  BY DEF Between
<1>4. {c.lo, c.hi} \subseteq B
  <2>1. c.lo <= c.lo /\ c.lo <= c.hi /\ c.hi <= c.hi
    BY <1>2
  <2> QED BY <1>2, <2>1 DEF Between
<1>5. Partial(K, c) \in Msg
  <2>1. Partial(K, c) = [c EXCEPT !.xo = B]
    BY DEF Partial
  <2>2. /\ Partial(K, c) \in Claim /\ Partial(K, c).lo = c.lo /\ Partial(K, c).hi = c.hi
        /\ Partial(K, c).xo = B
    <3> HIDE DEF B
    <3> QED BY <2>1, <1>2, <1>3 DEF Claim
  <2> QED BY <1>2, <1>3, <1>4, <2>2 DEF Msg, GoodClaim, Spans
<1>6. KeyIndex(K, c.lo) \in 1..Cardinality(K) /\ KeyIndex(K, c.hi) \in 1..Cardinality(K)
  BY <1>1, <1>2, IndexGrows
<1>7. ASSUME Cnt(c) <= Mine(K, c)
      PROVE  KeyIndex(K, c.lo) + 2 <= KeyIndex(K, c.hi)
  <2>1. B # {c.lo, c.hi}
    <3> SUFFICES ASSUME B = {c.lo, c.hi} PROVE FALSE
      OBVIOUS
    <3>1. IsFiniteSet(c.xo) /\ IsFiniteSet(B)
      BY <1>1, <1>2, <1>3, GOsetAssumption, FS_Subset
    <3>2. B \in SUBSET c.xo
      BY <1>2
    <3>3. Cardinality(B) <= Cardinality(c.xo) /\ Cardinality(B) # Cardinality(c.xo)
      BY <1>2, <3>1, <3>2, FS_Subset
    <3>4. Cardinality(B) \in Nat /\ Cardinality(c.xo) \in Nat
      BY <3>1, FS_CardinalityType
    <3> QED BY <1>7, <3>3, <3>4 DEF Cnt, Mine
  <2>2. PICK k \in B : k # c.lo /\ k # c.hi
    BY <1>4, <2>1
  <2>3. k \in K /\ c.lo < k /\ k < c.hi
    <3>1. k \in K /\ k \in Nat /\ c.lo <= k /\ k <= c.hi
      BY <1>1, <1>3
    <3> HIDE DEF B
    <3> QED BY <1>2, <2>2, <3>1
  <2>4. /\ KeyIndex(K, c.lo) < KeyIndex(K, k) /\ KeyIndex(K, k) < KeyIndex(K, c.hi)
        /\ KeyIndex(K, k) \in 1..Cardinality(K)
    BY <1>1, <1>2, <2>3, IndexGrows
  <2> QED BY <1>6, <2>4
<1> QED BY <1>5, <1>6, <1>7

(* The claims a node reacts to: neither bogus nor a match. *)
Open(K) == {c \in GoodClaim : ~Eliminated(K, c)}

LEMMA ReactionsOK ==
  ASSUME NEW K \in SUBSET Key, NEW claims \in Seq(Open(K))
  PROVE  Reactions(K, claims) \in Seq(Msg)
<1> DEFINE ask(i) == IF i \in Asked(K, claims)
                       THEN <<Partial(K, claims[i])>> ELSE <<>>
           help(i) == IF i \in Helped(K, claims)
                        THEN HelpFor(K, KeyIndex(K, claims[i].lo), KeyIndex(K, claims[i].hi))
                        ELSE <<>>
           told == [i \in DOMAIN claims |-> ask(i) \o help(i)]
<1>1. DOMAIN claims = 1..Len(claims) /\ Len(claims) \in Nat
  BY LenProperties
<1>2. <<>> \in Seq(Msg)
  BY EmptySeq
<1>3. ASSUME NEW i \in DOMAIN claims PROVE ask(i) \o help(i) \in Seq(Msg)
  <2> DEFINE c == claims[i]
  <2>1. c \in GoodClaim /\ ~Eliminated(K, c)
    <3>1. c \in Open(K)
      BY <1>1, ElementOfSeq
    <3> HIDE DEF c
    <3> QED BY <3>1 DEF Open
  <2>2. /\ Partial(K, c) \in Msg
        /\ KeyIndex(K, c.lo) \in 1..Cardinality(K) /\ KeyIndex(K, c.hi) \in 1..Cardinality(K)
        /\ Cnt(c) <= Mine(K, c) => KeyIndex(K, c.lo) + 2 <= KeyIndex(K, c.hi)
    <3> HIDE DEF c
    <3> QED BY <2>1, PendingClaim
  <2>3. ask(i) \in Seq(Msg)
    <3>1. <<Partial(K, c)>> \in Seq(Msg)
      BY <2>2
    <3> QED BY <1>2, <3>1
  <2>4. help(i) \in Seq(Msg)
    <3>1. CASE i \in Helped(K, claims)
      <4>1. Cnt(c) <= Mine(K, c)
        BY <3>1 DEF Helped, First
      <4>2. HelpFor(K, KeyIndex(K, c.lo), KeyIndex(K, c.hi)) \in Seq(Msg)
        BY <2>2, <4>1, HelpForOK
      <4> QED BY <3>1, <4>2
    <3>2. CASE i \notin Helped(K, claims)
      BY <1>2, <3>2
    <3> QED BY <3>1, <3>2
  <2> HIDE DEF ask, help
  <2> QED BY <2>3, <2>4, ConcatProperties
<1>4. told \in Seq(Seq(Msg))
  <2> HIDE DEF ask, help
  <2> QED BY <1>1, <1>3, IsASeq
<1>5. Reactions(K, claims) = FlattenSeq(told)
  BY DEF Reactions
<1> HIDE DEF told
<1> QED BY <1>4, <1>5, FlattenSeqType

(* A round starts with the novelties that are due, at most all there are,  *)
(* and the claim about the whole set.                                      *)
LEMMA GreetingOK ==
  ASSUME NEW s \in GoodState, Cardinality(s.keys) > 1
  PROVE  Greeting(s) \in Seq(Msg) /\ NoveltiesDue(s) \in 0..Len(s.novelty)
<1> DEFINE n == Len(s.novelty)
           d == NoveltiesDue(s)
<1>1. /\ s.keys \in SUBSET Key /\ IsFiniteSet(s.keys) /\ Cardinality(s.keys) \in Nat
      /\ s.novelty \in Seq(Key) /\ n \in Nat /\ s.credit \in Nat
  <2>1. /\ s.keys \in SUBSET Key /\ s.novelty \in Seq(Key) /\ s.credit \in 0..NoveltyPerRound
    BY DEF GoodState, State
  <2> QED BY <2>1, GOsetAssumption, FS_Subset, FS_CardinalityType, LenProperties
<1>2. d \in 0..n
  <2> DEFINE cr == s.credit
  <2>1. cr \in Nat /\ n \in Nat
    BY <1>1
  <2> HIDE DEF cr, n
  <2>2. \E x \in {cr, n} : \A y \in {cr, n} : x <= y
    BY <2>1
  <2>3. d = Min({cr, n})
    BY DEF NoveltiesDue, cr, n
  <2>4. d \in {cr, n} /\ d <= cr /\ d <= n
    BY <2>2, <2>3 DEF Min
  <2> HIDE DEF d
  <2> QED BY <2>1, <2>4
<1> HIDE DEF d
<1>3. \A i \in 1..d : Novelty(s.novelty[i]) \in Msg
  <2> TAKE i \in 1..d
  <2>1. i \in 1..n
    BY <1>1, <1>2
  <2>2. s.novelty[i] \in Key
    BY <1>1, <2>1, ElementOfSeq
  <2> QED BY <2>2 DEF Novelty, Msg
<1>4. [i \in 1..d |-> Novelty(s.novelty[i])] \in Seq(Msg)
  <2>1. d \in Nat
    BY <1>1, <1>2
  <2> QED BY <1>3, <2>1, IsASeq
<1>5. MkClaim(s.keys, 1, Cardinality(s.keys)) \in Msg
  <2> DEFINE m == Cardinality(s.keys)
  <2>1. 1 \in 1..m /\ m \in 1..m /\ 1 < m
    <3>1. m \in Nat /\ m > 1
      BY <1>1
    <3> HIDE DEF m
    <3> QED BY <3>1
  <2> QED BY <1>1, <2>1, MkClaimSpans DEF Msg
<1>6. Greeting(s) = Append([i \in 1..d |-> Novelty(s.novelty[i])],
                           MkClaim(s.keys, 1, Cardinality(s.keys)))
  BY DEF Greeting, d
<1> QED BY <1>2, <1>4, <1>5, <1>6, AppendProperties DEF d

-----------------------------------------------------------------------------
(* After a round a node has fewer pending claims and novelties, and more   *)
(* to send.                                                                *)
LEMMA RoundOK ==
  ASSUME NEW s \in GoodState, Cardinality(s.keys) > 1,
         NEW claims \in Orders({c \in s.pending : ~Eliminated(s.keys, c)}),
         NEW msgs, msgs = Greeting(s) \o Reactions(s.keys, claims)
  PROVE  Round(s, claims, msgs) \in GoodState
<1> DEFINE P == {c \in s.pending : ~Eliminated(s.keys, c)}
           kept == {claims[i] : i \in Kept(s.keys, claims)}
           late == SubSeq(s.novelty, NoveltiesDue(s) + 1, Len(s.novelty))
           q == Queued(s.queue, msgs)
           t == Round(s, claims, msgs)
<1>1. /\ s \in State /\ s.keys \in SUBSET Key /\ s.novelty \in Seq(Key)
      /\ s.pending \in SUBSET GoodClaim /\ s.queue \in Seq(Msg)
      /\ IsFiniteSet(s.pending) /\ Cardinality(s.pending) <= MaxPending
      /\ MaxPending \in Nat /\ NoveltyPerRound \in Nat
  BY GOsetAssumption DEF GoodState, State
<1>2. /\ claims \in Seq(P) /\ claims \in Seq(Open(s.keys)) /\ DOMAIN claims = 1..Len(claims)
  <2>1. claims \in [1..Cardinality(P) -> P]
    BY DEF Orders, SetToSeqs
  <2>2. Cardinality(P) \in Nat
    <3>1. P \in SUBSET s.pending
      OBVIOUS
    <3> HIDE DEF P
    <3> QED BY <1>1, <3>1, FS_Subset, FS_CardinalityType
  <2>3. P \in SUBSET Open(s.keys)
    BY <1>1 DEF Open
  <2> HIDE DEF P
  <2>4. claims \in Seq(P)
    BY <2>1, <2>2, SeqDef
  <2>5. claims \in Seq(Open(s.keys))
    BY <2>1, <2>2, <2>3, SeqDef
  <2> QED BY <2>4, <2>5, LenProperties
<1>3. kept \in SUBSET s.pending
  <2>1. \A i \in Kept(s.keys, claims) : i \in DOMAIN claims
    BY DEF Kept, First
  <2>2. \A i \in DOMAIN claims : claims[i] \in P
    BY <1>2, ElementOfSeq
  <2> QED BY <2>1, <2>2
<1>4. IsFiniteSet(kept) /\ Cardinality(kept) <= MaxPending
  <2> HIDE DEF kept
  <2>1. IsFiniteSet(kept) /\ Cardinality(kept) <= Cardinality(s.pending)
    BY <1>1, <1>3, FS_Subset
  <2>2. Cardinality(kept) \in Nat /\ Cardinality(s.pending) \in Nat
    BY <1>1, <2>1, FS_CardinalityType
  <2> QED BY <1>1, <2>1, <2>2
<1>5. late \in Seq(Key) /\ Len(late) <= MaxPending
  <2> DEFINE n == Len(s.novelty)
             d == NoveltiesDue(s)
  <2>1. n \in Nat /\ n <= MaxPending /\ d \in 0..n
    BY <1>1, LenProperties, GreetingOK DEF GoodState
  <2> HIDE DEF d
  <2>2. \A i \in d+1 .. n : s.novelty[i] \in Key
    BY <1>1, <2>1, ElementOfSeq
  <2> HIDE DEF n
  <2>3. d + 1 \in Int /\ n \in Int
    BY <2>1
  <2>4. SubSeq(s.novelty, d+1, n) \in Seq(Key)
        /\ Len(SubSeq(s.novelty, d+1, n)) = IF d+1 <= n THEN n-(d+1)+1 ELSE 0
    BY <2>2, <2>3, SubSeqProperties
  <2>5. late = SubSeq(s.novelty, d+1, n)
    BY DEF n, d
  <2> HIDE DEF late
  <2> QED BY <1>1, <2>1, <2>4, <2>5
<1>6. q \in Seq(Msg) /\ Len(q) <= QueueLen
  <2>1. msgs \in Seq(Msg)
    BY <1>1, <1>2, GreetingOK, ReactionsOK, ConcatProperties
  <2> QED BY <1>1, <2>1, QueuedProperties
<1>7. t = [s EXCEPT !.novelty = late, !.credit = NoveltyPerRound, !.pending = kept, !.queue = q]
  BY DEF Round
<1> HIDE DEF late, kept, q, t
<1>8. kept \in SUBSET GoodClaim /\ NoveltyPerRound \in 0..NoveltyPerRound
  BY <1>1, <1>3
<1>9. /\ t \in State /\ t.keys = s.keys /\ t.novelty = late /\ t.pending = kept /\ t.queue = q
  BY <1>1, <1>5, <1>6, <1>7, <1>8 DEF State
<1>10. t \in GoodState
  BY <1>3, <1>4, <1>5, <1>6, <1>9 DEF GoodState
<1> QED BY <1>10 DEF t

(* What is sent next is a message, and the queue gets shorter. *)
LEMMA SentOK ==
  ASSUME NEW s \in GoodState, s.queue # <<>>
  PROVE  Head(s.queue) \in Msg /\ [s EXCEPT !.queue = Tail(@)] \in GoodState
<1> DEFINE q == Tail(s.queue)
           t == [s EXCEPT !.queue = q]
<1>1. s \in State /\ s.queue \in Seq(Msg) /\ Len(s.queue) <= QueueLen /\ QueueLen \in Nat
  BY GOsetAssumption DEF GoodState, State
<1>2. Head(s.queue) \in Msg /\ q \in Seq(Msg) /\ Len(q) = Len(s.queue) - 1 /\ Len(s.queue) \in Nat
  BY <1>1, HeadTailProperties, LenProperties
<1> HIDE DEF q
<1>3. Len(q) <= QueueLen
  BY <1>1, <1>2
<1>4. /\ t \in State /\ t.keys = s.keys /\ t.novelty = s.novelty /\ t.pending = s.pending
      /\ t.queue = q
  BY <1>1, <1>2 DEF State
<1> HIDE DEF t
<1>5. t \in GoodState
  BY <1>3, <1>4 DEF GoodState
<1> QED BY <1>2, <1>5 DEF t, q

-----------------------------------------------------------------------------
LEMMA InvInit == Init => IInv
<1> SUFFICES ASSUME Init PROVE IInv
  OBVIOUS
<1>1. /\ world \in World /\ world.nodes \in SUBSET Node /\ world.loss \in Nat
      /\ world.reboots \in Nat
  BY GOsetAssumption DEF Init
<1>2. \A n \in Node : world.stored[n] \in SUBSET Key /\ Cardinality(world.stored[n]) <= MaxKeys
  BY <1>1, GOsetAssumption
<1>3. gs \in [Node -> GoodState]
  BY <1>2, StartedOK DEF Init
<1> QED BY <1>1, <1>3 DEF IInv, Init

LEMMA InvNext == IInv /\ [Next]_vars => IInv'
<1> SUFFICES ASSUME IInv, [Next]_vars PROVE IInv'
  OBVIOUS
<1>1. /\ world \in World /\ world.nodes \in SUBSET Node /\ world.loss \in Nat
      /\ world.reboots \in Nat /\ world.fresh \in SUBSET Key
      /\ up \in SUBSET world.nodes /\ lost \in 0..world.loss /\ reboots \in 0..world.reboots
      /\ gs \in [Node -> GoodState]
  BY GOsetAssumption DEF IInv
<1>2. CASE UNCHANGED vars
  BY <1>2 DEF IInv, vars
<1>3. ASSUME NEW n \in Node, TickAlone(n) PROVE IInv'
  <2>1. PICK key \in Key : gs' = [gs EXCEPT ![n] = Enqueue(@, Novelty(key))]
    BY <1>3 DEF TickAlone
  <2>2. Novelty(key) \in Msg
    BY DEF Novelty, Msg
  <2>3. Enqueue(gs[n], Novelty(key)) \in GoodState
    BY <1>1, <2>2, EnqueueOK
  <2>4. gs' \in [Node -> GoodState]
    BY <1>1, <2>1, <2>3
  <2> QED BY <1>1, <1>3, <2>4 DEF TickAlone, IInv
<1>4. ASSUME NEW n \in Node, TickRound(n) PROVE IInv'
  <2> DEFINE s == gs[n]
  <2>1. PICK claims \in Orders({c \in s.pending : ~Eliminated(s.keys, c)}) :
          gs' = [gs EXCEPT
                   ![n] = Round(s, claims, Greeting(s) \o Reactions(s.keys, claims))]
    BY <1>4 DEF TickRound
  <2>3. s \in GoodState /\ Cardinality(s.keys) > 1
    BY <1>1, <1>4 DEF TickRound
  <2>4. Round(s, claims, Greeting(s) \o Reactions(s.keys, claims)) \in GoodState
    BY <2>3, RoundOK
  <2>5. gs' \in [Node -> GoodState]
    BY <1>1, <2>1, <2>4
  <2> QED BY <1>1, <1>4, <2>5 DEF TickRound, IInv
<1>5. ASSUME NEW n \in Node, Dequeue(n) PROVE IInv'
  <2>1. PICK deaf \in SUBSET (up \ {n}) :
          /\ lost + Cardinality(deaf) <= world.loss
          /\ lost' = lost + Cardinality(deaf)
          /\ gs' = [m \in Node |->
                      IF m = n THEN [gs[n] EXCEPT !.queue = Tail(@)]
                      ELSE IF m \in up \ deaf THEN Rx(gs[m], Head(gs[n].queue))
                      ELSE gs[m]]
    BY <1>5 DEF Dequeue
  <2>2. lost' \in 0..world.loss
    <3>1. IsFiniteSet(deaf)
      BY <1>1, GOsetAssumption, FS_Subset
    <3>2. Cardinality(deaf) \in Nat
      BY <3>1, FS_CardinalityType
    <3> QED BY <1>1, <2>1, <3>2
  <2>3. Head(gs[n].queue) \in Msg /\ [gs[n] EXCEPT !.queue = Tail(@)] \in GoodState
    BY <1>1, <1>5, SentOK DEF Dequeue
  <2>4. \A m \in Node : Rx(gs[m], Head(gs[n].queue)) \in GoodState
    BY <1>1, <2>3, RxOK
  <2>5. gs' \in [Node -> GoodState]
    BY <1>1, <2>1, <2>3, <2>4
  <2> QED BY <1>1, <1>5, <2>2, <2>5 DEF Dequeue, IInv
<1>6. ASSUME NEW n \in Node, AddKey(n) PROVE IInv'
  <2>1. PICK key \in world.fresh : gs' = [gs EXCEPT ![n] = Add(@, key)]
    BY <1>6 DEF AddKey
  <2>2. Add(gs[n], key) \in GoodState
    BY <1>1, AddOK
  <2>3. gs' \in [Node -> GoodState]
    BY <1>1, <2>1, <2>2
  <2> QED BY <1>1, <1>6, <2>3 DEF AddKey, IInv
<1>7. ASSUME NEW n \in Node, Reboot(n) PROVE IInv'
  <2>1. gs[n].keys \in SUBSET Key /\ Cardinality(gs[n].keys) <= MaxKeys
    BY <1>1 DEF GoodState, State
  <2>2. gs' \in [Node -> GoodState]
    BY <1>1, <1>7, <2>1, StartedOK DEF Reboot
  <2>3. reboots' \in 0..world.reboots
    BY <1>1, <1>7 DEF Reboot
  <2> QED BY <1>1, <1>7, <2>2, <2>3 DEF Reboot, IInv
<1>8. ASSUME NEW n \in Node, Leave(n) PROVE IInv'
  BY <1>1, <1>8 DEF Leave, IInv
<1> QED BY <1>2, <1>3, <1>4, <1>5, <1>6, <1>7, <1>8 DEF Next, Tick

(* In every state every node is in a good state: its tables are within     *)
(* their limits, and every claim that is queued or pending makes sense.    *)
THEOREM IInvHolds == Spec => []IInv
<1> QED BY InvInit, InvNext, PTL DEF Spec

(* The tables of goset.cpp and the send queue stay within their limits:    *)
(* goset_keys, novelty and pending_claims are never written beyond the     *)
(* end, whatever comes in.                                                 *)
THEOREM TypeOKHolds == Spec => []TypeOK
<1>1. IInv => TypeOK
  <2> SUFFICES ASSUME IInv PROVE TypeOK
    OBVIOUS
  <2>1. \A n \in Node : gs[n] \in GoodState
    BY DEF IInv
  <2>2. ASSUME NEW n \in Node
        PROVE  /\ gs[n].keys \subseteq Key /\ Cardinality(gs[n].keys) <= MaxKeys
               /\ gs[n].span \in Nat
               /\ gs[n].credit \in 0..NoveltyPerRound
               /\ gs[n].novelty \in Seq(Key) /\ Len(gs[n].novelty) <= MaxPending
               /\ Cardinality(gs[n].pending) <= MaxPending
               /\ Len(gs[n].queue) <= QueueLen
    BY <2>1 DEF GoodState, State
  <2> QED BY <2>2 DEF IInv, TypeOK
<1> QED BY <1>1, IInvHolds, PTL

(* Every claim that is sent or pending spans at least two keys, its ends   *)
(* among them: what _key_index and the two halves of tick rely on.         *)
THEOREM ClaimsSpanHolds == Spec => []ClaimsSpan
<1>1. IInv => ClaimsSpan
  <2> SUFFICES ASSUME IInv, NEW n \in Node, NEW c \in Claims(n)
               PROVE  Spans(c)
    BY DEF ClaimsSpan, Spans
  <2>1. gs[n] \in GoodState /\ gs[n].pending \in SUBSET GoodClaim /\ gs[n].queue \in Seq(Msg)
    BY DEF IInv, GoodState, State
  <2>2. CASE c \in gs[n].pending
    BY <2>1, <2>2 DEF GoodClaim
  <2>3. CASE c \in ToSet(gs[n].queue) /\ c.typ = "c"
    <3>1. PICK i \in DOMAIN gs[n].queue : c = gs[n].queue[i]
      BY <2>3 DEF ToSet
    <3>2. c \in Msg
      BY <2>1, <3>1, ElementOfSeq, LenProperties
    <3> QED BY <2>3, <3>2 DEF Msg, GoodClaim
  <2> QED BY <2>2, <2>3 DEF Claims
<1> QED BY <1>1, IInvHolds, PTL

(* A node has the ends of every claim it keeps pending, unless its set is  *)
(* full: RxClaim adds them before the claim, and no key is ever removed.   *)
THEOREM EndsKnownHolds == Spec => []EndsKnown
<1>1. IInv => EndsKnown
  BY DEF IInv, GoodState, EndsKnown
<1> QED BY <1>1, IInvHolds, PTL
=============================================================================
