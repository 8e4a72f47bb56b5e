---------------------------- MODULE ReplicaProofs ----------------------------
(***************************************************************************)
(* Proofs about a replica of a feed, that of a follower and that of the    *)
(* author, for feeds of any length and side chains of any length.          *)
(***************************************************************************)
EXTENDS ReplicaInv, SequenceTheorems, WellFoundedInduction, TLAPS

(* Every nonempty set of natural numbers has a least element. *)
LEMMA LeastNat ==
  ASSUME NEW T \in SUBSET Nat, T # {}
  PROVE  \E x \in T : \A y \in T : x <= y
<1> DEFINE R == OpToRel(<, Nat)
<1>1. IsWellFoundedOn(R, Nat)
  BY NatLessThanWellFounded
<1>2. \E x \in T : \A y \in T : ~(<<y, x>> \in R)
  <2> HIDE DEF R
  <2> QED BY <1>1, WFMin
<1>3. \A x, y \in Nat : <<y, x>> \in R <=> y < x
  BY DEF OpToRel
<1>4. PICK x \in T : \A y \in T : ~(<<y, x>> \in R)
  BY <1>2
<1>5. ASSUME NEW y \in T PROVE x <= y
  <2>1. ~(<<y, x>> \in R)
    BY <1>4
  <2>2. ~(y < x)
    BY <1>3, <2>1
  <2> QED BY <2>2
<1> QED BY <1>5

(* Entries lie behind each other in the log. *)
LEMMA OffsetMonotonic ==
  ASSUME NEW s \in 1..MaxSeq, NEW t \in 1..MaxSeq+1, s < t
  PROVE  Offset[s+1] <= Offset[t]
<1> DEFINE T == {u \in Nat : u \in s+1..MaxSeq+1 /\ Offset[s+1] > Offset[u]}
<1>0. SUFFICES ASSUME T # {} PROVE FALSE
  <2>1. t \in T \/ Offset[s+1] <= Offset[t]
    BY ReplicaAssumption, OffsetAssumption
  <2> QED BY <2>1
<1>1. PICK u \in T : \A v \in T : u <= v
  BY <1>0, LeastNat
<1>2. u - 1 \in s+1..MaxSeq /\ u - 1 \notin T
  BY <1>1, ReplicaAssumption, OffsetAssumption
<1>3. Offset[u] = Offset[u-1] + Chunks[Feed[u-1]] + 2 /\ Chunks[Feed[u-1]] \in Nat
  BY <1>2, ReplicaAssumption, OffsetAssumption
<1> QED BY <1>1, <1>2, <1>3, ReplicaAssumption, OffsetAssumption

-----------------------------------------------------------------------------
(* What writing to a file, and the cells written, look like. *)
LEMMA OverwriteProperties ==
  ASSUME NEW S, NEW file \in Seq(S), NEW cells \in Seq(S), NEW pos \in 0..Len(file)
  PROVE  /\ Overwrite(file, pos, cells) \in Seq(S)
         /\ Len(Overwrite(file, pos, cells)) =
              IF pos + Len(cells) > Len(file) THEN pos + Len(cells) ELSE Len(file)
         /\ \A i \in 1..Len(Overwrite(file, pos, cells)) :
              Overwrite(file, pos, cells)[i] =
                IF i > pos /\ i <= pos + Len(cells) THEN cells[i - pos] ELSE file[i]
<1> DEFINE n == IF pos + Len(cells) > Len(file) THEN pos + Len(cells) ELSE Len(file)
           e(i) == IF i > pos /\ i <= pos + Len(cells) THEN cells[i - pos] ELSE file[i]
<1>1. n \in Nat /\ Len(file) \in Nat /\ Len(cells) \in Nat
  BY LenProperties
<1>2. \A i \in 1..n : e(i) \in S
  BY <1>1, ElementOfSeq
<1>3. Overwrite(file, pos, cells) = [i \in 1..n |-> e(i)]
  BY DEF Overwrite
<1> HIDE DEF n, e
<1>4. [i \in 1..n |-> e(i)] \in Seq(S)
  BY <1>1, <1>2, IsASeq
<1>5. Len([i \in 1..n |-> e(i)]) = n
  BY <1>1, <1>4, LenProperties
<1> QED BY <1>3, <1>4, <1>5 DEF n, e

(* Room for the chunks of an entry, and the back pointer behind it. *)
LEMMA EntryTailProperties ==
  ASSUME NEW seq \in 1..MaxSeq
  PROVE  /\ EntryTail(Feed[seq], Offset[seq]) \in Seq(LogCells)
         /\ Len(EntryTail(Feed[seq], Offset[seq])) = Chunks[Feed[seq]] + 1
         /\ EntryTail(Feed[seq], Offset[seq])[Chunks[Feed[seq]] + 1] = BackPtr(Offset[seq])
<1> DEFINE n == Chunks[Feed[seq]]
           tail == [i \in 1..n+1 |-> IF i <= n THEN Zero ELSE BackPtr(Offset[seq])]
<1>1. n \in Nat
  BY ReplicaAssumption
<1>2. Zero \in LogCells /\ BackPtr(Offset[seq]) \in LogCells
  BY DEF LogCells
<1>3. EntryTail(Feed[seq], Offset[seq]) = tail
  BY DEF EntryTail
<1>4. tail \in Seq(LogCells)
  BY <1>1, <1>2, IsASeq
<1>5. Len(tail) = n + 1
  BY <1>1, <1>4, LenProperties
<1>6. tail[n+1] = BackPtr(Offset[seq])
  BY <1>1
<1> QED BY <1>3, <1>4, <1>5, <1>6

-----------------------------------------------------------------------------
(* Positions of entries and of chunk slots are natural numbers in the log. *)
LEMMA OffsetTypes ==
  /\ MaxSeq \in Nat
  /\ \A seq \in 1..MaxSeq+1 : Offset[seq] \in Nat
  /\ \A seq \in 1..MaxSeq : /\ Chunks[Feed[seq]] \in Nat
                            /\ Offset[seq+1] = Offset[seq] + Chunks[Feed[seq]] + 2
BY ReplicaAssumption, OffsetAssumption

(* A frontier counts at most all the chunks of an entry. *)
LEMMA GotType ==
  ASSUME NEW f, FrontierOK(f), NEW seq \in 1..f.max_seq
  PROVE  Got(f, seq) \in 0..Chunks[Feed[seq]]
BY OffsetTypes DEF FrontierOK, Got

(* The first n cells of two files are the same, but for the cell q. *)
SameBut(file, file2, n, q) == \A i \in 1..n : i # q => file2[i] = file[i]
Covers(file, n) == n <= Len(file)
Same(file, file2, n) == \A i \in 1..n : file2[i] = file[i]

(***************************************************************************)
(* What a frontier says of a file does not depend on what lies behind its  *)
(* end, nor on the slot q of a chunk that has not arrived.                 *)
(***************************************************************************)
LEMMA LogHoldsElsewhere ==
  ASSUME NEW f, FrontierOK(f),
         NEW file, NEW file2, LogHolds(file, f),
         NEW s \in 1..f.max_seq, NEW c \in Got(f, s)..Chunks[Feed[s]]-1,
         Covers(file2, f.max_pos),
         SameBut(file, file2, f.max_pos, Offset[s] + 2 + c)
  PROVE  LogHolds(file2, f)
<1> DEFINE q == Offset[s] + 2 + c
<1>0. f.max_seq \in 0..MaxSeq /\ f.max_pos = Offset[f.max_seq+1]
  BY DEF FrontierOK
<1>1. f.max_seq \in 0..MaxSeq /\ f.max_pos = Offset[f.max_seq+1] /\ f.max_pos \in Nat
  BY <1>0, OffsetTypes
<1>2. s \in 1..MaxSeq /\ Got(f, s) \in Nat /\ c \in Nat
  BY <1>1, GotType, OffsetTypes
<1>3. Offset[s] \in Nat /\ Offset[s+1] = Offset[s] + Chunks[Feed[s]] + 2
      /\ Chunks[Feed[s]] \in Nat
  BY <1>2, OffsetTypes
<1>4. /\ q \in Nat /\ Offset[s] \in Nat /\ Offset[s+1] \in Nat
      /\ Offset[s] + 2 <= q /\ q < Offset[s+1]
  BY <1>2, <1>3
<1>4a. q = Offset[s] + 2 + c
  OBVIOUS
<1>4b. SameBut(file, file2, f.max_pos, q)
  OBVIOUS
<1> HIDE DEF q
<1>5. ASSUME NEW t \in 1..f.max_seq,
             NEW i \in Offset[t]+1..Offset[t+1],
             t = s => i # q
      PROVE  file2[i] = file[i]
  <2>1. t \in 1..MaxSeq /\ Offset[t] \in Nat /\ Offset[t+1] \in Nat
    BY <1>1, OffsetTypes
  <2>2. Offset[t+1] <= f.max_pos
    <3>1. CASE t = f.max_seq
      BY <3>1, <1>1, <2>1
    <3>2. CASE t < f.max_seq
      <4>1. f.max_seq + 1 \in 1..MaxSeq+1 /\ t < f.max_seq + 1
        BY <3>2, <1>1, <2>1, OffsetTypes
      <4> QED BY <4>1, <1>1, <2>1, OffsetMonotonic
    <3> QED BY <3>1, <3>2, <1>1
  <2>3. i \in 1..f.max_pos
    BY <1>1, <2>1, <2>2
  <2>4. i # q
    <3>1. CASE t < s
      <4>1. Offset[t+1] <= Offset[s]
        BY <3>1, <2>1, <1>2, OffsetTypes, OffsetMonotonic
      <4> QED BY <4>1, <2>1, <1>4
    <3>2. CASE s < t
      <4>1. Offset[s+1] <= Offset[t]
        BY <3>2, <2>1, <1>2, OffsetTypes, OffsetMonotonic
      <4> QED BY <4>1, <2>1, <1>4
    <3>3. CASE t = s
      BY <3>3, <1>5
    <3> QED BY <3>1, <3>2, <3>3, <2>1, <1>2
  <2> QED BY <2>3, <2>4, <1>4b DEF SameBut
<1>6. ASSUME NEW t \in 1..f.max_seq
      PROVE  /\ file2[Offset[t] + 1] = FeedEntry(t)
             /\ file2[Offset[t + 1]] = BackPtr(Offset[t])
             /\ \A cnr \in 0..Got(f, t)-1 :
                  file2[Offset[t] + 2 + cnr] = ChunkPkt(Feed[t], cnr)
  <2>1. t \in 1..MaxSeq /\ Offset[t] \in Nat /\ Chunks[Feed[t]] \in Nat
        /\ Offset[t+1] = Offset[t] + Chunks[Feed[t]] + 2
    BY <1>1, OffsetTypes
  <2>2. Got(f, t) \in 0..Chunks[Feed[t]]
    BY GotType
  <2>3. file2[Offset[t] + 1] = FeedEntry(t)
    <3>1. Offset[t] + 1 \in Offset[t]+1..Offset[t+1] /\ (t = s => Offset[t] + 1 # q)
      BY <2>1, <1>4
    <3>2. file2[Offset[t] + 1] = file[Offset[t] + 1]
      BY <3>1, <1>5
    <3> QED BY <3>2 DEF LogHolds
  <2>4. file2[Offset[t+1]] = BackPtr(Offset[t])
    <3>1. Offset[t+1] \in Offset[t]+1..Offset[t+1] /\ (t = s => Offset[t+1] # q)
      BY <2>1, <1>4
    <3>2. file2[Offset[t+1]] = file[Offset[t+1]]
      BY <3>1, <1>5
    <3> QED BY <3>2 DEF LogHolds
  <2>5. ASSUME NEW cnr \in 0..Got(f, t)-1
        PROVE  file2[Offset[t] + 2 + cnr] = ChunkPkt(Feed[t], cnr)
    <3>1. Offset[t] + 2 + cnr \in Offset[t]+1..Offset[t+1]
      BY <2>1, <2>2
    <3>2. t = s => Offset[t] + 2 + cnr # q
      BY <2>1, <2>2, <1>2, <1>4a
    <3>3. file2[Offset[t] + 2 + cnr] = file[Offset[t] + 2 + cnr]
      BY <3>1, <3>2, <1>5
    <3> QED BY <3>3 DEF LogHolds
  <2> QED BY <2>3, <2>4, <2>5
<1> QED BY <1>6 DEF LogHolds, Covers

(* Nor does it depend on cells that are appended. *)
LEMMA LogHoldsPrefix ==
  ASSUME NEW f, FrontierOK(f),
         NEW file, NEW file2, LogHolds(file, f),
         Covers(file2, f.max_pos),
         Same(file, file2, f.max_pos)
  PROVE  LogHolds(file2, f)
<1>0. f.max_seq \in 0..MaxSeq /\ f.max_pos = Offset[f.max_seq+1]
  BY DEF FrontierOK
<1>1. f.max_seq \in 0..MaxSeq /\ f.max_pos = Offset[f.max_seq+1] /\ f.max_pos \in Nat
  BY <1>0, OffsetTypes
<1>2. ASSUME NEW t \in 1..f.max_seq, NEW i \in Offset[t]+1..Offset[t+1]
      PROVE  file2[i] = file[i]
  <2>1. t \in 1..MaxSeq /\ Offset[t] \in Nat /\ Offset[t+1] \in Nat
    BY <1>1, OffsetTypes
  <2>2. Offset[t+1] <= f.max_pos
    <3>1. CASE t = f.max_seq
      BY <3>1, <1>1, <2>1
    <3>2. CASE t < f.max_seq
      <4>1. f.max_seq + 1 \in 1..MaxSeq+1 /\ t < f.max_seq + 1
        BY <3>2, <1>1, <2>1, OffsetTypes
      <4> QED BY <4>1, <1>1, <2>1, OffsetMonotonic
    <3> QED BY <3>1, <3>2, <1>1
  <2>3. i \in 1..f.max_pos
    BY <1>1, <2>1, <2>2
  <2> QED BY <2>3 DEF Same
<1>3. ASSUME NEW t \in 1..f.max_seq
      PROVE  /\ file2[Offset[t] + 1] = FeedEntry(t)
             /\ file2[Offset[t + 1]] = BackPtr(Offset[t])
             /\ \A cnr \in 0..Got(f, t)-1 :
                  file2[Offset[t] + 2 + cnr] = ChunkPkt(Feed[t], cnr)
  <2>1. t \in 1..MaxSeq /\ Offset[t] \in Nat /\ Chunks[Feed[t]] \in Nat
        /\ Offset[t+1] = Offset[t] + Chunks[Feed[t]] + 2
        /\ Got(f, t) \in 0..Chunks[Feed[t]]
    BY <1>1, OffsetTypes, GotType
  <2>2. \A i \in Offset[t]+1..Offset[t+1] : file2[i] = file[i]
    BY <1>2
  <2>3. /\ file2[Offset[t] + 1] = file[Offset[t] + 1]
        /\ file2[Offset[t + 1]] = file[Offset[t + 1]]
        /\ \A cnr \in 0..Got(f, t)-1 :
             file2[Offset[t] + 2 + cnr] = file[Offset[t] + 2 + cnr]
    BY <2>1, <2>2
  <2> QED BY <2>3 DEF LogHolds
<1> QED BY <1>3 DEF LogHolds, Covers

-----------------------------------------------------------------------------
(***************************************************************************)
(* The frontier that ingest_entry_pkt and the catch-up of __init__ compute *)
(* is right for a log that holds the next entry.                           *)
(***************************************************************************)
LEMMA NextEntry ==
  ASSUME NEW f, FrontierOK(f), f.max_seq < MaxSeq,
         NEW file, LogHolds(file, f),
         file[f.max_pos + 1] = FeedEntry(f.max_seq + 1),
         file[Offset[f.max_seq + 2]] = BackPtr(f.max_pos),
         Covers(file, Offset[f.max_seq + 2]),
         NEW g,
         g = Frontier(f.max_seq + 1, Offset[f.max_seq + 2],
                      Digest(f.max_seq + 1, Feed[f.max_seq + 1]),
                      OpenChain(f.pend, f.max_seq + 1, Feed[f.max_seq + 1], f.max_pos))
  PROVE  FrontierOK(g) /\ LogHolds(file, g) /\ OneMoreEntry(f, g)
<1> DEFINE seq == f.max_seq + 1
           n == Chunks[Feed[seq]]
           pend == OpenChain(f.pend, seq, Feed[seq], f.max_pos)
<1>1. /\ f.max_seq \in 0..MaxSeq /\ f.max_pos = Offset[seq] /\ DOMAIN f.pend \subseteq 1..f.max_seq
      /\ \A s \in DOMAIN f.pend : /\ f.pend[s].cnr \in 0..Chunks[Feed[s]]-1
                                  /\ f.pend[s] = ChainAt(s, f.pend[s].cnr)
  BY DEF FrontierOK
<1>2. seq \in 1..MaxSeq /\ n \in Nat /\ seq \notin DOMAIN f.pend /\ f.max_seq + 2 = seq + 1
      /\ Offset[seq+1] = Offset[seq] + n + 2 /\ Offset[seq] \in Nat
  BY <1>1, OffsetTypes
<1>3. /\ g.max_seq = seq /\ g.max_pos = Offset[seq+1] /\ g.prev = Digest(seq, Feed[seq])
      /\ g.pend = pend
  BY <1>2 DEF Frontier
<1>4. /\ DOMAIN pend = IF n = 0 THEN DOMAIN f.pend ELSE DOMAIN f.pend \cup {seq}
      /\ \A s \in DOMAIN f.pend : pend[s] = f.pend[s]
      /\ n # 0 => pend[seq] = ChainAt(seq, 0)
  <2>1. CASE n = 0
    BY <2>1 DEF OpenChain
  <2>2. CASE n # 0
    <3>1. pend = [s \in DOMAIN f.pend \cup {seq} |->
                    IF s = seq THEN ChainAt(seq, 0) ELSE f.pend[s]]
      BY <2>2, <1>1, <1>2 DEF OpenChain, ChainAt
    <3> QED BY <3>1, <2>2, <1>2
  <2> QED BY <2>1, <2>2
<1> HIDE DEF pend
<1>5. FrontierOK(g)
  <2>1. seq \in 0..MaxSeq /\ DOMAIN pend \subseteq 1..seq
    BY <1>1, <1>2, <1>4
  <2>2. Digest(seq, Feed[seq]) = FeedPrev(seq + 1)
    BY <1>2 DEF FeedPrev
  <2>3. ChainAt(seq, 0).cnr = 0
    BY DEF ChainAt
  <2>4. \A s \in DOMAIN pend : /\ pend[s].cnr \in 0..Chunks[Feed[s]]-1
                               /\ pend[s] = ChainAt(s, pend[s].cnr)
    BY <1>1, <1>2, <1>4, <2>3
  <2> QED BY <1>3, <2>1, <2>2, <2>4 DEF FrontierOK
<1>6. Got(g, seq) = 0 /\ \A s \in 1..f.max_seq : Got(g, s) = Got(f, s)
  <2>1. ChainAt(seq, 0).cnr = 0
    BY DEF ChainAt
  <2>2. \A s \in 1..f.max_seq : s # seq
    BY <1>1
  <2> QED BY <1>2, <1>3, <1>4, <2>1, <2>2 DEF Got
<1>7. LogHolds(file, g)
  <2>1. ASSUME NEW s \in 1..seq
        PROVE  /\ file[Offset[s] + 1] = FeedEntry(s)
               /\ file[Offset[s + 1]] = BackPtr(Offset[s])
               /\ \A cnr \in 0..Got(g, s)-1 :
                    file[Offset[s] + 2 + cnr] = ChunkPkt(Feed[s], cnr)
    <3>1. CASE s = seq
      BY <3>1, <1>1, <1>2, <1>6
    <3>2. CASE s # seq
      <4>1. s \in 1..f.max_seq
        BY <3>2, <1>1
      <4> QED BY <4>1, <1>6 DEF LogHolds
    <3> QED BY <3>1, <3>2
  <2>2. Offset[seq+1] <= Len(file)
    BY <1>2 DEF Covers
  <2> QED BY <1>3, <2>1, <2>2 DEF LogHolds
<1> QED BY <1>3, <1>5, <1>6, <1>7 DEF OneMoreEntry

(* So is the one that ingest_chunk_pkt computes, once the chunk is written. *)
LEMMA NextChunkOfChain ==
  ASSUME NEW f, FrontierOK(f), NEW s \in DOMAIN f.pend,
         NEW file, LogHolds(file, f),
         NEW pkt, pkt = ChunkPkt(Feed[s], f.pend[s].cnr),
         file[f.pend[s].pos + 1] = pkt,
         NEW g,
         g = Frontier(f.max_seq, f.max_pos, f.prev,
                      IF f.pend[s].rem <= 1 THEN CloseChain(f.pend, s)
                      ELSE [f.pend EXCEPT ![s] = NextChunk(f.pend[s], pkt)])
  PROVE  FrontierOK(g) /\ LogHolds(file, g) /\ OneMoreChunk(f, g)
<1> DEFINE n == Chunks[Feed[s]]
           c == f.pend[s].cnr
           pend == IF f.pend[s].rem <= 1 THEN CloseChain(f.pend, s)
                   ELSE [f.pend EXCEPT ![s] = NextChunk(f.pend[s], pkt)]
<1>1. /\ f.max_seq \in 0..MaxSeq /\ f.max_pos = Offset[f.max_seq+1] /\ f.prev = FeedPrev(f.max_seq + 1)
      /\ DOMAIN f.pend \subseteq 1..f.max_seq
      /\ \A t \in DOMAIN f.pend : /\ f.pend[t].cnr \in 0..Chunks[Feed[t]]-1
                                  /\ f.pend[t] = ChainAt(t, f.pend[t].cnr)
  BY DEF FrontierOK
<1>2. s \in 1..MaxSeq /\ s \in 1..f.max_seq /\ n \in Nat /\ c \in 0..n-1 /\ f.pend[s] = ChainAt(s, c)
      /\ Offset[s] \in Nat
  BY <1>1, OffsetTypes
<1>3. f.pend[s].rem = n - c /\ f.pend[s].pos = Offset[s] + 1 + c
  BY <1>2 DEF ChainAt
<1>4. g.max_seq = f.max_seq /\ g.max_pos = f.max_pos /\ g.prev = f.prev /\ g.pend = pend
  BY DEF Frontier
<1>5. NextChunk(f.pend[s], pkt) = ChainAt(s, c + 1)
  BY <1>2 DEF NextChunk, ChainAt, ChunkPkt
<1>6. /\ DOMAIN pend = IF n = c + 1 THEN DOMAIN f.pend \ {s} ELSE DOMAIN f.pend
      /\ \A t \in DOMAIN f.pend \ {s} : pend[t] = f.pend[t]
      /\ n # c + 1 => pend[s] = ChainAt(s, c + 1)
  <2>1. CASE n = c + 1
    <3>1. pend = CloseChain(f.pend, s)
      BY <2>1, <1>2, <1>3
    <3> HIDE DEF pend
    <3> QED BY <3>1, <2>1 DEF CloseChain
  <2>2. CASE n # c + 1
    <3>1. pend = [f.pend EXCEPT ![s] = ChainAt(s, c + 1)]
      BY <2>2, <1>2, <1>3, <1>5
    <3> HIDE DEF pend
    <3> QED BY <3>1, <2>2
  <2> QED BY <2>1, <2>2
<1> HIDE DEF pend
<1>7. ChainAt(s, c + 1).cnr = c + 1
  BY DEF ChainAt
<1>8. FrontierOK(g)
  <2>1. DOMAIN pend \subseteq 1..f.max_seq
    BY <1>1, <1>6
  <2>2. \A t \in DOMAIN pend : /\ pend[t].cnr \in 0..Chunks[Feed[t]]-1
                               /\ pend[t] = ChainAt(t, pend[t].cnr)
    <3>1. \A t \in DOMAIN pend : t # s => t \in DOMAIN f.pend \ {s}
      BY <1>6
    <3>2. s \in DOMAIN pend => c + 1 \in 0..n-1 /\ pend[s] = ChainAt(s, c + 1)
      BY <1>6, <1>2
    <3> QED BY <3>1, <3>2, <1>1, <1>6, <1>7
  <2> QED BY <1>1, <1>4, <2>1, <2>2 DEF FrontierOK
<1>9. /\ Got(f, s) = c /\ Got(g, s) = c + 1
      /\ \A t \in 1..f.max_seq : t # s => Got(g, t) = Got(f, t)
  <2>1. Got(f, s) = c
    BY DEF Got
  <2>2. Got(g, s) = c + 1
    BY <1>2, <1>4, <1>6, <1>7 DEF Got
  <2>3. \A t \in 1..f.max_seq : t # s => Got(g, t) = Got(f, t)
    BY <1>4, <1>6 DEF Got
  <2> QED BY <2>1, <2>2, <2>3
<1>10. LogHolds(file, g)
  <2>1. ASSUME NEW t \in 1..f.max_seq
        PROVE  /\ file[Offset[t] + 1] = FeedEntry(t)
               /\ file[Offset[t + 1]] = BackPtr(Offset[t])
               /\ \A cnr \in 0..Got(g, t)-1 :
                    file[Offset[t] + 2 + cnr] = ChunkPkt(Feed[t], cnr)
    <3>1. CASE t # s
      BY <3>1, <1>9 DEF LogHolds
    <3>2. CASE t = s
      <4>1. /\ file[Offset[s] + 1] = FeedEntry(s)
            /\ file[Offset[s + 1]] = BackPtr(Offset[s])
            /\ \A cnr \in 0..c-1 : file[Offset[s] + 2 + cnr] = ChunkPkt(Feed[s], cnr)
        BY <1>2, <1>9 DEF LogHolds
      <4>2. file[Offset[s] + 2 + c] = ChunkPkt(Feed[s], c)
        BY <1>2, <1>3
      <4>3. \A cnr \in 0..c : cnr \in 0..c-1 \/ cnr = c
        BY <1>2
      <4>4. Got(g, s) - 1 = c
        BY <1>2, <1>9
      <4> QED BY <3>2, <4>1, <4>2, <4>3, <4>4
    <3> QED BY <3>1, <3>2
  <2>2. f.max_pos <= Len(file)
    BY DEF LogHolds
  <2> QED BY <1>4, <2>1, <2>2 DEF LogHolds
<1>11. OneMoreChunk(f, g)
  BY <1>2, <1>4, <1>9 DEF OneMoreChunk
<1> QED BY <1>8, <1>10, <1>11

-----------------------------------------------------------------------------
(* The length of a file, as a name of its own: the leaves below need its    *)
(* properties and not those of sequences.                                  *)
Size(file) == Len(file)

(* What appending to a file does to its length and its cells. *)
LEMMA ConcatFile ==
  ASSUME NEW S, NEW file \in Seq(S), NEW cells \in Seq(S)
  PROVE  /\ file \o cells \in Seq(S)
         /\ Size(file) \in Nat /\ Size(cells) \in Nat
         /\ Size(file \o cells) = Size(file) + Size(cells)
         /\ \A i \in 1..Size(file) + Size(cells) : (file \o cells)[i] =
              IF i <= Size(file) THEN file[i] ELSE cells[i - Size(file)]
<1>1. Len(file) \in Nat /\ Len(cells) \in Nat
  BY LenProperties
<1>2. /\ file \o cells \in Seq(S)
      /\ Len(file \o cells) = Len(file) + Len(cells)
      /\ \A i \in 1..Len(file) + Len(cells) : (file \o cells)[i] =
           IF i <= Len(file) THEN file[i] ELSE cells[i - Len(file)]
  BY ConcatProperties
<1> QED BY <1>1, <1>2, Zenon DEF Size

(* The same for writing cells inside a file. *)
LEMMA OverwriteFile ==
  ASSUME NEW S, NEW file \in Seq(S), NEW cells \in Seq(S), NEW pos \in 0..Size(file)
  PROVE  /\ Overwrite(file, pos, cells) \in Seq(S)
         /\ Size(file) \in Nat /\ Size(cells) \in Nat
         /\ Size(Overwrite(file, pos, cells)) =
              IF pos + Size(cells) > Size(file) THEN pos + Size(cells) ELSE Size(file)
         /\ \A i \in 1..Size(Overwrite(file, pos, cells)) :
              Overwrite(file, pos, cells)[i] =
                IF i > pos /\ i <= pos + Size(cells) THEN cells[i - pos] ELSE file[i]
<1>1. Len(file) \in Nat /\ Len(cells) \in Nat
  BY LenProperties
<1>2. pos \in 0..Len(file)
  BY Zenon DEF Size
<1> QED BY <1>1, <1>2, OverwriteProperties, Zenon DEF Size

(***************************************************************************)
(* The three ways a follower writes to its log keep the disk as it should  *)
(* be: a part of the next entry is appended, ...                           *)
(***************************************************************************)
LEMMA AppendPart ==
  ASSUME NEW f, NEW file, IsDisk(file, f), Size(file) = f.max_pos, f.max_seq < MaxSeq,
         NEW cells \in Seq(LogCells),
         Size(cells) <= Chunks[Feed[f.max_seq + 1]] + 2,
         Size(cells) > 0 => cells[1] = FeedEntry(f.max_seq + 1)
  PROVE  /\ IsDisk(file \o cells, f)
         /\ Size(file \o cells) = f.max_pos + Size(cells)
         /\ \A i \in 1..Size(cells) : (file \o cells)[f.max_pos + i] = cells[i]
<1> DEFINE seq == f.max_seq + 1
           file2 == file \o cells
<1>1. /\ file \in Seq(LogCells) /\ FrontierOK(f) /\ LogHolds(file, f)
  BY DEF IsDisk
<1>2. f.max_seq \in 0..MaxSeq /\ f.max_pos = Offset[f.max_seq+1]
  BY <1>1 DEF FrontierOK
<1>3. /\ seq \in 1..MaxSeq /\ f.max_pos = Offset[seq] /\ Offset[seq] \in Nat
      /\ Offset[seq+1] = Offset[seq] + Chunks[Feed[seq]] + 2 /\ Chunks[Feed[seq]] \in Nat
      /\ f.max_seq + 2 = seq + 1
  <2>1. seq \in 1..MaxSeq /\ seq \in 1..MaxSeq+1 /\ f.max_seq + 2 = seq + 1
    BY <1>2, OffsetTypes
  <2> QED BY <2>1, <1>2, OffsetTypes
<1>4. Size(file) \in Nat /\ Size(cells) \in Nat
  BY <1>1, ConcatFile
<1>5. /\ file2 \in Seq(LogCells)
      /\ Size(file2) = Size(file) + Size(cells)
      /\ \A i \in 1..Size(file) + Size(cells) :
           file2[i] = IF i <= Size(file) THEN file[i] ELSE cells[i - Size(file)]
  BY <1>1, ConcatFile
<1> HIDE DEF file2
<1>6. ASSUME NEW i \in 1..Size(cells) PROVE file2[f.max_pos + i] = cells[i]
  <2> DEFINE o == f.max_pos
  <2>1. o \in Nat /\ Size(file) = o
    BY <1>3
  <2> HIDE DEF o
  <2>2. ASSUME NEW j, j = o + i PROVE file2[j] = cells[i]
    <3>1. j \in 1..Size(file) + Size(cells)
      BY <2>1, <2>2, <1>4
    <3>2. ~(j <= Size(file)) /\ j - Size(file) = i
      BY <2>1, <2>2, <1>4
    <3> QED BY <3>1, <3>2, <1>5
  <2>3. file2[o + i] = cells[i]
    BY <2>2
  <2> QED BY <2>3 DEF o
<1>7. LogHolds(file2, f)
  <2>1. Covers(file2, f.max_pos)
    BY <1>4, <1>5 DEF Size, Covers
  <2>2. Same(file, file2, f.max_pos)
    BY <1>4, <1>5 DEF Same
  <2> QED BY <1>1, <2>1, <2>2, LogHoldsPrefix
<1>8. TailOK(file2, f)
  <2>1. Size(file2) > f.max_pos => Size(cells) > 0 /\ 1 \in 1..Size(cells)
    BY <1>4, <1>5
  <2>2. Size(file2) <= Offset[seq + 1]
    <3> DEFINE k == Chunks[Feed[seq]]
               o == Offset[seq]
    <3>1. k \in Nat /\ o \in Nat /\ Size(file) = o
      BY <1>3
    <3>2. Offset[seq + 1] = o + k + 2
      BY <1>3
    <3>3. Size(cells) <= k + 2
      OBVIOUS
    <3> HIDE DEF k, o
    <3> QED BY <3>1, <3>2, <3>3, <1>4, <1>5
  <2> QED BY <1>3, <1>6, <2>1, <2>2 DEF Size, TailOK
<1>9. IsDisk(file2, f)
  BY <1>1, <1>5, <1>7, <1>8 DEF IsDisk
<1> QED BY <1>5, <1>6, <1>9 DEF file2

(* ... the slots of an entry that was found behind the end are cleared, ... *)
LEMMA ClearSlots ==
  ASSUME NEW f, NEW file, IsDisk(file, f), Size(file) > f.max_pos,
         NEW cells \in Seq(LogCells),
         Size(cells) <= Chunks[Feed[f.max_seq + 1]] + 1
  PROVE  LET file2 == Overwrite(file, f.max_pos + 1, cells)
         IN /\ f.max_seq < MaxSeq
            /\ IsDisk(file2, f)
            /\ file2[f.max_pos + 1] = FeedEntry(f.max_seq + 1)
            /\ Size(cells) = Chunks[Feed[f.max_seq + 1]] + 1 =>
                 /\ Size(file2) = Offset[f.max_seq + 2]
                 /\ file2[Offset[f.max_seq + 2]] = cells[Size(cells)]
<1> DEFINE seq == f.max_seq + 1
           p == f.max_pos + 1
           file2 == Overwrite(file, p, cells)
<1>1. /\ file \in Seq(LogCells) /\ FrontierOK(f) /\ LogHolds(file, f) /\ TailOK(file, f)
  BY DEF IsDisk
<1>2. f.max_seq \in 0..MaxSeq /\ f.max_pos = Offset[f.max_seq+1] /\ f.max_seq < MaxSeq
  BY <1>1 DEF Size, FrontierOK, TailOK
<1>3. /\ seq \in 1..MaxSeq /\ f.max_pos = Offset[seq] /\ Offset[seq] \in Nat
      /\ Offset[seq+1] = Offset[seq] + Chunks[Feed[seq]] + 2 /\ Chunks[Feed[seq]] \in Nat
      /\ f.max_seq + 2 = seq + 1
  <2>1. seq \in 1..MaxSeq /\ seq \in 1..MaxSeq+1 /\ f.max_seq + 2 = seq + 1
    BY <1>2, OffsetTypes
  <2> QED BY <2>1, <1>2, OffsetTypes
<1>4. file[f.max_pos + 1] = FeedEntry(seq) /\ Size(file) <= Offset[seq + 1]
  BY <1>1, <1>3 DEF Size, TailOK
<1>5. Size(file) \in Nat /\ Size(cells) \in Nat
  BY <1>1, ConcatFile
<1>6. p \in 0..Size(file) /\ p \in Nat /\ p = f.max_pos + 1
  <2>1. f.max_pos \in Nat
    BY <1>3
  <2>2. p \in Nat
    BY <2>1
  <2>3. p <= Size(file)
    BY <2>1, <1>5
  <2> QED BY <2>2, <2>3, <1>5
<1> HIDE DEF p
<1>7. /\ file2 \in Seq(LogCells)
      /\ Size(file2) = IF p + Size(cells) > Size(file)
                      THEN p + Size(cells) ELSE Size(file)
      /\ \A i \in 1..Size(file2) :
           file2[i] = IF i > p /\ i <= p + Size(cells)
                      THEN cells[i - p] ELSE file[i]
  <2>1. p \in 0..Size(file)
    BY <1>6
  <2> QED BY <2>1, <1>1, OverwriteFile
<1> HIDE DEF file2, p
<1>8. p <= Size(file2) /\ Size(file2) <= Offset[seq + 1] /\ Size(file2) \in Nat
  <2>1. p + Size(cells) <= Offset[seq + 1]
    <3> DEFINE k == Chunks[Feed[seq]]
               o == Offset[seq]
    <3>1. k \in Nat /\ o \in Nat
      BY <1>3
    <3>2. p = o + 1 /\ Offset[seq + 1] = o + k + 2
      BY <1>3, <1>6
    <3>3. Size(cells) <= k + 1
      OBVIOUS
    <3> HIDE DEF k, o
    <3> QED BY <3>1, <3>2, <3>3, <1>5
  <2>2. p <= Size(file)
    BY <1>3, <1>5, <1>6
  <2>3. p + Size(cells) \in Nat /\ p <= p + Size(cells)
    BY <1>5, <1>6
  <2> QED BY <2>1, <2>2, <2>3, <1>4, <1>5, <1>7
<1>9. file2[p] = FeedEntry(seq)
  <2>1. p \in 1..Size(file2) /\ ~(p > p)
    BY <1>3, <1>6, <1>8
  <2> QED BY <2>1, <1>4, <1>6, <1>7
<1>10. LogHolds(file2, f)
  <2>1. Covers(file2, f.max_pos)
    BY <1>3, <1>6, <1>8 DEF Size, Covers
  <2>2. ASSUME NEW i \in 1..f.max_pos PROVE file2[i] = file[i]
    <3>1. i \in 1..Size(file2) /\ ~(i > p)
      BY <1>3, <1>6, <1>8
    <3> QED BY <3>1, <1>7
  <2>3. Same(file, file2, f.max_pos)
    BY <2>2 DEF Same
  <2> QED BY <1>1, <2>1, <2>3, LogHoldsPrefix
<1>11. IsDisk(file2, f)
  BY <1>1, <1>2, <1>3, <1>6, <1>7, <1>8, <1>9, <1>10 DEF Size, IsDisk, TailOK
<1>12. ASSUME Size(cells) = Chunks[Feed[seq]] + 1
       PROVE  Size(file2) = Offset[seq + 1] /\ file2[Offset[seq + 1]] = cells[Size(cells)]
  <2>0. Offset[seq + 1] = p + (Chunks[Feed[seq]] + 1)
    <3> DEFINE k == Chunks[Feed[seq]]
               o == Offset[seq]
    <3>1. k \in Nat /\ o \in Nat /\ p = o + 1 /\ Offset[seq + 1] = o + k + 2
      BY <1>3, <1>6
    <3> HIDE DEF k, o
    <3>2. o + k + 2 = p + (k + 1)
      BY <3>1
    <3> QED BY <3>1, <3>2 DEF k
  <2>1. Offset[seq + 1] = p + Size(cells)
    BY <2>0, <1>12
  <2>2. Size(file2) = Offset[seq + 1]
    <3>1. p + Size(cells) \in Nat /\ Size(file) <= p + Size(cells)
      BY <2>1, <1>4, <1>5, <1>6
    <3> QED BY <3>1, <2>1, <1>5, <1>7
  <2>3. Offset[seq + 1] \in 1..Size(file2) /\ Offset[seq + 1] > p
    BY <2>2, <1>3, <1>6
  <2>4. Offset[seq + 1] <= p + Size(cells) /\ Offset[seq + 1] - p = Size(cells)
    BY <2>1, <1>5, <1>6
  <2> QED BY <2>2, <2>3, <2>4, <1>7
<1> QED BY <1>2, <1>3, <1>6, <1>9, <1>11, <1>12 DEF file2, p

(* ... or a missing chunk is written in its slot, wholly or in part. *)
LEMMA WriteSlot ==
  ASSUME NEW f, NEW file, IsDisk(file, f), Size(file) = f.max_pos,
         NEW s \in DOMAIN f.pend, NEW cell \in LogCells
  PROVE  LET file2 == Overwrite(file, f.pend[s].pos, <<cell>>)
         IN /\ IsDisk(file2, f)
            /\ Size(file2) = f.max_pos
            /\ file2[f.pend[s].pos + 1] = cell
<1> DEFINE c == f.pend[s].cnr
           pos == f.pend[s].pos
           file2 == Overwrite(file, pos, <<cell>>)
<1>1. /\ file \in Seq(LogCells) /\ FrontierOK(f) /\ LogHolds(file, f)
  BY DEF IsDisk
<1>2. /\ f.max_seq \in 0..MaxSeq /\ f.max_pos = Offset[f.max_seq+1]
      /\ s \in 1..f.max_seq
      /\ c \in 0..Chunks[Feed[s]]-1 /\ f.pend[s] = ChainAt(s, c)
  BY <1>1 DEF FrontierOK
<1>3. pos = Offset[s] + 1 + c
  BY <1>2 DEF ChainAt
<1>4. /\ s \in 1..MaxSeq /\ Offset[s] \in Nat /\ Chunks[Feed[s]] \in Nat
      /\ Offset[s+1] = Offset[s] + Chunks[Feed[s]] + 2 /\ f.max_pos \in Nat
      /\ Offset[s+1] \in Nat
  BY <1>2, OffsetTypes
<1>5. Offset[s+1] <= f.max_pos
  <2>1. CASE s = f.max_seq
    BY <2>1, <1>2, <1>4
  <2>2. CASE s # f.max_seq
    <3>1. f.max_seq + 1 \in 1..MaxSeq+1 /\ s < f.max_seq + 1
      BY <2>2, <1>2, OffsetTypes
    <3> QED BY <3>1, <1>2, <1>4, OffsetMonotonic
  <2> QED BY <2>1, <2>2
<1>6. pos \in Nat /\ pos + 1 <= f.max_pos
  BY <1>2, <1>3, <1>4, <1>5
<1>7. c \in Got(f, s)..Chunks[Feed[s]]-1
  BY <1>2, <1>4 DEF Got
<1>8. <<cell>> \in Seq(LogCells) /\ Size(<<cell>>) = 1 /\ <<cell>>[1] = cell
  BY DEF Size
<1> HIDE DEF pos, c
<1>9. pos \in 0..Size(file)
  BY <1>4, <1>6
<1>10. /\ file2 \in Seq(LogCells)
       /\ Size(file2) = IF pos + Size(<<cell>>) > Size(file) THEN pos + Size(<<cell>>) ELSE Size(file)
       /\ \A i \in 1..Size(file2) :
            file2[i] = IF i > pos /\ i <= pos + Size(<<cell>>) THEN <<cell>>[i - pos] ELSE file[i]
  BY <1>1, <1>8, <1>9, OverwriteFile
<1> HIDE DEF file2
<1>11. Size(file2) = f.max_pos
  BY <1>6, <1>8, <1>10, <1>4
<1>12. ASSUME NEW i \in 1..f.max_pos
       PROVE  file2[i] = IF i = pos + 1 THEN cell ELSE file[i]
  <2>1. i \in 1..Size(file2) /\ i \in Nat
    BY <1>4, <1>11
  <2>2. i > pos /\ i <= pos + Size(<<cell>>) <=> i = pos + 1
    BY <2>1, <1>6, <1>8
  <2>3. i = pos + 1 => <<cell>>[i - pos] = cell
    BY <1>6, <1>8
  <2> QED BY <2>1, <2>2, <2>3, <1>10
<1>13. file2[pos + 1] = cell
  BY <1>12, <1>6, <1>4
<1>14. LogHolds(file2, f)
  <2>1. Covers(file2, f.max_pos)
    BY <1>4, <1>11 DEF Size, Covers
  <2>2. pos + 1 = Offset[s] + 2 + c
    BY <1>3, <1>4, <1>7
  <2>3. SameBut(file, file2, f.max_pos, Offset[s] + 2 + c)
    BY <1>12, <2>2 DEF SameBut
  <2> QED BY <1>1, <1>2, <1>7, <2>1, <2>3, LogHoldsElsewhere
<1>15. IsDisk(file2, f)
  BY <1>1, <1>4, <1>10, <1>11, <1>14 DEF Size, IsDisk, TailOK
<1> QED BY <1>11, <1>13, <1>15 DEF file2, pos

-----------------------------------------------------------------------------
(* The cells of the next entry, and a part of them. *)
LEMMA EntryCellsProperties ==
  ASSUME NEW seq \in 1..MaxSeq
  PROVE  LET cells == <<FeedEntry(seq)>> \o EntryTail(Feed[seq], Offset[seq])
         IN /\ cells \in Seq(LogCells)
            /\ Size(cells) = Chunks[Feed[seq]] + 2
            /\ cells[1] = FeedEntry(seq)
            /\ cells[Chunks[Feed[seq]] + 2] = BackPtr(Offset[seq])
<1> DEFINE n == Chunks[Feed[seq]]
           tail == EntryTail(Feed[seq], Offset[seq])
           head == <<FeedEntry(seq)>>
<1>1. n \in Nat
  BY OffsetTypes
<1>2. tail \in Seq(LogCells) /\ Size(tail) = n + 1 /\ tail[n + 1] = BackPtr(Offset[seq])
  BY EntryTailProperties DEF Size
<1>3. FeedEntry(seq) \in LogCells
  BY DEF LogCells, FeedEntries
<1>4. head \in Seq(LogCells) /\ Size(head) = 1 /\ head[1] = FeedEntry(seq)
  BY <1>3 DEF Size
<1> HIDE DEF n, tail, head
<1>5. /\ head \o tail \in Seq(LogCells)
      /\ Size(head \o tail) = Size(head) + Size(tail)
      /\ \A i \in 1..Size(head) + Size(tail) :
           (head \o tail)[i] = IF i <= Size(head) THEN head[i] ELSE tail[i - Size(head)]
  BY <1>2, <1>4, ConcatFile
<1>6. Size(head \o tail) = n + 2
  BY <1>1, <1>2, <1>4, <1>5
<1>7. (head \o tail)[1] = FeedEntry(seq)
  <2>1. 1 \in 1..Size(head) + Size(tail) /\ 1 <= Size(head)
    BY <1>1, <1>2, <1>4
  <2> QED BY <2>1, <1>4, <1>5
<1>8. (head \o tail)[n + 2] = BackPtr(Offset[seq])
  <2>1. n + 2 \in 1..Size(head) + Size(tail) /\ ~(n + 2 <= Size(head))
        /\ n + 2 - Size(head) = n + 1
    BY <1>1, <1>2, <1>4
  <2>2. ASSUME NEW i, i = n + 2 PROVE (head \o tail)[i] = tail[n + 1]
    <3>1. i \in 1..Size(head) + Size(tail) /\ ~(i <= Size(head)) /\ i - Size(head) = n + 1
      BY <1>1, <1>2, <1>4, <2>2
    <3> QED BY <3>1, <1>5
  <2> QED BY <2>2, <1>2
<1> QED BY <1>5, <1>6, <1>7, <1>8 DEF n, tail, head

(* The first cells of a sequence of cells. *)
LEMMA FirstCells ==
  ASSUME NEW S, NEW cells \in Seq(S), NEW n \in 0..Len(cells)
  PROVE  /\ SubSeq(cells, 1, n) \in Seq(S)
         /\ Size(SubSeq(cells, 1, n)) = n
         /\ \A i \in 1..n : SubSeq(cells, 1, n)[i] = cells[i]
<1>1. Len(cells) \in Nat
  BY LenProperties
<1>2. 1 \in Nat /\ n \in 0..Len(cells) /\ 1 \in 1..Len(cells)+1
  BY <1>1
<1>3. /\ SubSeq(cells, 1, n) \in Seq(S)
      /\ Len(SubSeq(cells, 1, n)) = IF 1 <= n THEN n-1+1 ELSE 0
      /\ \A i \in 1..n-1+1 : SubSeq(cells, 1, n)[i] = cells[1+i-1]
  BY <1>1, <1>2, SubSeqProperties
<1>4. n \in Nat /\ (IF 1 <= n THEN n-1+1 ELSE 0) = n /\ 1..n-1+1 = 1..n
  BY <1>1, <1>2
<1>5. \A i \in 1..n : 1+i-1 = i
  BY <1>4
<1> QED BY <1>3, <1>4, <1>5 DEF Size

(* Nobody but the author can make the next entry of the feed. *)
LEMMA OnlyTheNextEntry ==
  ASSUME FollowerAssumption, FrontierOK(mem),
         NEW pkt \in Wire, MayIngestEntry(pkt)
  PROVE  mem.max_seq < MaxSeq /\ pkt = FeedEntry(mem.max_seq + 1)
<1>1. pkt \in FeedEntries \cup FeedChunks \cup Noise
  BY DEF Wire, FollowerAssumption
<1>2. pkt \notin FeedChunks
  BY DEF FeedChunks, ChunkPkt, MayIngestEntry
<1>3. pkt \notin Noise
  BY DEF Noise, EntryPkt, ChunkPkt, MayIngestEntry
<1>4. PICK seq \in 1..MaxSeq : pkt = FeedEntry(seq)
  BY <1>1, <1>2, <1>3 DEF FeedEntries
<1>5. pkt.seq = seq
  BY <1>4 DEF FeedEntry, EntryPkt
<1>6. seq = mem.max_seq + 1 /\ mem.max_seq \in 0..MaxSeq
  BY <1>5 DEF MayIngestEntry, DmxFits, FrontierOK
<1> QED BY <1>4, <1>6, OffsetTypes

(* The next chunk of an open chain is known by its hash. *)
LEMMA OnlyTheNextChunk ==
  ASSUME FrontierOK(mem), NEW pkt, NEW seq, MayIngestChunk(pkt, seq)
  PROVE  /\ seq \in DOMAIN mem.pend
         /\ pkt = ChunkPkt(Feed[seq], mem.pend[seq].cnr)
         /\ pkt \in LogCells /\ Torn(pkt) \in LogCells
<1>1. seq \in DOMAIN mem.pend /\ seq \in 1..mem.max_seq /\ mem.max_seq \in 0..MaxSeq
      /\ mem.pend[seq].hptr = pkt
      /\ mem.pend[seq] = ChainAt(seq, mem.pend[seq].cnr)
      /\ mem.pend[seq].cnr \in 0..Chunks[Feed[seq]]-1
  BY DEF MayIngestChunk, FrontierOK
<1>2. pkt = ChunkPkt(Feed[seq], mem.pend[seq].cnr)
  <2>1. ChainAt(seq, mem.pend[seq].cnr).hptr = ChunkPkt(Feed[seq], mem.pend[seq].cnr)
    BY DEF ChainAt
  <2> QED BY <1>1, <2>1
<1>3. seq \in 1..MaxSeq
  BY <1>1, OffsetTypes
<1>4. pkt \in FeedChunks
  BY <1>1, <1>2, <1>3 DEF FeedChunks
<1> QED BY <1>1, <1>2, <1>4 DEF LogCells

-----------------------------------------------------------------------------
(* A replica starts with empty files, which satisfies the invariant. *)
LEMMA InitIInv == Init => IInv
<1> SUFFICES ASSUME Init PROVE IInv
  OBVIOUS
<1>1. fnt = NewFrontier /\ mem = NewFrontier /\ log = <<>> /\ files = {} /\ pc = "down"
  BY DEF Init
<1>2. fnt.max_seq = 0 /\ fnt.max_pos = 0 /\ fnt.prev = Genesis /\ DOMAIN fnt.pend = {}
  BY <1>1 DEF NewFrontier
<1>3. FrontierOK(fnt)
  <2>1. 0 \in 0..MaxSeq /\ 0 + 1 = 1 /\ Offset[1] = 0
    BY OffsetTypes, OffsetAssumption
  <2>2. FeedPrev(1) = Genesis
    BY DEF FeedPrev
  <2> QED BY <1>2, <2>1, <2>2 DEF FrontierOK
<1>4. <<>> \in Seq(LogCells) /\ Len(<<>>) = 0
  BY EmptySeq
<1>5. LogHolds(log, fnt) /\ TailOK(log, fnt)
  BY <1>1, <1>2, <1>4 DEF LogHolds, TailOK
<1>6. DiskOK
  BY <1>1, <1>3, <1>4, <1>5 DEF DiskOK, IsDisk
<1> QED BY <1>1, <1>6 DEF IInv, MemoryOK, FilesOK

(* The disk is well as long as no step touches it. *)
LEMMA DiskUntouched ==
  ASSUME DiskOK, UNCHANGED <<log, fnt>>
  PROVE  DiskOK'
BY DEF DiskOK

(* Every step of a replica that follows a feed preserves the invariant. *)
LEMMA NextIInv ==
  ASSUME FollowerAssumption, IInv, [Next]_vars
  PROVE  IInv'
<1>1. /\ DiskOK /\ MemoryOK /\ FilesOK
      /\ IsDisk(log, fnt) /\ FrontierOK(fnt) /\ LogHolds(log, fnt) /\ log \in Seq(LogCells)
  BY DEF IInv, DiskOK, IsDisk
<1>2. ~IsAuthor /\ "tornentry" \notin CrashPoints
  BY DEF FollowerAssumption
<1>3. CASE UNCHANGED vars
  BY <1>1, <1>3, DiskUntouched DEF vars, IInv, MemoryOK, FilesOK
<1>4. CASE CreateLog
  BY <1>1, <1>4, DiskUntouched DEF CreateLog, IInv, MemoryOK, FilesOK
<1>5. CASE CreateFrontier
  <2>1. fnt = NewFrontier
    BY <1>1, <1>5 DEF CreateFrontier, FilesOK
  <2> QED BY <2>1, <1>1, <1>5, DiskUntouched DEF CreateFrontier, IInv, MemoryOK, FilesOK
<1>6. CASE LoadFrontier
  BY <1>1, <1>6, DiskUntouched DEF LoadFrontier, IInv, MemoryOK, FilesOK
<1>7. CASE RecoverDone
  <2>1. Len(log) = fnt.max_pos
    <3>1. Len(log) \in Nat /\ fnt.max_pos \in Nat
      BY <1>1, LenProperties, OffsetTypes DEF FrontierOK
    <3>2. fnt.max_pos <= Len(log) /\ ~(Len(log) > fnt.max_pos)
      BY <1>1, <1>7 DEF RecoverDone, LogIsAhead, MemoryOK, LogHolds
    <3> QED BY <3>1, <3>2
  <2> QED BY <2>1, <1>1, <1>7, DiskUntouched DEF RecoverDone, IInv, MemoryOK, FilesOK
<1>8. CASE Crash
  BY <1>1, <1>8, DiskUntouched DEF Crash, Die, IInv, MemoryOK, FilesOK
<1>9. CASE PersistRecovered \/ PersistAndReturn
  <2>1. /\ fnt' = mem /\ mem' = mem /\ log' = log /\ files' = files
        /\ pc \in {"persist", "persist_recovered"} /\ pc' \in {"recover", "idle"}
    BY <1>9 DEF PersistRecovered, PersistAndReturn
  <2>2. FrontierOK(mem) /\ LogHolds(log, mem) /\ Len(log) = mem.max_pos
    BY <1>1, <2>1 DEF MemoryOK
  <2>3. TailOK(log, mem)
    BY <2>2, OffsetTypes DEF TailOK, FrontierOK
  <2>4. DiskOK'
    BY <1>1, <2>1, <2>2, <2>3 DEF DiskOK, IsDisk
  <2> QED BY <1>1, <2>1, <2>2, <2>4 DEF IInv, MemoryOK, FilesOK
<1>10. CASE RecoverTruncate
  <2>1. pc = "recover" /\ mem = fnt /\ mem' = mem /\ fnt' = fnt /\ pc' = "idle" /\ files' = files
        /\ log' = SubSeq(log, 1, fnt.max_pos)
    BY <1>1, <1>10 DEF RecoverTruncate, MemoryOK
  <2>2. fnt.max_pos \in 0..Len(log) /\ fnt.max_pos \in Nat
    BY <1>1, LenProperties, OffsetTypes DEF FrontierOK, LogHolds
  <2>3. /\ log' \in Seq(LogCells) /\ Size(log') = fnt.max_pos
        /\ \A i \in 1..fnt.max_pos : log'[i] = log[i]
    BY <1>1, <2>1, <2>2, FirstCells
  <2>4. LogHolds(log', fnt)
    <3>1. Covers(log', fnt.max_pos)
      BY <2>2, <2>3 DEF Covers, Size
    <3>2. Same(log, log', fnt.max_pos)
      BY <2>3 DEF Same
    <3> QED BY <3>1, <3>2, <1>1, LogHoldsPrefix
  <2>5. TailOK(log', fnt)
    BY <2>2, <2>3 DEF TailOK, Size
  <2>6. DiskOK'
    BY <2>1, <2>3, <2>4, <2>5, <1>1 DEF DiskOK, IsDisk
  <2>7. Len(log') = fnt.max_pos
    BY <2>3 DEF Size
  <2> QED BY <1>1, <2>1, <2>6, <2>7 DEF IInv, MemoryOK, FilesOK
<1>11. CASE RecoverEntry
  <2> DEFINE seq == fnt.max_seq + 1
             tail == EntryTail(Feed[seq], Offset[seq])
  <2>1. pc = "recover" /\ mem = fnt /\ Len(log) > fnt.max_pos /\ fnt' = fnt /\ files' = files
        /\ pc' = "persist_recovered"
    BY <1>1, <1>11 DEF RecoverEntry, LogIsAhead, MemoryOK
  <2>2. seq \in 1..MaxSeq /\ fnt.max_seq < MaxSeq /\ fnt.max_pos = Offset[seq]
        /\ fnt.max_seq + 2 = seq + 1
    BY <1>1, <2>1, OffsetTypes DEF IsDisk, TailOK, FrontierOK
  <2>3. NextCell = FeedEntry(seq) /\ NextCell.kind = "entry" /\ NextCell.body = Feed[seq]
    BY <1>1, <2>1 DEF IsDisk, TailOK, NextCell, FeedEntry, EntryPkt
  <2>4. /\ log' = Overwrite(log, fnt.max_pos + 1, tail)
        /\ mem' = Frontier(seq, fnt.max_pos + 1 + Len(tail), Digest(seq, Feed[seq]),
                           OpenChain(fnt.pend, seq, Feed[seq], fnt.max_pos))
    BY <1>11, <2>1, <2>2, <2>3 DEF RecoverEntry
  <2>5. tail \in Seq(LogCells) /\ Size(tail) = Chunks[Feed[seq]] + 1
        /\ tail[Chunks[Feed[seq]] + 1] = BackPtr(Offset[seq])
    BY <2>2, EntryTailProperties DEF Size
  <2> HIDE DEF tail
  <2>6. Size(log) > fnt.max_pos /\ Size(tail) <= Chunks[Feed[seq]] + 1
    BY <2>1, <2>2, <2>5, OffsetTypes DEF Size
  <2>7. /\ IsDisk(log', fnt)
        /\ log'[fnt.max_pos + 1] = FeedEntry(seq)
        /\ Size(log') = Offset[seq + 1]
        /\ log'[Offset[seq + 1]] = BackPtr(fnt.max_pos)
    BY <1>1, <2>2, <2>4, <2>5, <2>6, ClearSlots
  <2>8. mem' = Frontier(seq, Offset[seq + 1], Digest(seq, Feed[seq]),
                        OpenChain(fnt.pend, seq, Feed[seq], fnt.max_pos))
    <3> DEFINE k == Chunks[Feed[seq]]
               o == Offset[seq]
    <3>1. k \in Nat /\ o \in Nat /\ Offset[seq + 1] = o + k + 2
      BY <2>2, OffsetTypes
    <3>2. fnt.max_pos = o /\ Size(tail) = k + 1
      BY <2>2, <2>5
    <3> HIDE DEF k, o
    <3>3. fnt.max_pos + 1 + Size(tail) = Offset[seq + 1]
      BY <3>1, <3>2
    <3> QED BY <2>4, <3>3 DEF Size
  <2>9. FrontierOK(mem') /\ LogHolds(log', mem') /\ OneMoreEntry(fnt, mem')
    <3>1. LogHolds(log', fnt)
      BY <2>7 DEF IsDisk
    <3>2. Covers(log', Offset[seq + 1])
      BY <2>2, <2>7, OffsetTypes DEF Covers, Size
    <3> QED BY <1>1, <2>2, <2>7, <2>8, <3>1, <3>2, NextEntry
  <2>10. Len(log') = mem'.max_pos
    BY <2>7, <2>8 DEF Size, Frontier
  <2>11. DiskOK'
    BY <2>1, <2>7 DEF DiskOK
  <2> QED BY <1>1, <2>1, <2>9, <2>10, <2>11 DEF IInv, MemoryOK, FilesOK
<1>12. ASSUME NEW pkt \in Wire, IngestEntry(pkt) PROVE IInv'
  <2> DEFINE seq == fnt.max_seq + 1
             cells == <<FeedEntry(seq)>> \o EntryTail(Feed[seq], Offset[seq])
  <2>1. pc = "idle" /\ mem = fnt /\ Size(log) = fnt.max_pos /\ fnt' = fnt /\ files' = files
        /\ pc' = "persist"
    BY <1>1, <1>12 DEF IngestEntry, MayIngestEntry, MemoryOK, Size
  <2>2. fnt.max_seq < MaxSeq /\ pkt = FeedEntry(seq)
    BY <1>1, <1>12, <2>1, OnlyTheNextEntry DEF FollowerAssumption, IngestEntry
  <2>3. seq \in 1..MaxSeq /\ fnt.max_pos = Offset[seq] /\ fnt.max_seq + 2 = seq + 1
    BY <1>1, <2>2, OffsetTypes DEF FrontierOK
  <2>4. pkt.body = Feed[seq] /\ pkt.seq = seq /\ EntryCells(pkt) = cells
    BY <2>1, <2>2, <2>3 DEF FeedEntry, EntryPkt, EntryCells
  <2>5. /\ log' = log \o cells
        /\ mem' = Frontier(seq, fnt.max_pos + Len(cells), Digest(seq, Feed[seq]),
                           OpenChain(fnt.pend, seq, Feed[seq], fnt.max_pos))
    BY <1>12, <2>1, <2>4 DEF IngestEntry
  <2>6. /\ cells \in Seq(LogCells) /\ Size(cells) = Chunks[Feed[seq]] + 2
        /\ cells[1] = FeedEntry(seq) /\ cells[Chunks[Feed[seq]] + 2] = BackPtr(Offset[seq])
    BY <2>3, EntryCellsProperties
  <2> HIDE DEF cells
  <2>7. /\ IsDisk(log', fnt)
        /\ Size(log') = fnt.max_pos + Size(cells)
        /\ \A i \in 1..Size(cells) : log'[fnt.max_pos + i] = cells[i]
    <3>1. Size(cells) <= Chunks[Feed[seq]] + 2
      BY <2>3, <2>6, OffsetTypes
    <3>2. /\ IsDisk(log \o cells, fnt)
          /\ Size(log \o cells) = fnt.max_pos + Size(cells)
          /\ \A i \in 1..Size(cells) : (log \o cells)[fnt.max_pos + i] = cells[i]
      <4>1. IsDisk(log, fnt) /\ Size(log) = fnt.max_pos /\ fnt.max_seq < MaxSeq
        BY <1>1, <2>1, <2>2
      <4>2. cells[1] = FeedEntry(fnt.max_seq + 1) /\ cells \in Seq(LogCells)
        BY <2>6
      <4> QED BY <4>1, <4>2, <3>1, AppendPart
    <3> QED BY <2>5, <3>2
  <2>8. /\ Size(log') = Offset[seq + 1]
        /\ log'[fnt.max_pos + 1] = FeedEntry(seq)
        /\ log'[Offset[seq + 1]] = BackPtr(fnt.max_pos)
    <3> DEFINE k == Chunks[Feed[seq]]
               o == Offset[seq]
    <3>1. k \in Nat /\ o \in Nat /\ Offset[seq + 1] = o + k + 2
      BY <2>3, OffsetTypes
    <3>2. fnt.max_pos = o /\ Size(cells) = k + 2 /\ cells[k + 2] = BackPtr(fnt.max_pos)
      BY <2>3, <2>6
    <3> HIDE DEF k, o
    <3>3. /\ Offset[seq + 1] = fnt.max_pos + Size(cells)
          /\ Offset[seq + 1] = fnt.max_pos + (k + 2)
      BY <3>1, <3>2
    <3>4. 1 \in 1..Size(cells) /\ k + 2 \in 1..Size(cells)
      BY <3>1, <3>2
    <3> QED BY <2>6, <2>7, <3>2, <3>3, <3>4
  <2>9. mem' = Frontier(seq, Offset[seq + 1], Digest(seq, Feed[seq]),
                        OpenChain(fnt.pend, seq, Feed[seq], fnt.max_pos))
    BY <2>5, <2>7, <2>8 DEF Size
  <2>10. FrontierOK(mem') /\ LogHolds(log', mem') /\ OneMoreEntry(fnt, mem')
    <3>1. LogHolds(log', fnt)
      BY <2>7 DEF IsDisk
    <3>2. Covers(log', Offset[seq + 1])
      BY <2>3, <2>8, OffsetTypes DEF Covers, Size
    <3> QED BY <1>1, <2>2, <2>3, <2>8, <2>9, <3>1, <3>2, NextEntry
  <2>11. Len(log') = mem'.max_pos
    BY <2>8, <2>9 DEF Size, Frontier
  <2>12. DiskOK'
    BY <2>1, <2>7 DEF DiskOK
  <2> QED BY <1>1, <2>1, <2>10, <2>11, <2>12 DEF IInv, MemoryOK, FilesOK
<1>13. ASSUME NEW pkt \in Wire, NEW seq \in 1..MaxSeq, IngestChunk(pkt, seq) PROVE IInv'
  <2>1. pc = "idle" /\ mem = fnt /\ Size(log) = fnt.max_pos /\ fnt' = fnt /\ files' = files
        /\ pc' = "persist"
    BY <1>1, <1>13 DEF IngestChunk, MayIngestChunk, MemoryOK, Size
  <2>2. /\ seq \in DOMAIN fnt.pend /\ pkt = ChunkPkt(Feed[seq], fnt.pend[seq].cnr)
        /\ pkt \in LogCells
    BY <1>1, <1>13, <2>1, OnlyTheNextChunk DEF IngestChunk
  <2>3. /\ log' = Overwrite(log, fnt.pend[seq].pos, <<pkt>>)
        /\ mem' = Frontier(fnt.max_seq, fnt.max_pos, fnt.prev,
                     IF fnt.pend[seq].rem <= 1 THEN CloseChain(fnt.pend, seq)
                     ELSE [fnt.pend EXCEPT ![seq] = NextChunk(fnt.pend[seq], pkt)])
    BY <1>13, <2>1 DEF IngestChunk
  <2>4. /\ IsDisk(log', fnt) /\ Size(log') = fnt.max_pos
        /\ log'[fnt.pend[seq].pos + 1] = pkt
    BY <1>1, <2>1, <2>2, <2>3, WriteSlot
  <2>5. FrontierOK(mem') /\ LogHolds(log', mem') /\ OneMoreChunk(fnt, mem')
    <3>1. LogHolds(log', fnt)
      BY <2>4 DEF IsDisk
    <3> QED BY <1>1, <2>2, <2>3, <2>4, <3>1, NextChunkOfChain
  <2>6. Len(log') = mem'.max_pos
    BY <2>3, <2>4 DEF Size, Frontier
  <2>7. DiskOK'
    BY <2>1, <2>4 DEF DiskOK
  <2> QED BY <1>1, <2>1, <2>5, <2>6, <2>7 DEF IInv, MemoryOK, FilesOK
<1>14. ASSUME Die, pc \in {"idle", "recover"}, IsDisk(log', fnt) PROVE IInv'
  <2>1. DiskOK'
    BY <1>14 DEF DiskOK, Die
  <2> QED BY <1>1, <1>14, <2>1 DEF Die, IInv, MemoryOK, FilesOK
<1>15. CASE CrashInAppend
  <2>1. PICK pkt \in Wire : /\ MayIngestEntry(pkt)
                            /\ \E n \in 0..Len(EntryCells(pkt))-1 :
                                 log' = log \o SubSeq(EntryCells(pkt), 1, n)
    BY <1>2, <1>15 DEF CrashInAppend, MayWrite
  <2>2. PICK n \in 0..Len(EntryCells(pkt))-1 : log' = log \o SubSeq(EntryCells(pkt), 1, n)
    BY <2>1
  <2> DEFINE seq == fnt.max_seq + 1
             cells == <<FeedEntry(seq)>> \o EntryTail(Feed[seq], Offset[seq])
             part == SubSeq(cells, 1, n)
  <2>3. pc = "idle" /\ mem = fnt /\ Size(log) = fnt.max_pos
    BY <1>1, <2>1 DEF MayIngestEntry, MemoryOK, Size
  <2>4. fnt.max_seq < MaxSeq /\ pkt = FeedEntry(seq)
    BY <1>1, <2>1, <2>3, OnlyTheNextEntry DEF FollowerAssumption
  <2>5. seq \in 1..MaxSeq /\ fnt.max_pos = Offset[seq]
    BY <1>1, <2>4, OffsetTypes DEF FrontierOK
  <2>6. EntryCells(pkt) = cells
    BY <2>3, <2>4, <2>5 DEF FeedEntry, EntryPkt, EntryCells
  <2>7. /\ cells \in Seq(LogCells) /\ Size(cells) = Chunks[Feed[seq]] + 2
        /\ cells[1] = FeedEntry(seq)
    BY <2>5, EntryCellsProperties
  <2>8. n \in 0..Len(cells)-1 /\ log' = log \o part
    BY <2>2, <2>6
  <2> HIDE DEF cells
  <2>9. n \in 0..Len(cells) /\ n \in Nat /\ n <= Chunks[Feed[seq]] + 2
    BY <2>5, <2>7, <2>8, OffsetTypes DEF Size
  <2>10. /\ part \in Seq(LogCells) /\ Size(part) = n
         /\ \A i \in 1..n : part[i] = cells[i]
    BY <2>7, <2>9, FirstCells
  <2> HIDE DEF part
  <2>11. IsDisk(log', fnt)
    <3>1. Size(part) > 0 => part[1] = FeedEntry(seq)
      BY <2>7, <2>9, <2>10
    <3>2. Size(part) <= Chunks[Feed[seq]] + 2
      BY <2>9, <2>10
    <3> QED BY <1>1, <2>3, <2>4, <2>8, <2>10, <3>1, <3>2, AppendPart
  <2> QED BY <1>14, <1>15, <2>3, <2>11 DEF CrashInAppend
<1>16. CASE CrashInEntry
  BY <1>2, <1>16 DEF CrashInEntry
<1>17. CASE CrashInChunk
  <2>1. PICK pkt \in Wire, seq \in DOMAIN mem.pend :
          MayIngestChunk(pkt, seq) /\ log' = Overwrite(log, mem.pend[seq].pos, <<Torn(pkt)>>)
    BY <1>17 DEF CrashInChunk
  <2>2. pc = "idle" /\ mem = fnt /\ Size(log) = fnt.max_pos
    BY <1>1, <2>1 DEF MayIngestChunk, MemoryOK, Size
  <2>3. seq \in DOMAIN fnt.pend /\ Torn(pkt) \in LogCells
    BY <1>1, <2>1, <2>2, OnlyTheNextChunk
  <2>4. IsDisk(log', fnt)
    BY <1>1, <2>1, <2>2, <2>3, WriteSlot
  <2> QED BY <1>14, <1>17, <2>2, <2>4 DEF CrashInChunk
<1>18. CASE CrashInRecovery
  <2> DEFINE seq == fnt.max_seq + 1
             tail == EntryTail(Feed[seq], Offset[seq])
  <2>1. pc = "recover" /\ mem = fnt /\ Len(log) > fnt.max_pos
    BY <1>1, <1>18 DEF CrashInRecovery, LogIsAhead, MemoryOK
  <2>2. seq \in 1..MaxSeq /\ fnt.max_pos = Offset[seq]
    BY <1>1, <2>1, OffsetTypes DEF IsDisk, TailOK, FrontierOK
  <2>3. NextCell.body = Feed[seq]
    BY <1>1, <2>1 DEF IsDisk, TailOK, NextCell, FeedEntry, EntryPkt
  <2>4. PICK n \in 0..Len(tail)-1 :
          log' = Overwrite(log, fnt.max_pos + 1, SubSeq(tail, 1, n))
    BY <1>18, <2>1, <2>2, <2>3 DEF CrashInRecovery
  <2>5. tail \in Seq(LogCells) /\ Size(tail) = Chunks[Feed[seq]] + 1
    BY <2>2, EntryTailProperties DEF Size
  <2> HIDE DEF tail
  <2>6. n \in 0..Len(tail) /\ n <= Chunks[Feed[seq]] + 1
    BY <2>2, <2>4, <2>5, OffsetTypes DEF Size
  <2>7. SubSeq(tail, 1, n) \in Seq(LogCells) /\ Size(SubSeq(tail, 1, n)) <= Chunks[Feed[seq]] + 1
    BY <2>5, <2>6, FirstCells
  <2>8. Size(log) > fnt.max_pos
    BY <2>1 DEF Size
  <2>9. IsDisk(log', fnt)
    BY <1>1, <2>4, <2>7, <2>8, ClearSlots
  <2> QED BY <1>14, <1>18, <2>1, <2>9 DEF CrashInRecovery
<1>19. ~Publish
  BY <1>2 DEF Publish, Write, MayWrite
<1> QED BY <1>3, <1>4, <1>5, <1>6, <1>7, <1>8, <1>9, <1>10, <1>11, <1>12, <1>13, <1>15,
           <1>16, <1>17, <1>18, <1>19
        DEF Next, Start, Recover, Ingest, Crashing

(* The inductive invariant holds of every behaviour of a follower. *)
THEOREM IInvHolds == ASSUME FollowerAssumption PROVE Spec => []IInv
<1>1. IInv /\ [Next]_vars => IInv'
  BY NextIInv
<1> QED BY <1>1, InitIInv, PTL DEF Spec

-----------------------------------------------------------------------------
(* So do the bounds, of any replica. *)
LEMMA BoundsHold == Spec => []BoundsOK
<1>1. Init => BoundsOK
  BY ReplicaAssumption DEF Init, BoundsOK
<1>2. BoundsOK /\ [Next]_vars => BoundsOK'
  <2> SUFFICES ASSUME BoundsOK, [Next]_vars PROVE BoundsOK'
    OBVIOUS
  <2>1. CASE Start
    BY <2>1 DEF Start, CreateLog, CreateFrontier, LoadFrontier, BoundsOK
  <2>2. CASE Recover
    BY <2>2 DEF Recover, RecoverDone, RecoverTruncate, RecoverEntry, PersistRecovered, BoundsOK
  <2>3. CASE Ingest
    BY <2>3 DEF Ingest, IngestEntry, IngestChunk, BoundsOK
  <2>4. CASE Publish
    BY <2>4 DEF Publish, Write, BoundsOK
  <2>5. CASE PersistAndReturn
    BY <2>5 DEF PersistAndReturn, BoundsOK
  <2>6. CASE Crashing
    <3>1. Die
      BY <2>6 DEF Crashing, Crash, CrashInAppend, CrashInEntry, CrashInChunk, CrashInRecovery
    <3>2. crashes' \in 0..MaxCrashes
      BY <3>1, ReplicaAssumption DEF Die, BoundsOK
    <3> QED BY <3>1, <3>2 DEF Die, BoundsOK
  <2>7. CASE UNCHANGED vars
    BY <2>7 DEF vars, BoundsOK
  <2> QED BY <2>1, <2>2, <2>3, <2>4, <2>5, <2>6, <2>7 DEF Next
<1> QED BY <1>1, <1>2, PTL DEF Spec

(* Whatever has happened, the variables of a follower have the values they *)
(* should.                                                                 *)
LEMMA FollowerTypeOK ==
  ASSUME FollowerAssumption PROVE Spec => []TypeOK
<1>1. ASSUME NEW f, FrontierOK(f)
      PROVE  f.max_seq \in 0..MaxSeq /\ f.max_pos \in Nat /\ DOMAIN f.pend \subseteq 1..f.max_seq
  <2>1. f.max_seq \in 0..MaxSeq /\ f.max_pos = Offset[f.max_seq + 1] /\ DOMAIN f.pend \subseteq 1..f.max_seq
    BY <1>1 DEF FrontierOK
  <2> QED BY <2>1, OffsetTypes
<1>2. \A cell \in LogCells : cell.kind \in CellKinds
  BY DEF LogCells, FeedEntries, FeedChunks, FeedEntry, EntryPkt, ChunkPkt, Zero, Torn,
         BackPtr, CellKinds
<1>3. IInv /\ BoundsOK => TypeOK
  <2> SUFFICES ASSUME IInv, BoundsOK PROVE TypeOK
    OBVIOUS
  <2>1. FrontierOK(fnt) /\ log \in Seq(LogCells)
    BY DEF IInv, DiskOK, IsDisk
  <2>2. FrontierOK(mem) \/ mem = NewFrontier
    BY <2>1 DEF IInv, MemoryOK, BoundsOK
  <2>3. NewFrontier.max_seq = 0 /\ NewFrontier.max_pos = 0 /\ DOMAIN NewFrontier.pend = {}
    BY DEF NewFrontier
  <2>4. \A f \in {fnt, mem} : /\ f.max_seq \in 0..MaxSeq
                              /\ f.max_pos \in Nat
                              /\ DOMAIN f.pend \subseteq 1..f.max_seq
    BY <1>1, <2>1, <2>2, <2>3, OffsetTypes
  <2>5. \A i \in 1..Len(log) : log[i].kind \in CellKinds
    <3>1. \A i \in 1..Len(log) : log[i] \in LogCells
      BY <2>1, ElementOfSeq
    <3> QED BY <3>1, <1>2
  <2> QED BY <2>4, <2>5 DEF TypeOK, BoundsOK, IInv, MemoryOK
<1> QED BY <1>3, IInvHolds, BoundsHold, PTL

-----------------------------------------------------------------------------
(***************************************************************************)
(* The files are never shorter than the frontier says, the layout of the   *)
(* log is right at every moment, and the assertion of write and write48    *)
(* holds, for a feed of any length and however often the process dies.     *)
(***************************************************************************)
LEMMA FollowerFrontierBehindLog ==
  ASSUME FollowerAssumption PROVE Spec => []FrontierBehindLog
<1>1. IInv => FrontierBehindLog
  BY DEF IInv, DiskOK, IsDisk, LogHolds, FrontierBehindLog
<1> QED BY <1>1, IInvHolds, PTL

(* Between two calls the log ends at max_pos, as write and write48 assert. *)
LEMMA FollowerLogEndsAtFrontier ==
  ASSUME FollowerAssumption PROVE Spec => []LogEndsAtFrontier
<1>1. IInv => LogEndsAtFrontier
  BY DEF IInv, MemoryOK, LogEndsAtFrontier
<1> QED BY <1>1, IInvHolds, PTL

(* Entries, back pointers and chunks lie where the sizes put them. *)
THEOREM LogLayoutHolds ==
  ASSUME FollowerAssumption PROVE Spec => []LogLayout
<1>1. IInv => LogLayout
  <2> SUFFICES ASSUME IInv PROVE LogLayout
    OBVIOUS
  <2>1. LogHolds(log, fnt)
    BY DEF IInv, DiskOK, IsDisk
  <2>2. pc = "idle" => mem = fnt
    BY DEF IInv, MemoryOK
  <2>3. pc = "persist" => LogHolds(log, mem)
    BY DEF IInv, MemoryOK
  <2> QED BY <2>1, <2>2, <2>3 DEF LogLayout
<1> QED BY <1>1, IInvHolds, PTL

-----------------------------------------------------------------------------
(***************************************************************************)
(* The state on disk implements the abstract store: each step adds the     *)
(* next entry, or the next chunk of a stored entry, or changes nothing.    *)
(***************************************************************************)
LEMMA StoreInit == Init => Store!Init
<1> SUFFICES ASSUME Init PROVE Store!Init
  OBVIOUS
<1>1. fnt.max_seq = 0
  BY DEF Init, NewFrontier
<1>2. \A seq \in 1..MaxSeq : seq > 0
  BY OffsetTypes
<1> QED BY <1>1, <1>2 DEF DurableGot, Store!Init

(* Each step changes the store by one item at most. *)
LEMMA StoreStep ==
  ASSUME FrontierOK(fnt), FrontierOK(fnt'),
         OneMoreEntry(fnt, fnt') \/ OneMoreChunk(fnt, fnt')
  PROVE  Store!Next
<1>1. /\ fnt.max_seq \in 0..MaxSeq /\ fnt'.max_seq \in 0..MaxSeq /\ MaxSeq \in Nat
  BY OffsetTypes DEF FrontierOK
<1>2. DurableGot = [seq \in 1..MaxSeq |-> IF seq > fnt.max_seq THEN 0 ELSE Got(fnt, seq)]
  BY DEF DurableGot, Got
<1>3. DurableGot' = [seq \in 1..MaxSeq |-> IF seq > fnt'.max_seq THEN 0 ELSE Got(fnt', seq)]
  BY DEF DurableGot, Got
<1>4. CASE OneMoreEntry(fnt, fnt')
  <2>1. /\ fnt'.max_seq = fnt.max_seq + 1 /\ Got(fnt', fnt.max_seq + 1) = 0
        /\ \A seq \in 1..fnt.max_seq : Got(fnt', seq) = Got(fnt, seq)
    BY <1>4 DEF OneMoreEntry
  <2>2. fnt.max_seq + 1 \in 1..MaxSeq
    BY <1>1, <2>1
  <2>3. ASSUME NEW seq \in 1..MaxSeq
        PROVE  (IF seq > fnt'.max_seq THEN 0 ELSE Got(fnt', seq)) =
               (IF seq > fnt.max_seq THEN 0 ELSE Got(fnt, seq))
    <3>1. CASE seq <= fnt.max_seq
      BY <3>1, <1>1, <2>1
    <3>2. CASE seq = fnt.max_seq + 1
      BY <3>2, <1>1, <2>1
    <3>3. CASE seq > fnt.max_seq + 1
      BY <3>3, <1>1, <2>1
    <3> QED BY <3>1, <3>2, <3>3, <1>1
  <2>4. DurableGot' = DurableGot
    BY <1>2, <1>3, <2>3
  <2> QED BY <2>1, <2>2, <2>4 DEF Store!Next, Store!AddEntry
<1>5. CASE OneMoreChunk(fnt, fnt')
  <2>1. fnt'.max_seq = fnt.max_seq
    BY <1>5 DEF OneMoreChunk
  <2>2. PICK seq \in 1..fnt.max_seq :
          /\ Got(fnt, seq) < Chunks[Feed[seq]]
          /\ \A t \in 1..fnt.max_seq :
               Got(fnt', t) = IF t = seq THEN Got(fnt, t) + 1 ELSE Got(fnt, t)
    BY <1>5 DEF OneMoreChunk
  <2>3. seq \in 1..MaxSeq /\ ~(seq > fnt.max_seq) /\ seq <= fnt.max_seq
    BY <1>1
  <2>4. DurableGot[seq] = Got(fnt, seq)
    BY <1>2, <2>3
  <2>5. ASSUME NEW t \in 1..MaxSeq
        PROVE  DurableGot'[t] = IF t = seq THEN DurableGot[t] + 1 ELSE DurableGot[t]
    <3>1. CASE t > fnt.max_seq
      BY <3>1, <1>2, <1>3, <2>1, <2>3
    <3>2. CASE ~(t > fnt.max_seq)
      <4>1. t \in 1..fnt.max_seq
        BY <3>2, <1>1
      <4> QED BY <3>2, <4>1, <1>2, <1>3, <2>1, <2>2
    <3> QED BY <3>1, <3>2
  <2>6. DurableGot' = [DurableGot EXCEPT ![seq] = DurableGot[seq] + 1]
    <3>1. DurableGot' = [t \in 1..MaxSeq |-> DurableGot'[t]]
      BY <1>3
    <3>2. DurableGot = [t \in 1..MaxSeq |-> DurableGot[t]]
      BY <1>2
    <3> QED BY <3>1, <3>2, <2>3, <2>5
  <2>7. Store!AddChunk(seq)
    BY <2>1, <2>2, <2>3, <2>4, <2>6 DEF Store!AddChunk
  <2> QED BY <2>3, <2>7 DEF Store!Next
<1> QED BY <1>4, <1>5

(* Every step of a follower is a step of the store, or none. *)
LEMMA StoreNext ==
  ASSUME IInv, IInv', [Next]_vars
  PROVE  [Store!Next]_(Store!storeVars)
<1>1. FrontierOK(fnt) /\ FrontierOK(fnt')
  BY DEF IInv, DiskOK, IsDisk
<1>2. CASE UNCHANGED fnt
  BY <1>2 DEF Store!storeVars, DurableGot
<1>3. CASE PersistRecovered \/ PersistAndReturn
  <2>1. fnt' = mem /\ pc \in {"persist", "persist_recovered"}
    BY <1>3 DEF PersistRecovered, PersistAndReturn
  <2>2. OneMoreEntry(fnt, fnt') \/ OneMoreChunk(fnt, fnt')
    BY <2>1 DEF IInv, MemoryOK
  <2> QED BY <1>1, <2>2, StoreStep
<1>4. CASE CreateFrontier
  <2>1. fnt = NewFrontier /\ fnt' = NewFrontier
    BY <1>4 DEF CreateFrontier, IInv, FilesOK
  <2> QED BY <2>1, <1>2
<1>5. UNCHANGED fnt \/ PersistRecovered \/ PersistAndReturn \/ CreateFrontier
  BY DEF Next, vars, Start, Recover, Ingest, Publish, Crashing,
         CreateLog, LoadFrontier, RecoverDone, RecoverTruncate, RecoverEntry,
         IngestEntry, IngestChunk, Write, Crash, CrashInAppend,
         CrashInEntry, CrashInChunk, CrashInRecovery, Die
<1> QED BY <1>2, <1>3, <1>4, <1>5

(* Of a follower nothing stored is ever lost: entries and chunks are added *)
(* one by one, wherever the process dies.                                  *)
THEOREM ImplementsStoreHolds ==
  ASSUME FollowerAssumption PROVE Spec => ImplementsStore
<1>1. IInv /\ IInv' /\ [Next]_vars => [Store!Next]_(Store!storeVars)
  BY StoreNext
<1> QED BY <1>1, IInvHolds, StoreInit, PTL DEF ImplementsStore, Store!Spec, Spec

-----------------------------------------------------------------------------
(***************************************************************************)
(* Reading: get_entry_pkt and get_chunk_pkt return what was stored, from a *)
(* replica that follows a feed and from the author's own.                  *)
(***************************************************************************)
(***************************************************************************)
(* The walk along the back pointers, from the end of the log, comes by     *)
(* the starts of all the entries.                                          *)
(***************************************************************************)
LEMMA HopWalk ==
  ASSUME Len(log) \in Nat, NEW m \in Nat, NEW at,
         \A seq \in 1..m+1 : at[seq] \in 0..Len(log),
         at[1] = 0, at[m+1] = Len(log),
         \A seq \in 1..m : at[seq+1] > 0 /\ log[at[seq+1]] = BackPtr(at[seq])
  PROVE  \A seq \in 1..m+1 : Hop[m+1-seq] = at[seq]
<1> DEFINE F(h) == [n \in Nat |-> IF n = 0 THEN Len(log) ELSE PtrAt(h[n-1])]
           g == [n \in Nat |-> IF n <= m THEN at[m+1-n] ELSE NoPos]
<1>0. ASSUME NEW seq \in 1..m PROVE PtrAt(at[seq+1]) = at[seq]
  <2>0. seq + 1 \in 1..m+1
    OBVIOUS
  <2>1. at[seq+1] \in 0..Len(log) /\ at[seq+1] > 0 /\ log[at[seq+1]] = BackPtr(at[seq])
    BY <2>0
  <2>2. BackPtr(at[seq]).kind = "ptr" /\ BackPtr(at[seq]).pos = at[seq]
    BY DEF BackPtr
  <2> QED BY <2>1, <2>2 DEF PtrAt
<1>1. g = F(g)
  <2>1. ASSUME NEW n \in Nat, n > 0 PROVE g[n] = PtrAt(g[n-1])
    <3>0. n - 1 \in Nat /\ g[n-1] = IF n - 1 <= m THEN at[m+1-(n-1)] ELSE NoPos
      BY <2>1
    <3>1. CASE n <= m
      <4>1. m+1-n \in 1..m /\ g[n] = at[m+1-n]
        BY <3>1, <2>1
      <4>2. g[n-1] = at[(m+1-n)+1]
        <5>1. m+1-(n-1) = (m+1-n)+1 /\ n - 1 <= m
          BY <3>1, <2>1
        <5> QED BY <3>0, <5>1
      <4> QED BY <4>1, <4>2, <1>0
    <3>2. CASE n = m + 1
      <4>1. g[n] = NoPos
        BY <3>2
      <4>2. m+1-(n-1) = 1 /\ n - 1 <= m
        BY <3>2
      <4>3. g[n-1] = 0
        BY <3>0, <4>2
      <4> QED BY <4>1, <4>3 DEF PtrAt
    <3>3. CASE n > m + 1
      <4>1. g[n] = NoPos /\ g[n-1] = NoPos
        BY <3>0, <3>3
      <4> QED BY <4>1 DEF PtrAt, NoPos
    <3> QED BY <3>1, <3>2, <3>3
  <2>2. g[0] = Len(log)
    OBVIOUS
  <2>3. g = [n \in Nat |-> g[n]]
    OBVIOUS
  <2> HIDE DEF g
  <2>4. \A n \in Nat : g[n] = IF n = 0 THEN Len(log) ELSE PtrAt(g[n-1])
    BY <2>1, <2>2
  <2> QED BY <2>3, <2>4
<1>2. Hop = F(Hop)
  <2>1. Hop = CHOOSE h : h = F(h)
    BY DEF Hop
  <2> HIDE DEF F, g
  <2> QED BY <1>1, <2>1
<1>3. Hop[0] = Len(log) /\ \A n \in Nat : n > 0 => Hop[n] = PtrAt(Hop[n-1])
  BY <1>2
<1> HIDE DEF F, g
<1>4. \A n \in 0..m : Hop[n] = at[m+1-n]
  <2> DEFINE T == {n \in 0..m : Hop[n] # at[m+1-n]}
  <2> SUFFICES ASSUME T # {} PROVE FALSE
    OBVIOUS
  <2>1. PICK n \in T : \A k \in T : n <= k
    <3>1. T \in SUBSET Nat
      OBVIOUS
    <3> HIDE DEF T
    <3> QED BY <3>1, LeastNat
  <2>2. n # 0
    BY <1>3
  <2>3. n - 1 \in 0..m /\ n - 1 \notin T
    BY <2>1, <2>2
  <2>4. Hop[n-1] = at[(m+1-n)+1] /\ m+1-n \in 1..m
    <3>1. m+1-(n-1) = (m+1-n)+1
      BY <2>3
    <3> QED BY <2>3, <3>1
  <2>5. Hop[n] = at[m+1-n]
    BY <1>0, <1>3, <2>2, <2>4
  <2> QED BY <2>5
<1>5. ASSUME NEW seq \in 1..m+1 PROVE Hop[m+1-seq] = at[seq]
  <2>1. m+1-seq \in 0..m /\ m+1-(m+1-seq) = seq
    OBVIOUS
  <2> QED BY <1>4, <2>1
<1> QED BY <1>5

(***************************************************************************)
(* So the readers find every entry that is laid out in the log, and every  *)
(* chunk that is counted, and no other.                                    *)
(***************************************************************************)
LEMMA ReadLaidOut ==
  ASSUME Len(log) = mem.max_pos, mem.max_seq \in Nat, mem.max_pos \in Nat,
         NEW at, LaidOut(log, mem, at),
         NEW seq \in 1..mem.max_seq, NEW pkt, pkt = log[at[seq]+1]
  PROVE  /\ GetEntry(seq) = pkt
         /\ \A cnr \in 0..Chunks[pkt.body] :
              GetChunk(seq, cnr) = IF cnr < Count(mem, seq, pkt.body)
                                     THEN ChunkPkt(pkt.body, cnr) ELSE None
<1> DEFINE m == mem.max_seq
           k == Chunks[pkt.body]
           n == Count(mem, seq, pkt.body)
<1>1. \A s \in 1..m : /\ at[s] \in 0..Len(log) /\ at[s+1] \in 0..Len(log)
                      /\ log[at[s]+1].body \in Body
                      /\ at[s+1] = at[s] + Chunks[log[at[s]+1].body] + 2
                      /\ log[at[s+1]] = BackPtr(at[s])
  <2>1. \A s \in 1..m+1 : at[s] \in 0..Len(log)
    BY DEF LaidOut
  <2>2. \A s \in 1..m : s \in 1..m+1 /\ s+1 \in 1..m+1
    OBVIOUS
  <2> QED BY <2>1, <2>2 DEF LaidOut
<1>2. \A s \in 1..m : at[s+1] > 0 /\ log[at[s+1]] = BackPtr(at[s])
  <2> TAKE s \in 1..m
  <2>1. /\ at[s] \in 0..Len(log) /\ at[s+1] \in 0..Len(log)
        /\ at[s+1] = at[s] + Chunks[log[at[s]+1].body] + 2
        /\ Chunks[log[at[s]+1].body] \in Nat
    BY <1>1, ReplicaAssumption
  <2>2. at[s+1] > 0
    <3> DEFINE a == at[s]
               z == at[s+1]
               c == Chunks[log[at[s]+1].body]
    <3>1. a \in Nat /\ c \in Nat /\ z = a + c + 2
      BY <2>1
    <3> HIDE DEF a, z, c
    <3>2. z > 0
      BY <3>1
    <3> QED BY <3>2 DEF z
  <2> QED BY <1>1, <2>2
<1>3. \A s \in 1..m+1 : Hop[m+1-s] = at[s]
  <2>1. m \in Nat /\ Len(log) \in Nat
    OBVIOUS
  <2>2. at[1] = 0 /\ at[m+1] = Len(log) /\ \A s \in 1..m+1 : at[s] \in 0..Len(log)
    BY DEF LaidOut
  <2> HIDE DEF m
  <2> QED BY <1>2, <2>1, <2>2, HopWalk
<1>4. /\ seq \in 1..m /\ m - seq + 1 = m+1-seq /\ m - seq = m+1-(seq+1)
      /\ seq \in 1..m+1 /\ seq+1 \in 1..m+1
  OBVIOUS
<1>5. Hop[m - seq + 1] = at[seq] /\ Hop[m - seq] = at[seq+1]
  BY <1>3, <1>4
<1>6. /\ at[seq] \in Nat /\ at[seq+1] \in 0..Len(log) /\ k \in Nat
      /\ at[seq+1] = at[seq] + k + 2
  BY <1>1, ReplicaAssumption
<1>7. n \in 0..k /\ \A cnr \in 0..n-1 : log[at[seq]+2+cnr] = ChunkPkt(pkt.body, cnr)
  BY DEF LaidOut
<1>8. GetEntry(seq) = pkt
  <2>1. at[seq] \in 0..Len(log)-1
    BY <1>6
  <2> QED BY <1>5, <2>1 DEF GetEntry, CellAt
<1>9. ASSUME NEW cnr \in 0..k
      PROVE  GetChunk(seq, cnr) = IF cnr < n THEN ChunkPkt(pkt.body, cnr) ELSE None
  <2>1. /\ at[seq] # NoPos /\ at[seq+1] # NoPos
    BY <1>6 DEF NoPos
  <2>2. GetChunk(seq, cnr) =
          IF seq \in DOMAIN mem.pend /\ cnr >= mem.pend[seq].cnr THEN None
          ELSE IF at[seq] + cnr + 1 > at[seq+1] - 2 THEN None
          ELSE CellAt(at[seq] + cnr + 1)
    BY <1>5, <2>1 DEF GetChunk
  <2>3. CASE cnr < n
    <3>1. ~(seq \in DOMAIN mem.pend /\ cnr >= mem.pend[seq].cnr)
      BY <2>3, <1>7 DEF Count
    <3>2. ~(at[seq] + cnr + 1 > at[seq+1] - 2) /\ at[seq] + cnr + 1 \in 0..Len(log)-1
          /\ at[seq] + cnr + 1 + 1 = at[seq]+2+cnr
      <4> DEFINE a == at[seq]
                 z == at[seq+1]
                 l == Len(log)
      <4>1. a \in Nat /\ l \in Nat /\ z \in 0..l /\ k \in Nat /\ z = a + k + 2 /\ n \in 0..k
            /\ cnr \in 0..k /\ cnr < n
        BY <2>3, <1>6, <1>7
      <4> HIDE DEF a, z, l, k, n
      <4>2. ~(a + cnr + 1 > z - 2) /\ a + cnr + 1 \in 0..l-1 /\ a + cnr + 1 + 1 = a+2+cnr
        BY <4>1
      <4> QED BY <4>2 DEF a, z, l
    <3>3. CellAt(at[seq] + cnr + 1) = ChunkPkt(pkt.body, cnr)
      BY <2>3, <3>2, <1>7 DEF CellAt
    <3> QED BY <2>2, <2>3, <3>1, <3>2, <3>3
  <2>4. CASE ~(cnr < n)
    <3>1. CASE seq \in DOMAIN mem.pend
      <4>1. cnr >= mem.pend[seq].cnr
        BY <2>4, <3>1, <1>7 DEF Count
      <4> QED BY <2>2, <2>4, <3>1, <4>1
    <3>2. CASE seq \notin DOMAIN mem.pend
      <4>1. cnr = k
        BY <2>4, <3>2, <1>7 DEF Count
      <4>2. at[seq] + cnr + 1 > at[seq+1] - 2
        BY <4>1, <1>6
      <4> QED BY <2>2, <2>4, <3>2, <4>2
    <3> QED BY <3>1, <3>2
  <2> QED BY <2>3, <2>4
<1> QED BY <1>8, <1>9

(* What was reported as stored and is still in the log is read. *)
LEMMA ReadKept ==
  ASSUME Len(log) = mem.max_pos, mem.max_seq \in Nat, mem.max_pos \in Nat,
         NEW at, LaidOut(log, mem, at), NEW ack, Keeps(log, mem, at, ack)
  PROVE  Stored(ack[1], ack[2])
<1> DEFINE seq == ack[1]
           pkt == log[at[seq]+1]
<1>1. seq \in 1..mem.max_seq
  BY DEF Keeps
<1>2. pkt.kind = "entry" /\ Count(mem, seq, pkt.body) \in 0..Chunks[pkt.body]
  BY <1>1 DEF LaidOut
<1>3. /\ GetEntry(seq) = pkt
      /\ \A cnr \in 0..Chunks[pkt.body] :
           GetChunk(seq, cnr) = IF cnr < Count(mem, seq, pkt.body)
                                  THEN ChunkPkt(pkt.body, cnr) ELSE None
  BY <1>1, ReadLaidOut
<1>4. CASE ack[2] = pkt
  BY <1>2, <1>3, <1>4 DEF Stored
<1>5. CASE \E cnr \in 0..Count(mem, seq, pkt.body)-1 : ack[2] = ChunkPkt(pkt.body, cnr)
  <2>1. PICK cnr \in 0..Count(mem, seq, pkt.body)-1 : ack[2] = ChunkPkt(pkt.body, cnr)
    BY <1>5
  <2>2. ack[2].kind = "chunk" /\ ack[2].cnr = cnr
    BY <2>1 DEF ChunkPkt
  <2>3. cnr < Count(mem, seq, pkt.body) /\ cnr \in 0..Chunks[pkt.body]
    <3> DEFINE n == Count(mem, seq, pkt.body)
               k == Chunks[pkt.body]
    <3>1. log[at[seq]+1].body \in Body
      BY <1>1 DEF LaidOut
    <3>2. k \in Nat /\ n \in 0..k /\ cnr \in 0..n-1
      BY <1>2, <3>1, ReplicaAssumption
    <3> HIDE DEF n, k
    <3>3. cnr < n /\ cnr \in 0..k
      BY <3>2
    <3> QED BY <3>3 DEF n, k
  <2> QED BY <1>3, <2>1, <2>2, <2>3 DEF Stored
<1> QED BY <1>4, <1>5 DEF Keeps

-----------------------------------------------------------------------------
(* A follower lays the entries out at the positions their sizes give. *)
LEMMA FollowerLaidOut ==
  ASSUME IInv, pc = "idle"
  PROVE  /\ LaidOut(log, mem, Offset)
         /\ Len(log) = mem.max_pos /\ mem.max_seq \in 0..MaxSeq /\ mem.max_pos \in Nat
         /\ \A seq \in 1..mem.max_seq :
              log[Offset[seq]+1] = FeedEntry(seq) /\ FeedEntry(seq).body = Feed[seq]
<1>1. mem = fnt /\ Len(log) = mem.max_pos /\ FrontierOK(mem) /\ LogHolds(log, mem)
  BY DEF IInv, MemoryOK, DiskOK, IsDisk
<1>2. mem.max_seq \in 0..MaxSeq /\ mem.max_pos = Offset[mem.max_seq+1]
  BY <1>1 DEF FrontierOK
<1>3. mem.max_pos \in Nat /\ MaxSeq \in Nat
  BY <1>2, OffsetTypes
<1>4. ASSUME NEW seq \in 1..mem.max_seq+1 PROVE Offset[seq] \in 0..mem.max_pos
  <2>1. seq \in 1..MaxSeq+1 /\ Offset[seq] \in Nat
    BY <1>2, OffsetTypes
  <2>2. CASE seq = mem.max_seq + 1
    BY <2>2, <1>2, <1>3
  <2>3. CASE seq < mem.max_seq + 1
    <3>1. seq \in 1..MaxSeq /\ mem.max_seq + 1 \in 1..MaxSeq+1
      BY <2>3, <1>2, <1>3
    <3>2. Offset[seq+1] <= Offset[mem.max_seq + 1]
      BY <2>3, <3>1, OffsetMonotonic
    <3>3. Offset[seq+1] = Offset[seq] + Chunks[Feed[seq]] + 2 /\ Chunks[Feed[seq]] \in Nat
      BY <3>1, OffsetTypes
    <3> DEFINE o == Offset[seq]
               c == Chunks[Feed[seq]]
               p == mem.max_pos
    <3>4. o \in Nat /\ c \in Nat /\ p \in Nat /\ o + c + 2 <= p
      BY <2>1, <3>2, <3>3, <1>2, <1>3
    <3> HIDE DEF o, c, p
    <3>5. o \in 0..p
      BY <3>4
    <3> QED BY <3>5 DEF o, p
  <2> QED BY <2>2, <2>3, <1>2
<1>5. ASSUME NEW seq \in 1..mem.max_seq
      PROVE  LET pkt == log[Offset[seq]+1] IN
             /\ pkt = FeedEntry(seq) /\ pkt.body = Feed[seq]
             /\ pkt.kind = "entry" /\ pkt.seq = seq /\ pkt.signed /\ pkt.body \in Body
             /\ Offset[seq+1] = Offset[seq] + Chunks[pkt.body] + 2
             /\ log[Offset[seq+1]] = BackPtr(Offset[seq])
             /\ Count(mem, seq, pkt.body) \in 0..Chunks[pkt.body]
             /\ \A cnr \in 0..Count(mem, seq, pkt.body)-1 :
                  log[Offset[seq]+2+cnr] = ChunkPkt(pkt.body, cnr)
  <2>1. seq \in 1..MaxSeq
    BY <1>2, <1>3
  <2>2. /\ FeedEntry(seq).kind = "entry" /\ FeedEntry(seq).seq = seq /\ FeedEntry(seq).signed
        /\ FeedEntry(seq).body = Feed[seq]
    BY DEF FeedEntry, EntryPkt
  <2>3. log[Offset[seq]+1] = FeedEntry(seq) /\ log[Offset[seq+1]] = BackPtr(Offset[seq])
    BY <1>1 DEF LogHolds
  <2>4. Count(mem, seq, Feed[seq]) = Got(mem, seq)
    BY DEF Count, Got
  <2>5. Got(mem, seq) \in 0..Chunks[Feed[seq]]
    BY <1>1, GotType
  <2>6. \A cnr \in 0..Got(mem, seq)-1 : log[Offset[seq]+2+cnr] = ChunkPkt(Feed[seq], cnr)
    BY <1>1 DEF LogHolds
  <2>7. Feed[seq] \in Body
    BY <2>1, ReplicaAssumption
  <2> QED BY <2>1, <2>2, <2>3, <2>4, <2>5, <2>6, <2>7, OffsetTypes
<1>6. LaidOut(log, mem, Offset)
  <2>1. Offset[1] = 0
    BY OffsetAssumption
  <2>2. mem.max_pos <= Len(log)
    BY <1>1, <1>3
  <2> QED BY <1>2, <1>4, <1>5, <2>1, <2>2 DEF LaidOut
<1> QED BY <1>1, <1>2, <1>3, <1>5, <1>6

(* What is held is kept in the log, entry and chunk. *)
LEMMA HeldIsKept ==
  ASSUME IInv, pc = "idle", NEW ack, Held(mem, ack)
  PROVE  Keeps(log, mem, Offset, ack)
<1>1. ack[1] \in 1..mem.max_seq
  BY DEF Held
<1>2. log[Offset[ack[1]]+1] = FeedEntry(ack[1]) /\ FeedEntry(ack[1]).body = Feed[ack[1]]
  BY <1>1, FollowerLaidOut
<1>3. Count(mem, ack[1], Feed[ack[1]]) = Got(mem, ack[1])
  BY DEF Count, Got
<1> QED BY <1>1, <1>2, <1>3 DEF Held, Keeps

-----------------------------------------------------------------------------
(* One more entry, or one more chunk, takes nothing away. *)
LEMMA HeldGrows ==
  ASSUME NEW f, NEW g, FrontierOK(f), FrontierOK(g),
         OneMoreEntry(f, g) \/ OneMoreChunk(f, g),
         NEW ack, Held(f, ack)
  PROVE  Held(g, ack)
<1>1. ack[1] \in 1..f.max_seq /\ f.max_seq \in 0..MaxSeq /\ MaxSeq \in Nat
  BY OffsetTypes DEF Held, FrontierOK
<1>2. ack[1] \in 1..g.max_seq
  BY <1>1 DEF OneMoreEntry, OneMoreChunk
<1>3. Got(f, ack[1]) \in Nat /\ Got(g, ack[1]) \in Nat
  <2>1. ack[1] \in 1..MaxSeq
    BY <1>1
  <2> QED BY <1>1, <1>2, <2>1, GotType, OffsetTypes
<1>4. Got(f, ack[1]) <= Got(g, ack[1])
  <2>1. CASE OneMoreEntry(f, g)
    <3>1. Got(g, ack[1]) = Got(f, ack[1])
      BY <2>1, <1>1 DEF OneMoreEntry
    <3> QED BY <3>1, <1>3
  <2>2. CASE OneMoreChunk(f, g)
    <3>1. Got(g, ack[1]) = Got(f, ack[1]) \/ Got(g, ack[1]) = Got(f, ack[1]) + 1
      BY <2>2, <1>1 DEF OneMoreChunk
    <3> QED BY <3>1, <1>3
  <2> QED BY <2>1, <2>2
<1>5. \A cnr \in 0..Got(f, ack[1])-1 : cnr \in 0..Got(g, ack[1])-1
  BY <1>3, <1>4
<1> QED BY <1>2, <1>5 DEF Held

(* A follower forgets nothing of what it reported. *)
LEMMA NextAckedInv ==
  ASSUME FollowerAssumption, IInv, IInv', AckedInv, [Next]_vars
  PROVE  AckedInv'
<1>1. FrontierOK(fnt) /\ FrontierOK(fnt')
  BY DEF IInv, DiskOK, IsDisk
<1>2. CASE UNCHANGED <<fnt, mem, acked, op, pc>>
  BY <1>2 DEF AckedInv, Held
<1>3. CASE UNCHANGED <<fnt, acked>> /\ pc' # "persist"
  BY <1>3 DEF AckedInv, Held
<1>4. CASE CreateFrontier
  <2>1. fnt' = fnt /\ acked' = acked /\ pc' # "persist"
    BY <1>4 DEF CreateFrontier, IInv, FilesOK
  <2> QED BY <2>1, <1>3
<1>5. CASE PersistRecovered \/ PersistAndReturn
  <2>1. /\ fnt' = mem /\ pc \in {"persist", "persist_recovered"} /\ pc' # "persist"
        /\ acked' = acked \/ (pc = "persist" /\ acked' = acked \cup op)
    BY <1>5 DEF PersistRecovered, PersistAndReturn
  <2>2. FrontierOK(mem) /\ (OneMoreEntry(fnt, mem) \/ OneMoreChunk(fnt, mem))
    BY <2>1 DEF IInv, MemoryOK
  <2>3. \A ack \in acked : Held(mem, ack)
    BY <1>1, <2>2, HeldGrows DEF AckedInv
  <2>4. \A ack \in acked' : Held(mem, ack)
    BY <2>1, <2>3 DEF AckedInv
  <2> QED BY <2>1, <2>4 DEF AckedInv
<1>6. ASSUME NEW pkt \in Wire, IngestEntry(pkt) PROVE AckedInv'
  <2>1. pc = "idle" /\ mem = fnt /\ FrontierOK(mem) /\ MayIngestEntry(pkt)
    BY <1>1, <1>6 DEF IngestEntry, MayIngestEntry, IInv, MemoryOK
  <2>2. mem.max_seq < MaxSeq /\ pkt = FeedEntry(mem.max_seq + 1)
    BY <2>1, OnlyTheNextEntry
  <2>3. pkt.seq = mem.max_seq + 1
    BY <2>2 DEF FeedEntry, EntryPkt
  <2>4. mem'.max_seq = mem.max_seq + 1 /\ op' = {<<mem.max_seq + 1, pkt>>}
        /\ fnt' = fnt /\ acked' = acked
    BY <1>6, <2>3 DEF IngestEntry, Frontier
  <2>5. mem.max_seq + 1 \in 1..mem.max_seq + 1
    BY <2>1, OffsetTypes DEF FrontierOK
  <2>6. Held(mem', <<mem.max_seq + 1, pkt>>)
    BY <2>2, <2>4, <2>5 DEF Held
  <2> QED BY <2>4, <2>6 DEF AckedInv, Held
<1>7. ASSUME NEW pkt \in Wire, NEW seq \in 1..MaxSeq, IngestChunk(pkt, seq) PROVE AckedInv'
  <2>1. pc = "idle" /\ mem = fnt /\ FrontierOK(mem) /\ MayIngestChunk(pkt, seq)
    BY <1>1, <1>7 DEF IngestChunk, MayIngestChunk, IInv, MemoryOK
  <2>2. seq \in DOMAIN mem.pend /\ pkt = ChunkPkt(Feed[seq], mem.pend[seq].cnr)
    BY <2>1, OnlyTheNextChunk
  <2> DEFINE c == mem.pend[seq].cnr
             n == Chunks[Feed[seq]]
  <2>3. c \in 0..n-1 /\ seq \in 1..mem.max_seq /\ mem.pend[seq].rem = n - c /\ n \in Nat
    <3>1. c \in 0..n-1 /\ seq \in 1..mem.max_seq /\ mem.pend[seq] = ChainAt(seq, c)
      BY <2>1, <2>2 DEF FrontierOK
    <3> HIDE DEF c
    <3>2. mem.pend[seq].rem = n - c
      BY <3>1 DEF ChainAt
    <3> QED BY <3>1, <3>2, OffsetTypes
  <2>4. /\ mem'.max_seq = mem.max_seq /\ fnt' = fnt /\ acked' = acked /\ op' = {<<seq, pkt>>}
        /\ mem'.pend = IF n - c <= 1 THEN CloseChain(mem.pend, seq)
                       ELSE [mem.pend EXCEPT ![seq] = NextChunk(mem.pend[seq], pkt)]
    BY <1>7, <2>3 DEF IngestChunk, Frontier
  <2>5. NextChunk(mem.pend[seq], pkt).cnr = c + 1
    BY DEF NextChunk
  <2>6. Got(mem', seq) = c + 1
    <3>1. CASE n - c <= 1
      <4>1. seq \notin DOMAIN mem'.pend
        BY <3>1, <2>4 DEF CloseChain
      <4>2. n = c + 1
        <5> HIDE DEF c, n
        <5> QED BY <2>3, <3>1
      <4> QED BY <4>1, <4>2 DEF Got
    <3>2. CASE ~(n - c <= 1)
      <4>1. seq \in DOMAIN mem'.pend /\ mem'.pend[seq].cnr = c + 1
        BY <3>2, <2>2, <2>4, <2>5
      <4> QED BY <4>1 DEF Got
    <3> QED BY <3>1, <3>2
  <2>7. Held(mem', <<seq, pkt>>)
    <3>1. c \in 0..Got(mem', seq)-1
      <4> HIDE DEF c, n
      <4> QED BY <2>3, <2>6
    <3>2. seq \in 1..mem'.max_seq /\ pkt = ChunkPkt(Feed[seq], c)
      BY <2>2, <2>3, <2>4
    <3> HIDE DEF c
    <3> QED BY <3>1, <3>2 DEF Held
  <2> QED BY <2>4, <2>7 DEF AckedInv, Held
<1>8. \/ UNCHANGED <<fnt, mem, acked, op, pc>>
      \/ UNCHANGED <<fnt, acked>> /\ pc' # "persist"
      \/ CreateFrontier \/ PersistRecovered \/ PersistAndReturn
      \/ \E pkt \in Wire : IngestEntry(pkt) \/ \E seq \in 1..MaxSeq : IngestChunk(pkt, seq)
  BY DEF Next, vars, Start, Recover, Ingest, Publish, Crashing, FollowerAssumption,
         CreateLog, LoadFrontier, RecoverDone, RecoverTruncate, RecoverEntry,
         Write, MayWrite, Crash, CrashInAppend, CrashInEntry, CrashInChunk,
         CrashInRecovery, Die
<1> QED BY <1>2, <1>3, <1>4, <1>5, <1>6, <1>7, <1>8

(***************************************************************************)
(* Whatever a follower reported as stored is read ever after, whatever     *)
(* arrives in which order, and however often and wherever the process dies.*)
(***************************************************************************)
LEMMA FollowerAckedIsReadable ==
  ASSUME FollowerAssumption PROVE Spec => []AckedIsReadable
<1>1. Init => AckedInv
  BY DEF Init, AckedInv
<1>2. IInv /\ IInv' /\ AckedInv /\ [Next]_vars => AckedInv'
  BY NextAckedInv
<1>3. IInv /\ AckedInv => AckedIsReadable
  <2> SUFFICES ASSUME IInv, AckedInv, pc = "idle", NEW ack \in acked
               PROVE  Stored(ack[1], ack[2])
    BY DEF AckedIsReadable
  <2>1. Held(mem, ack)
    BY DEF AckedInv, IInv, MemoryOK
  <2>2. Keeps(log, mem, Offset, ack)
    BY <2>1, HeldIsKept
  <2>3. /\ LaidOut(log, mem, Offset) /\ Len(log) = mem.max_pos
        /\ mem.max_seq \in Nat /\ mem.max_pos \in Nat
    BY FollowerLaidOut, OffsetTypes
  <2> QED BY <2>2, <2>3, ReadKept
<1> QED BY <1>1, <1>2, <1>3, IInvHolds, PTL DEF Spec

(***************************************************************************)
(* A follower hands out signed entries of the feed and chunks of their     *)
(* chains, and every chunk it does not list as missing.                    *)
(***************************************************************************)
LEMMA FollowerServesFeed ==
  ASSUME FollowerAssumption PROVE Spec => []ServesFeed
<1>1. IInv => ServesFeed
  <2> SUFFICES ASSUME IInv, pc = "idle", NEW seq \in 1..mem.max_seq
               PROVE  LET pkt == GetEntry(seq)
                          cnt == IF seq \in DOMAIN mem.pend THEN mem.pend[seq].cnr
                                                            ELSE Chunks[pkt.body]
                      IN /\ pkt # None
                         /\ pkt.kind = "entry" /\ pkt.seq = seq /\ pkt.signed
                         /\ ~IsAuthor => pkt = FeedEntry(seq)
                         /\ \A cnr \in 0..Chunks[pkt.body] :
                              GetChunk(seq, cnr) = IF cnr < cnt
                                                     THEN ChunkPkt(pkt.body, cnr) ELSE None
    BY DEF ServesFeed
  <2>1. /\ LaidOut(log, mem, Offset) /\ Len(log) = mem.max_pos
        /\ mem.max_seq \in Nat /\ mem.max_pos \in Nat
        /\ log[Offset[seq]+1] = FeedEntry(seq)
    BY FollowerLaidOut, OffsetTypes
  <2>2. /\ GetEntry(seq) = FeedEntry(seq)
        /\ \A cnr \in 0..Chunks[FeedEntry(seq).body] :
             GetChunk(seq, cnr) = IF cnr < Count(mem, seq, FeedEntry(seq).body)
                                    THEN ChunkPkt(FeedEntry(seq).body, cnr) ELSE None
    BY <2>1, ReadLaidOut
  <2>3. /\ FeedEntry(seq).kind = "entry" /\ FeedEntry(seq).seq = seq /\ FeedEntry(seq).signed
        /\ FeedEntry(seq) # None
    BY DEF FeedEntry, EntryPkt, None
  <2> QED BY <2>2, <2>3 DEF Count
<1> QED BY <1>1, IInvHolds, PTL

-----------------------------------------------------------------------------
(***************************************************************************)
(* The author's own replica.                                               *)
(***************************************************************************)
(* What lies behind the end that a frontier knows does not matter to it. *)
LEMMA AuthorHoldsPrefix ==
  ASSUME NEW file, NEW file2, NEW f, NEW acks, AuthorHolds(file, f, acks),
         Len(file) \in Nat, Len(file2) \in Nat,
         Covers(file2, f.max_pos), Same(file, file2, f.max_pos)
  PROVE  AuthorHolds(file2, f, acks)
<1>1. /\ f.max_seq \in Nat /\ f.max_seq \in 0..MaxSeq /\ f.max_pos \in Nat
      /\ f.prev \in {Genesis} \cup (Nat \X Body) /\ f.pend = NoChains
  BY ReplicaAssumption DEF AuthorHolds
<1>2. PICK at \in [1..f.max_seq+1 -> Ends(file)] :
        LaidOut(file, f, at) /\ \A ack \in acks : Keeps(file, f, at, ack)
  BY DEF AuthorHolds
<1>3. \A i \in 1..f.max_pos : file2[i] = file[i]
  BY DEF Same
<1>4. \A s \in 1..f.max_seq+1 : at[s] \in 0..f.max_pos
  BY <1>2 DEF LaidOut
<1>5. at \in [1..f.max_seq+1 -> Ends(file2)]
  <2>1. ASSUME NEW s \in 1..f.max_seq+1 PROVE at[s] \in Ends(file2)
    <3>1. at[s] \in Ends(file) /\ at[s] \in 0..f.max_pos
      BY <1>2, <1>4
    <3>2. CASE at[s] = 0
      BY <3>2 DEF Ends
    <3>3. CASE at[s] # 0
      <4>1. at[s] \in 1..f.max_pos /\ file[at[s]].kind = "ptr"
        BY <3>1, <3>3, <1>1 DEF Ends
      <4>2. at[s] \in 1..Len(file2) /\ file2[at[s]].kind = "ptr"
        BY <4>1, <1>1, <1>3 DEF Covers
      <4> QED BY <4>2 DEF Ends
    <3> QED BY <3>2, <3>3
  <2> QED BY <1>2, <2>1
<1>6. ASSUME NEW s \in 1..f.max_seq
      PROVE  /\ file2[at[s]+1] = file[at[s]+1]
             /\ file2[at[s+1]] = file[at[s+1]]
             /\ \A cnr \in 0..Count(f, s, file[at[s]+1].body)-1 :
                  file2[at[s]+2+cnr] = file[at[s]+2+cnr]
  <2> DEFINE body == file[at[s]+1].body
             k == Chunks[body]
             n == Count(f, s, body)
             a == at[s]
             z == at[s+1]
             p == f.max_pos
  <2>1. s \in 1..f.max_seq+1 /\ s+1 \in 1..f.max_seq+1
    BY <1>1
  <2>2. body \in Body /\ z = a + k + 2 /\ n \in 0..k
    BY <1>2 DEF LaidOut
  <2>3. k \in Nat
    BY <2>2, ReplicaAssumption
  <2>4. a \in 0..p /\ z \in 0..p /\ p \in Nat
    BY <1>1, <1>4, <2>1
  <2> HIDE DEF body, k, n, a, z, p
  <2>5. a+1 \in 1..p /\ z \in 1..p /\ \A cnr \in 0..n-1 : a+2+cnr \in 1..p
    BY <2>2, <2>3, <2>4
  <2>6. file2[a+1] = file[a+1] /\ file2[z] = file[z]
        /\ \A cnr \in 0..n-1 : file2[a+2+cnr] = file[a+2+cnr]
    BY <2>5, <1>3 DEF p
  <2> QED BY <2>6 DEF a, z, n, body
<1>7. LaidOut(file2, f, at)
  <2>1. f.max_pos <= Len(file2)
    BY DEF Covers
  <2>2. /\ \A s \in 1..f.max_seq+1 : at[s] \in 0..f.max_pos
        /\ at[1] = 0 /\ at[f.max_seq+1] = f.max_pos
    BY <1>2 DEF LaidOut
  <2>3. ASSUME NEW s \in 1..f.max_seq
        PROVE  LET pkt == file2[at[s]+1] IN
               /\ pkt.kind = "entry" /\ pkt.seq = s /\ pkt.signed /\ pkt.body \in Body
               /\ at[s+1] = at[s] + Chunks[pkt.body] + 2
               /\ file2[at[s+1]] = BackPtr(at[s])
               /\ Count(f, s, pkt.body) \in 0..Chunks[pkt.body]
               /\ \A cnr \in 0..Count(f, s, pkt.body)-1 :
                    file2[at[s]+2+cnr] = ChunkPkt(pkt.body, cnr)
    <3>1. LET pkt == file[at[s]+1] IN
          /\ pkt.kind = "entry" /\ pkt.seq = s /\ pkt.signed /\ pkt.body \in Body
          /\ at[s+1] = at[s] + Chunks[pkt.body] + 2
          /\ file[at[s+1]] = BackPtr(at[s])
          /\ Count(f, s, pkt.body) \in 0..Chunks[pkt.body]
          /\ \A cnr \in 0..Count(f, s, pkt.body)-1 :
               file[at[s]+2+cnr] = ChunkPkt(pkt.body, cnr)
      BY <1>2 DEF LaidOut
    <3> QED BY <3>1, <1>6
  <2> QED BY <2>1, <2>2, <2>3 DEF LaidOut
<1>8. \A ack \in acks : Keeps(file2, f, at, ack)
  BY <1>2, <1>6 DEF Keeps
<1> QED BY <1>1, <1>5, <1>7, <1>8 DEF AuthorHolds

(* What write() appends: the packet, its side chain, the back pointer. *)
LEMMA WrittenCellsProperties ==
  ASSUME mem.max_pos \in Nat, NEW pkt \in AuthorEntries
  PROVE  /\ WrittenCells(pkt) \in Seq(AuthorCells)
         /\ Size(WrittenCells(pkt)) = Chunks[pkt.body] + 2
         /\ WrittenCells(pkt)[1] = pkt
         /\ \A cnr \in 0..Chunks[pkt.body]-1 : WrittenCells(pkt)[2+cnr] = ChunkPkt(pkt.body, cnr)
         /\ WrittenCells(pkt)[Chunks[pkt.body] + 2] = BackPtr(mem.max_pos)
<1> DEFINE k == Chunks[pkt.body]
           head == <<pkt>>
           chain == SideChain(pkt.body)
           last == <<BackPtr(mem.max_pos)>>
<1>1. k \in Nat /\ pkt.body \in Body
  BY ReplicaAssumption DEF AuthorEntries
<1>2. chain = [i \in 1..k |-> ChunkPkt(pkt.body, i-1)]
  BY DEF SideChain
<1>3. \A i \in 1..k : ChunkPkt(pkt.body, i-1) \in AuthorCells
  <2>1. \A i \in 1..k : i - 1 \in Nat
    BY <1>1
  <2> QED BY <1>1, <2>1 DEF ChunkPkt, AuthorCells
<1>4. chain \in Seq(AuthorCells) /\ Size(chain) = k
  <2> HIDE DEF k
  <2>1. [i \in 1..k |-> ChunkPkt(pkt.body, i-1)] \in Seq(AuthorCells)
    BY <1>1, <1>3, IsASeq
  <2>2. Len([i \in 1..k |-> ChunkPkt(pkt.body, i-1)]) = k
    BY <1>1, <2>1, LenProperties
  <2> QED BY <1>2, <2>1, <2>2 DEF Size
<1>5. pkt \in AuthorCells /\ BackPtr(mem.max_pos) \in AuthorCells
  BY DEF AuthorCells, BackPtr
<1>6. /\ head \in Seq(AuthorCells) /\ Size(head) = 1 /\ head[1] = pkt
      /\ last \in Seq(AuthorCells) /\ Size(last) = 1 /\ last[1] = BackPtr(mem.max_pos)
  BY <1>5 DEF Size
<1>7. WrittenCells(pkt) = (head \o chain) \o last
  BY DEF WrittenCells
<1>8. \A i \in 1..k : chain[i] = ChunkPkt(pkt.body, i-1)
  BY <1>2
<1> HIDE DEF head, chain, last, k
<1> DEFINE front == head \o chain
           cells == front \o last
<1>9. /\ front \in Seq(AuthorCells) /\ Size(front) = 1 + k /\ front[1] = pkt
      /\ \A i \in 1..k : front[1 + i] = chain[i]
  <2>1. /\ front \in Seq(AuthorCells) /\ Size(front) = Size(head) + Size(chain)
        /\ \A i \in 1..Size(head) + Size(chain) :
             front[i] = IF i <= Size(head) THEN head[i] ELSE chain[i - Size(head)]
    BY <1>4, <1>6, ConcatFile
  <2> HIDE DEF front
  <2>2. /\ Size(front) = 1 + k
        /\ \A i \in 1..1+k : front[i] = IF i <= 1 THEN head[i] ELSE chain[i - 1]
    BY <2>1, <1>4, <1>6
  <2>3. 1 \in 1..1+k
    BY <1>1
  <2>4. ASSUME NEW i \in 1..k PROVE front[1 + i] = chain[i]
    <3>1. 1 + i \in 1..1+k /\ ~(1 + i <= 1) /\ (1 + i) - 1 = i
      BY <1>1
    <3> QED BY <3>1, <2>2
  <2> QED BY <2>1, <2>2, <2>3, <2>4, <1>6
<1> HIDE DEF front
<1>10. /\ cells \in Seq(AuthorCells) /\ Size(cells) = 1 + k + 1
       /\ \A i \in 1..1+k : cells[i] = front[i]
       /\ cells[1 + k + 1] = last[1]
  <2>1. /\ cells \in Seq(AuthorCells) /\ Size(cells) = Size(front) + Size(last)
        /\ \A i \in 1..Size(front) + Size(last) :
             cells[i] = IF i <= Size(front) THEN front[i] ELSE last[i - Size(front)]
    BY <1>6, <1>9, ConcatFile
  <2> HIDE DEF cells
  <2> DEFINE m == 1 + k
  <2>2. /\ m \in Nat /\ Size(cells) = m + 1
        /\ \A i \in 1..m+1 : cells[i] = IF i <= m THEN front[i] ELSE last[i - m]
    BY <2>1, <1>1, <1>6, <1>9
  <2> HIDE DEF m
  <2>3. ASSUME NEW i \in 1..m PROVE cells[i] = front[i]
    <3>1. i \in 1..m+1 /\ i <= m
      BY <2>2
    <3> QED BY <3>1, <2>2
  <2>4. cells[m+1] = last[1]
    <3>1. m+1 \in 1..m+1 /\ ~(m+1 <= m) /\ (m+1) - m = 1
      BY <2>2
    <3> QED BY <3>1, <2>2
  <2> QED BY <2>1, <2>2, <2>3, <2>4 DEF m
<1> HIDE DEF cells
<1>11. cells[1] = pkt /\ Size(cells) = k + 2
  <2>1. 1 \in 1..1+k /\ 1 + k + 1 = k + 2
    BY <1>1
  <2> QED BY <2>1, <1>9, <1>10
<1>12. ASSUME NEW cnr \in 0..k-1 PROVE cells[2+cnr] = ChunkPkt(pkt.body, cnr)
  <2>1. 2+cnr \in 1..1+k /\ cnr+1 \in 1..k /\ 2+cnr = 1+(cnr+1) /\ (cnr+1)-1 = cnr
    BY <1>1
  <2>2. cells[2+cnr] = front[2+cnr]
    BY <2>1, <1>10
  <2>3. front[2+cnr] = chain[cnr+1]
    BY <2>1, <1>9
  <2>4. chain[cnr+1] = ChunkPkt(pkt.body, (cnr+1)-1)
    BY <2>1, <1>8
  <2> QED BY <2>1, <2>2, <2>3, <2>4
<1>13. cells[k+2] = BackPtr(mem.max_pos)
  <2>1. k+2 = 1 + k + 1
    BY <1>1
  <2> QED BY <2>1, <1>6, <1>10
<1> QED BY <1>7, <1>10, <1>11, <1>12, <1>13 DEF cells, front, k

(* What write() does to the file, to the frontier, and what it reports. *)
Appended(file, f, pkt, file2) ==
  LET k == Chunks[pkt.body]
      z == f.max_pos + k + 2
  IN /\ Len(file2) = z /\ Same(file, file2, f.max_pos)
     /\ file2[f.max_pos + 1] = pkt
     /\ \A cnr \in 0..k-1 : file2[f.max_pos + 2 + cnr] = ChunkPkt(pkt.body, cnr)
     /\ file2[z] = BackPtr(f.max_pos)
Reported(f, pkt, g, new) ==
  LET k == Chunks[pkt.body]
  IN /\ g = Frontier(pkt.seq, f.max_pos + k + 2, Digest(pkt.seq, pkt.body), f.pend)
     /\ \A ack \in new : /\ ack[1] = pkt.seq
                         /\ \/ ack[2] = pkt
                            \/ \E cnr \in 0..k-1 : ack[2] = ChunkPkt(pkt.body, cnr)

(* The author adds an entry, with its side chain, where the log ends. *)
LEMMA AuthorAdd ==
  ASSUME NEW file, NEW f, NEW acks, AuthorHolds(file, f, acks), f.max_seq < MaxSeq,
         Len(file) \in Nat,
         NEW pkt, pkt.kind = "entry", pkt.seq = f.max_seq + 1, pkt.signed, pkt.body \in Body,
         NEW file2, Appended(file, f, pkt, file2),
         NEW g, NEW new, Reported(f, pkt, g, new)
  PROVE  /\ AuthorHolds(file2, f, acks)
         /\ AuthorHolds(file2, g, acks \cup new)
<1> DEFINE k == Chunks[pkt.body]
           z == f.max_pos + k + 2
<1>0. /\ Len(file2) = z /\ Same(file, file2, f.max_pos)
      /\ file2[f.max_pos + 1] = pkt
      /\ \A cnr \in 0..k-1 : file2[f.max_pos + 2 + cnr] = ChunkPkt(pkt.body, cnr)
      /\ file2[z] = BackPtr(f.max_pos)
      /\ g = Frontier(pkt.seq, z, Digest(pkt.seq, pkt.body), f.pend)
      /\ \A ack \in new : /\ ack[1] = pkt.seq
                          /\ \/ ack[2] = pkt
                             \/ \E cnr \in 0..k-1 : ack[2] = ChunkPkt(pkt.body, cnr)
  BY DEF Appended, Reported
<1> DEFINE m == f.max_seq
           p == f.max_pos
<1>1. m \in 0..MaxSeq /\ m \in Nat /\ p \in Nat /\ MaxSeq \in Nat /\ f.pend = NoChains
  BY ReplicaAssumption DEF AuthorHolds
<1>2. k \in Nat /\ z = p + k + 2 /\ k = Chunks[pkt.body]
  BY ReplicaAssumption
<1> HIDE DEF k, z
<1>3. z \in Nat /\ p <= z /\ z > 0
  BY <1>1, <1>2
<1>4. AuthorHolds(file2, f, acks)
  <2>1. Covers(file2, p) /\ Len(file2) \in Nat
    BY <1>0, <1>3 DEF Covers
  <2> QED BY <1>0, <2>1, AuthorHoldsPrefix
<1>5. PICK at \in [1..m+1 -> Ends(file2)] :
        LaidOut(file2, f, at) /\ \A ack \in acks : Keeps(file2, f, at, ack)
  BY <1>4 DEF AuthorHolds
<1>6. /\ g.max_seq = m + 1 /\ g.max_pos = z /\ g.pend = NoChains
      /\ g.prev = Digest(m + 1, pkt.body)
  BY <1>0, <1>1 DEF Frontier
<1> DEFINE at2 == [s \in 1..m+2 |-> IF s = m + 2 THEN z ELSE at[s]]
<1>7. \A b, s : Count(f, s, b) = Chunks[b] /\ Count(g, s, b) = Chunks[b]
  BY <1>1, <1>6 DEF Count, NoChains
<1>8. /\ \A s \in 1..m+1 : s \in 1..m+2 /\ s # m + 2 /\ at2[s] = at[s]
      /\ at2[m+2] = z /\ m + 2 \in 1..m+2
  BY <1>1
<1>9. /\ \A s \in 1..m+1 : at[s] \in 0..p
      /\ at[1] = 0 /\ at[m+1] = p
  BY <1>5 DEF LaidOut
<1>10. at2 \in [1..m+2 -> Ends(file2)]
  <2>1. z \in Ends(file2)
    <3>1. z \in 1..Len(file2) /\ file2[z].kind = "ptr"
      BY <1>0, <1>3 DEF BackPtr
    <3> QED BY <3>1 DEF Ends
  <2>2. \A s \in 1..m+2 : s # m + 2 => s \in 1..m+1
    BY <1>1
  <2> QED BY <2>1, <2>2, <1>5
<1> HIDE DEF at2
<1>11. ASSUME NEW s \in 1..m+1
       PROVE  LET q == file2[at2[s]+1] IN
              /\ q.kind = "entry" /\ q.seq = s /\ q.signed /\ q.body \in Body
              /\ at2[s+1] = at2[s] + Chunks[q.body] + 2
              /\ file2[at2[s+1]] = BackPtr(at2[s])
              /\ Count(g, s, q.body) \in 0..Chunks[q.body]
              /\ \A cnr \in 0..Count(g, s, q.body)-1 :
                   file2[at2[s]+2+cnr] = ChunkPkt(q.body, cnr)
  <2>1. CASE s = m + 1
    <3>1. at2[s] = p /\ at2[s+1] = z
      BY <2>1, <1>1, <1>8, <1>9
    <3> QED BY <2>1, <3>1, <1>0, <1>2, <1>7
  <2>2. CASE s # m + 1
    <3>1. s \in 1..m /\ s + 1 \in 1..m+1
      BY <2>2, <1>1
    <3>2. at2[s] = at[s] /\ at2[s+1] = at[s+1]
      BY <3>1, <1>8
    <3>3. LET q == file2[at[s]+1] IN
          /\ q.kind = "entry" /\ q.seq = s /\ q.signed /\ q.body \in Body
          /\ at[s+1] = at[s] + Chunks[q.body] + 2
          /\ file2[at[s+1]] = BackPtr(at[s])
          /\ Count(f, s, q.body) \in 0..Chunks[q.body]
          /\ \A cnr \in 0..Count(f, s, q.body)-1 :
               file2[at[s]+2+cnr] = ChunkPkt(q.body, cnr)
      BY <3>1, <1>5 DEF LaidOut
    <3> QED BY <3>2, <3>3, <1>7
  <2> QED BY <2>1, <2>2
<1>12. LaidOut(file2, g, at2)
  <2>1. \A s \in 1..m+2 : at2[s] \in 0..z
    <3> TAKE s \in 1..m+2
    <3>1. CASE s = m + 2
      BY <3>1, <1>3, <1>8
    <3>2. CASE s # m + 2
      <4>1. s \in 1..m+1
        BY <3>2, <1>1
      <4>2. at2[s] \in 0..p
        BY <4>1, <1>8, <1>9
      <4> QED BY <4>2, <1>1, <1>3
    <3> QED BY <3>1, <3>2
  <2>2. at2[1] = 0 /\ at2[m+2] = z /\ m + 1 + 1 = m + 2 /\ z <= Len(file2)
    BY <1>0, <1>1, <1>3, <1>8, <1>9
  <2> QED BY <2>1, <2>2, <1>6, <1>11 DEF LaidOut
<1>13. ASSUME NEW ack \in acks \cup new PROVE Keeps(file2, g, at2, ack)
  <2>1. CASE ack \in acks
    <3>1. Keeps(file2, f, at, ack)
      BY <2>1, <1>5
    <3>2. ack[1] \in 1..m /\ ack[1] \in 1..m+1
      BY <3>1, <1>1 DEF Keeps
    <3>3. at2[ack[1]] = at[ack[1]]
      BY <3>2, <1>8
    <3> QED BY <3>1, <3>2, <3>3, <1>6, <1>7 DEF Keeps
  <2>2. CASE ack \in new
    <3>1. ack[1] = m + 1 /\ m + 1 \in 1..m+1
      BY <2>2, <1>0, <1>1
    <3>2. at2[ack[1]] = p
      BY <3>1, <1>8, <1>9
    <3> QED BY <2>2, <3>1, <3>2, <1>0, <1>2, <1>6, <1>7 DEF Keeps
  <2> QED BY <2>1, <2>2
<1>14. AuthorHolds(file2, g, acks \cup new)
  <2>1. g.max_seq \in 0..MaxSeq /\ g.max_seq + 1 = m + 2
    BY <1>1, <1>6
  <2>2. g.prev \in Nat \X Body
    <3>1. m + 1 \in Nat
      BY <1>1
    <3> QED BY <3>1, <1>6 DEF Digest
  <2> QED BY <2>1, <2>2, <1>3, <1>6, <1>10, <1>12, <1>13 DEF AuthorHolds
<1> QED BY <1>4, <1>14

(* An empty file holds what a new frontier counts. *)
LEMMA NothingHeld == AuthorHolds(<<>>, NewFrontier, {})
<1>1. /\ NewFrontier.max_seq = 0 /\ NewFrontier.max_pos = 0 /\ NewFrontier.prev = Genesis
      /\ NewFrontier.pend = NoChains
  BY DEF NewFrontier, NoChains
<1> DEFINE at == [s \in 1..1 |-> 0]
<1>2. at \in [1..0+1 -> Ends(<<>>)]
  BY DEF Ends
<1>3. LaidOut(<<>>, NewFrontier, at)
  BY <1>1 DEF LaidOut
<1>4. 0 \in 0..MaxSeq
  BY ReplicaAssumption
<1> QED BY <1>1, <1>2, <1>3, <1>4 DEF AuthorHolds

(* The author begins with empty files. *)
LEMMA InitAuthorInv == Init => AuthorInv
<1> SUFFICES ASSUME Init PROVE AuthorInv
  OBVIOUS
<1>1. fnt = NewFrontier /\ mem = NewFrontier /\ log = <<>> /\ files = {} /\ pc = "down"
      /\ acked = {}
  BY DEF Init
<1>2. AuthorHolds(log, fnt, acked)
  BY <1>1, NothingHeld
<1>3. <<>> \in Seq(AuthorCells)
  BY EmptySeq
<1> QED BY <1>1, <1>2, <1>3 DEF AuthorInv, NewFrontier, NoChains

(* Each step of the author preserves its invariant. *)
LEMMA NextAuthorInv ==
  ASSUME IsAuthor, AuthorInv, [Next]_vars
  PROVE  AuthorInv'
<1>1. /\ log \in Seq(AuthorCells) /\ Len(log) \in Nat
      /\ AuthorHolds(log, fnt, acked)
      /\ mem.pend = NoChains /\ fnt.pend = NoChains
      /\ fnt.max_pos \in Nat /\ fnt.max_seq \in 0..MaxSeq
      /\ fnt.max_pos <= Len(log)
  BY LenProperties DEF AuthorInv, AuthorHolds, LaidOut
<1>2. Wire = {}
  BY DEF Wire
<1>3. NewFrontier.pend = NoChains
  BY DEF NewFrontier, NoChains
<1>4. CASE UNCHANGED vars
  <2>1. files' = files /\ log' = log /\ fnt' = fnt /\ mem' = mem /\ pc' = pc /\ op' = op
        /\ acked' = acked
    BY <1>4 DEF vars
  <2> QED BY <2>1 DEF AuthorInv
<1>5. CASE CreateLog
  BY <1>5 DEF CreateLog, AuthorInv
<1>6. CASE CreateFrontier
  <2>1. fnt' = fnt /\ mem' = fnt /\ fnt.pend = NoChains /\ pc' = "recover" /\ log' = log
        /\ acked' = acked /\ "frontier" \in files' /\ "log" \in files'
    BY <1>3, <1>6 DEF CreateFrontier, AuthorInv
  <2> QED BY <2>1, <1>1, <1>3 DEF AuthorInv
<1>7. CASE LoadFrontier
  BY <1>1, <1>7 DEF LoadFrontier, AuthorInv
<1>8. CASE RecoverDone
  <2>1. Len(log) = fnt.max_pos
    BY <1>1, <1>8 DEF RecoverDone, LogIsAhead, AuthorInv
  <2> QED BY <2>1, <1>8 DEF RecoverDone, AuthorInv
<1>9. CASE RecoverTruncate
  <2>1. pc = "recover" /\ mem = fnt /\ pc' = "idle" /\ log' = SubSeq(log, 1, fnt.max_pos)
        /\ UNCHANGED <<files, fnt, mem, op, acked, crashes>>
    BY <1>9 DEF RecoverTruncate, AuthorInv
  <2>2. fnt.max_pos \in 0..Len(log)
    BY <1>1
  <2>3. /\ log' \in Seq(AuthorCells) /\ Len(log') = fnt.max_pos
        /\ \A i \in 1..fnt.max_pos : log'[i] = log[i]
    BY <1>1, <2>1, <2>2, FirstCells DEF Size
  <2>4. Covers(log', fnt.max_pos) /\ Same(log, log', fnt.max_pos) /\ Len(log') \in Nat
    BY <1>1, <2>3 DEF Covers, Same
  <2>5. AuthorHolds(log', fnt, acked)
    BY <1>1, <2>4, AuthorHoldsPrefix
  <2> QED BY <2>1, <2>3, <2>5 DEF AuthorInv
<1>10. CASE PersistAndReturn
  <2>1. pc = "persist" /\ fnt' = mem /\ pc' = "idle" /\ acked' = acked \cup op
        /\ UNCHANGED <<files, log, mem>>
    BY <1>10 DEF PersistAndReturn
  <2>2. AuthorHolds(log, mem, acked \cup op) /\ Len(log) = mem.max_pos
    BY <2>1 DEF AuthorInv
  <2>3. "frontier" \in files
    BY <2>1 DEF AuthorInv
  <2> QED BY <2>1, <2>2, <2>3 DEF AuthorInv
<1>11. ASSUME Die, log' \in Seq(AuthorCells), AuthorHolds(log', fnt, acked) PROVE AuthorInv'
  BY <1>3, <1>11 DEF Die, AuthorInv
<1>12. CASE Crash
  <2>1. Die /\ log' = log
    BY <1>12 DEF Crash
  <2> QED BY <2>1, <1>1, <1>11
<1>13. ASSUME MayWrite, NEW body \in Body
       PROVE  /\ mem = fnt /\ Len(log) = fnt.max_pos /\ fnt.max_seq < MaxSeq
              /\ NewEntry(body) \in AuthorEntries /\ NewEntry(body).kind = "entry"
              /\ NewEntry(body).seq = fnt.max_seq + 1 /\ NewEntry(body).signed
              /\ NewEntry(body).body = body
  <2>1. mem = fnt /\ Len(log) = fnt.max_pos /\ fnt.max_seq < MaxSeq
    BY <1>13 DEF MayWrite, AuthorInv
  <2>2. fnt.max_seq + 1 \in Nat /\ fnt.prev \in {Genesis} \cup (Nat \X Body)
    BY <1>1, ReplicaAssumption DEF AuthorHolds
  <2> QED BY <2>1, <2>2 DEF NewEntry, EntryPkt, AuthorEntries
<1>14. ASSUME NEW cells \in Seq(AuthorCells)
       PROVE  /\ log \o cells \in Seq(AuthorCells)
              /\ Len(log \o cells) = Len(log) + Len(cells) /\ Len(cells) \in Nat
              /\ Same(log, log \o cells, fnt.max_pos)
              /\ AuthorHolds(log \o cells, fnt, acked)
  <2> DEFINE file2 == log \o cells
  <2>1. /\ file2 \in Seq(AuthorCells) /\ Size(log) \in Nat /\ Size(cells) \in Nat
        /\ Size(file2) = Size(log) + Size(cells)
        /\ \A i \in 1..Size(log) + Size(cells) :
             file2[i] = IF i <= Size(log) THEN log[i] ELSE cells[i - Size(log)]
    BY <1>1, ConcatFile
  <2> HIDE DEF file2
  <2>2. Size(log) = Len(log) /\ Size(cells) = Len(cells) /\ Size(file2) = Len(file2)
    BY DEF Size
  <2>3. Same(log, file2, fnt.max_pos)
    <3>1. ASSUME NEW i \in 1..fnt.max_pos PROVE file2[i] = log[i]
      <4>1. i \in 1..Size(log) + Size(cells) /\ i <= Size(log)
        BY <1>1, <2>1, <2>2
      <4> QED BY <4>1, <2>1
    <3> QED BY <3>1 DEF Same
  <2>4. Covers(file2, fnt.max_pos) /\ Len(file2) \in Nat
    BY <1>1, <2>1, <2>2 DEF Covers
  <2>5. AuthorHolds(file2, fnt, acked)
    BY <1>1, <2>3, <2>4, AuthorHoldsPrefix
  <2> QED BY <2>1, <2>2, <2>3, <2>5 DEF file2
<1>15. CASE CrashInAppend
  <2>1. PICK body \in Body : /\ MayWrite
                             /\ \E n \in 0..Len(WrittenCells(NewEntry(body)))-1 :
                                  log' = log \o SubSeq(WrittenCells(NewEntry(body)), 1, n)
    BY <1>2, <1>15 DEF CrashInAppend
  <2> DEFINE cells == WrittenCells(NewEntry(body))
  <2>2. PICK n \in 0..Len(cells)-1 : log' = log \o SubSeq(cells, 1, n)
    BY <2>1
  <2>3. cells \in Seq(AuthorCells)
    BY <1>1, <1>13, <2>1, WrittenCellsProperties
  <2> HIDE DEF cells
  <2>4. n \in 0..Len(cells)
    BY <2>2, <2>3, LenProperties
  <2>5. SubSeq(cells, 1, n) \in Seq(AuthorCells)
    BY <2>3, <2>4, FirstCells
  <2>6. log' \in Seq(AuthorCells) /\ AuthorHolds(log', fnt, acked)
    BY <2>2, <2>5, <1>14
  <2> QED BY <2>6, <1>11, <1>15 DEF CrashInAppend
<1>16. CASE CrashInEntry
  <2>1. PICK body \in Body : MayWrite /\ log' = Append(log, Torn(NewEntry(body)))
    BY <1>2, <1>16 DEF CrashInEntry
  <2>2. Torn(NewEntry(body)) \in AuthorCells
    BY <1>13, <2>1 DEF Torn, AuthorCells
  <2>3. <<Torn(NewEntry(body))>> \in Seq(AuthorCells)
    BY <2>2
  <2>4. Append(log, Torn(NewEntry(body))) = log \o <<Torn(NewEntry(body))>>
    BY <1>1, <2>2, AppendIsConcat
  <2>5. log' \in Seq(AuthorCells) /\ AuthorHolds(log', fnt, acked)
    BY <2>1, <2>3, <2>4, <1>14
  <2> QED BY <2>5, <1>11, <1>16 DEF CrashInEntry
<1>17. ASSUME NEW body \in Body, Write(body) PROVE AuthorInv'
  <2> DEFINE pkt == NewEntry(body)
             cells == WrittenCells(pkt)
             k == Chunks[body]
             z == fnt.max_pos + k + 2
  <2>1. MayWrite /\ k \in Nat
    BY <1>17, ReplicaAssumption DEF Write
  <2>2. /\ mem = fnt /\ Len(log) = fnt.max_pos /\ fnt.max_seq < MaxSeq
        /\ pkt \in AuthorEntries /\ pkt.kind = "entry" /\ pkt.seq = fnt.max_seq + 1
        /\ pkt.signed /\ pkt.body = body
    BY <1>13, <2>1
  <2>3. /\ log' = log \o cells
        /\ mem' = Frontier(pkt.seq, fnt.max_pos + Len(cells), Digest(pkt.seq, body), fnt.pend)
        /\ op' = {<<pkt.seq, pkt>>}
                  \cup {<<pkt.seq, ChunkPkt(body, cnr)>> : cnr \in 0..k-1}
        /\ pc' = "persist" /\ UNCHANGED <<files, fnt, acked>>
    BY <1>17, <2>2 DEF Write
  <2> HIDE DEF pkt
  <2>4. /\ cells \in Seq(AuthorCells) /\ Size(cells) = k + 2 /\ cells[1] = pkt
        /\ \A cnr \in 0..k-1 : cells[2 + cnr] = ChunkPkt(body, cnr)
        /\ cells[k + 2] = BackPtr(fnt.max_pos)
    BY <1>1, <2>2, WrittenCellsProperties
  <2> HIDE DEF cells
  <2>5. /\ log' \in Seq(AuthorCells) /\ Size(log) \in Nat /\ Size(cells) \in Nat
        /\ Size(log') = Size(log) + Size(cells)
        /\ \A i \in 1..Size(log) + Size(cells) :
             log'[i] = IF i <= Size(log) THEN log[i] ELSE cells[i - Size(log)]
    BY <1>1, <2>3, <2>4, ConcatFile
  <2> DEFINE p == fnt.max_pos
  <2>6. p \in Nat /\ Size(log) = p
    BY <1>1, <2>2 DEF Size
  <2> HIDE DEF p, k
  <2>7. /\ Size(log') = p + k + 2
        /\ \A i \in 1..p+k+2 : log'[i] = IF i <= p THEN log[i] ELSE cells[i - p]
    <3>1. p + Size(cells) = p + k + 2
      BY <2>1, <2>4, <2>6
    <3> QED BY <2>5, <2>6, <3>1
  <2>8. log'[p + 1] = pkt
    <3>1. p + 1 \in 1..p+k+2 /\ ~(p + 1 <= p) /\ (p + 1) - p = 1
      BY <2>1, <2>6
    <3> QED BY <3>1, <2>4, <2>7
  <2>9. ASSUME NEW cnr \in 0..k-1 PROVE log'[p + 2 + cnr] = ChunkPkt(body, cnr)
    <3>1. p + 2 + cnr \in 1..p+k+2 /\ ~(p + 2 + cnr <= p) /\ (p + 2 + cnr) - p = 2 + cnr
      BY <2>1, <2>6
    <3> QED BY <3>1, <2>4, <2>7
  <2>10. log'[p + k + 2] = BackPtr(p)
    <3>1. p + k + 2 \in 1..p+k+2 /\ ~(p + k + 2 <= p) /\ (p + k + 2) - p = k + 2
      BY <2>1, <2>6
    <3> QED BY <3>1, <2>4, <2>7 DEF p
  <2>11. Same(log, log', p)
    <3>1. ASSUME NEW i \in 1..p PROVE log'[i] = log[i]
      <4>1. i \in 1..p+k+2 /\ i <= p
        BY <2>1, <2>6
      <4> QED BY <4>1, <2>7
    <3> QED BY <3>1 DEF Same
  <2>12. mem' = Frontier(pkt.seq, z, Digest(pkt.seq, pkt.body), fnt.pend)
    <3>1. fnt.max_pos + Len(cells) = z
      <4>1. Len(cells) = k + 2 /\ p + (k + 2) = p + k + 2
        BY <2>1, <2>4, <2>6 DEF Size
      <4> QED BY <4>1 DEF p
    <3> QED BY <3>1, <2>2, <2>3
  <2>13. \A ack \in op' : /\ ack[1] = pkt.seq
                           /\ \/ ack[2] = pkt
                              \/ \E cnr \in 0..k-1 : ack[2] = ChunkPkt(pkt.body, cnr)
    BY <2>2, <2>3 DEF k
  <2>14. AuthorHolds(log', fnt, acked) /\ AuthorHolds(log', mem', acked \cup op')
    <3>1. k = Chunks[pkt.body] /\ pkt.body \in Body
      BY <2>2 DEF k
    <3>2. Len(log') = z
      BY <2>7 DEF Size, p
    <3>3. Appended(log, fnt, pkt, log')
      BY <2>2, <2>8, <2>9, <2>10, <2>11, <3>1, <3>2 DEF p, Appended
    <3>4. Reported(fnt, pkt, mem', op')
      BY <2>12, <2>13, <3>1 DEF Reported
    <3> QED BY <1>1, <2>2, <3>1, <3>3, <3>4, AuthorAdd
  <2>15. mem'.pend = NoChains /\ Len(log') = mem'.max_pos
    BY <1>1, <2>7, <2>12 DEF Frontier, Size, p
  <2>16. "frontier" \in files'
    BY <2>1, <2>3 DEF AuthorInv, MayWrite
  <2> QED BY <2>3, <2>5, <2>14, <2>15, <2>16 DEF AuthorInv
<1>18. ~RecoverEntry /\ ~CrashInRecovery /\ ~CrashInChunk /\ ~Ingest /\ ~PersistRecovered
  BY <1>2 DEF RecoverEntry, CrashInRecovery, CrashInChunk, Ingest, PersistRecovered, AuthorInv
<1> QED BY <1>4, <1>5, <1>6, <1>7, <1>8, <1>9, <1>10, <1>12, <1>15, <1>16, <1>17, <1>18
        DEF Next, Start, Recover, Publish, Crashing

(* The author's own replica lays out its entries and reserves a place for  *)
(* each of their chunks before it reports them, through every crash.       *)
THEOREM AuthorInvHolds == ASSUME IsAuthor PROVE Spec => []AuthorInv
<1>1. AuthorInv /\ [Next]_vars => AuthorInv'
  BY NextAuthorInv
<1> QED BY <1>1, InitAuthorInv, PTL DEF Spec

(* What the invariant says of reading. *)
LEMMA AuthorReads ==
  ASSUME IsAuthor, AuthorInv
  PROVE  AckedIsReadable /\ ServesFeed /\ LogEndsAtFrontier /\ FrontierBehindLog
         /\ AuthorIsComplete
<1>1. /\ AuthorHolds(log, fnt, acked) /\ fnt.max_pos <= Len(log)
  BY DEF AuthorInv, AuthorHolds, LaidOut
<1>2. LogEndsAtFrontier /\ FrontierBehindLog /\ AuthorIsComplete
  BY <1>1 DEF AuthorInv, LogEndsAtFrontier, FrontierBehindLog, AuthorIsComplete, NoChains
<1>3. ASSUME pc = "idle" PROVE AckedIsReadable /\ ServesFeed
  <2>1. mem = fnt /\ Len(log) = mem.max_pos /\ mem.max_seq \in Nat /\ mem.max_pos \in Nat
    BY <1>1, <1>3, ReplicaAssumption DEF AuthorInv, AuthorHolds
  <2>2. PICK at : LaidOut(log, mem, at) /\ \A ack \in acked : Keeps(log, mem, at, ack)
    BY <1>1, <2>1 DEF AuthorHolds
  <2>3. AckedIsReadable
    BY <2>1, <2>2, ReadKept DEF AckedIsReadable
  <2>4. ASSUME NEW seq \in 1..mem.max_seq
        PROVE  LET pkt == GetEntry(seq)
                   cnt == IF seq \in DOMAIN mem.pend THEN mem.pend[seq].cnr
                                                     ELSE Chunks[pkt.body]
               IN /\ pkt # None
                  /\ pkt.kind = "entry" /\ pkt.seq = seq /\ pkt.signed
                  /\ ~IsAuthor => pkt = FeedEntry(seq)
                  /\ \A cnr \in 0..Chunks[pkt.body] :
                       GetChunk(seq, cnr) = IF cnr < cnt
                                              THEN ChunkPkt(pkt.body, cnr) ELSE None
    <3> DEFINE pkt == log[at[seq]+1]
    <3>1. /\ GetEntry(seq) = pkt
          /\ \A cnr \in 0..Chunks[pkt.body] :
               GetChunk(seq, cnr) = IF cnr < Count(mem, seq, pkt.body)
                                      THEN ChunkPkt(pkt.body, cnr) ELSE None
      BY <2>1, <2>2, ReadLaidOut
    <3>2. pkt.kind = "entry" /\ pkt.seq = seq /\ pkt.signed
      BY <2>2 DEF LaidOut
    <3>3. pkt # None
      BY <3>2 DEF None
    <3> HIDE DEF pkt
    <3> QED BY <3>1, <3>2, <3>3 DEF Count
  <2> QED BY <2>3, <2>4 DEF ServesFeed
<1> QED BY <1>2, <1>3 DEF AckedIsReadable, ServesFeed

(* The variables of the author, too, have the values they should. *)
LEMMA AuthorTypeOK ==
  ASSUME IsAuthor, AuthorInv, BoundsOK PROVE TypeOK
<1>1. \A cell \in AuthorCells : cell.kind \in CellKinds
  BY DEF AuthorCells, AuthorEntries, CellKinds
<1>2. \A i \in 1..Len(log) : log[i].kind \in CellKinds
  <2>1. \A i \in 1..Len(log) : log[i] \in AuthorCells
    BY ElementOfSeq DEF AuthorInv
  <2> QED BY <2>1, <1>1
<1>3. ASSUME NEW f, NEW acks, AuthorHolds(log, f, acks) \/ f = NewFrontier
      PROVE  f.max_seq \in 0..MaxSeq /\ f.max_pos \in Nat /\ DOMAIN f.pend \subseteq 1..f.max_seq
  BY <1>3, ReplicaAssumption DEF AuthorHolds, NoChains, NewFrontier
<1>4. AuthorHolds(log, fnt, acked)
  BY DEF AuthorInv
<1>5. AuthorHolds(log, mem, acked) \/ AuthorHolds(log, mem, acked \cup op) \/ mem = NewFrontier
  BY DEF AuthorInv, BoundsOK
<1> QED BY <1>2, <1>3, <1>4, <1>5 DEF TypeOK, BoundsOK, AuthorInv

-----------------------------------------------------------------------------
(***************************************************************************)
(* The results, for a follower whose packets are written whole and for the *)
(* author, whose own packets may be torn, too.                             *)
(***************************************************************************)
(* Whatever a call reported as stored, entry or chunk, is read ever after, *)
(* however often and wherever the process dies: the walk along the back    *)
(* pointers comes by it.                                                   *)
THEOREM AckedIsReadableHolds ==
  ASSUME WholePackets PROVE Spec => []AckedIsReadable
<1>1. CASE IsAuthor
  <2>1. AuthorInv => AckedIsReadable
    BY <1>1, AuthorReads
  <2> QED BY <1>1, <2>1, AuthorInvHolds, PTL
<1>2. CASE ~IsAuthor
  BY <1>2, FollowerAckedIsReadable DEF WholePackets, FollowerAssumption
<1> QED BY <1>1, <1>2

(* The readers hand out signed entries and chunks of their chains, and     *)
(* every chunk that is not listed as missing; never zeros, a back pointer, *)
(* a torn packet or a cell of a neighbouring entry.                        *)
THEOREM ServesFeedHolds ==
  ASSUME WholePackets PROVE Spec => []ServesFeed
<1>1. CASE IsAuthor
  <2>1. AuthorInv => ServesFeed
    BY <1>1, AuthorReads
  <2> QED BY <1>1, <2>1, AuthorInvHolds, PTL
<1>2. CASE ~IsAuthor
  BY <1>2, FollowerServesFeed DEF WholePackets, FollowerAssumption
<1> QED BY <1>1, <1>2

(* Between two calls the log ends at max_pos, as write and write48 assert. *)
THEOREM LogEndsAtFrontierHolds ==
  ASSUME WholePackets PROVE Spec => []LogEndsAtFrontier
<1>1. CASE IsAuthor
  <2>1. AuthorInv => LogEndsAtFrontier
    BY <1>1, AuthorReads
  <2> QED BY <1>1, <2>1, AuthorInvHolds, PTL
<1>2. CASE ~IsAuthor
  BY <1>2, FollowerLogEndsAtFrontier DEF WholePackets, FollowerAssumption
<1> QED BY <1>1, <1>2

(* The files are never shorter than the frontier says. *)
THEOREM FrontierBehindLogHolds ==
  ASSUME WholePackets PROVE Spec => []FrontierBehindLog
<1>1. CASE IsAuthor
  <2>1. AuthorInv => FrontierBehindLog
    BY <1>1, AuthorReads
  <2> QED BY <1>1, <2>1, AuthorInvHolds, PTL
<1>2. CASE ~IsAuthor
  BY <1>2, FollowerFrontierBehindLog DEF WholePackets, FollowerAssumption
<1> QED BY <1>1, <1>2

(* None of the author's own side chains is ever open. *)
THEOREM AuthorIsCompleteHolds == Spec => []AuthorIsComplete
<1>1. CASE IsAuthor
  <2>1. AuthorInv => AuthorIsComplete
    BY <1>1, AuthorReads
  <2> QED BY <1>1, <2>1, AuthorInvHolds, PTL
<1>2. CASE ~IsAuthor
  <2>1. AuthorIsComplete
    BY <1>2 DEF AuthorIsComplete
  <2> QED BY <2>1, PTL
<1> QED BY <1>1, <1>2

(* Whatever has happened, the variables have the values they should. *)
THEOREM TypeOKHolds ==
  ASSUME WholePackets PROVE Spec => []TypeOK
<1>1. CASE IsAuthor
  <2>1. AuthorInv /\ BoundsOK => TypeOK
    BY <1>1, AuthorTypeOK
  <2> QED BY <1>1, <2>1, AuthorInvHolds, BoundsHold, PTL
<1>2. CASE ~IsAuthor
  BY <1>2, FollowerTypeOK DEF WholePackets, FollowerAssumption
<1> QED BY <1>1, <1>2
=============================================================================
