----------------------------- MODULE ReplicaInv -----------------------------
(***************************************************************************)
(* The inductive invariant of a replica that follows a feed: where in the  *)
(* log every entry lies, what the frontier says of it, and what an         *)
(* interrupted call may have left behind the end that the frontier knows.  *)
(***************************************************************************)
EXTENDS Replica

CONSTANT Offset   \* Offset[s]: the position of entry s in a log of the feed

(* An entry takes its packet, its chunks and its back pointer. *)
ASSUME OffsetAssumption ==
  /\ Offset \in [1..MaxSeq+1 -> Nat]
  /\ Offset[1] = 0
  /\ \A seq \in 1..MaxSeq : Offset[seq+1] = Offset[seq] + Chunks[Feed[seq]] + 2

(* A replica that follows a feed; the file system writes a packet whole or *)
(* not at all.                                                             *)
FollowerAssumption == ~IsAuthor /\ "tornentry" \notin CrashPoints

(* What both kinds of replicas need: the author cuts off a torn packet.    *)
WholePackets == IsAuthor \/ "tornentry" \notin CrashPoints

LogCells == FeedEntries \cup FeedChunks \cup {Zero}
            \cup {Torn(pkt) : pkt \in FeedChunks}
            \cup {BackPtr(Offset[seq]) : seq \in 1..MaxSeq}

(* How many chunks of entry seq the frontier f counts as stored. *)
Got(f, seq) == IF seq \in DOMAIN f.pend THEN f.pend[seq].cnr
                                        ELSE Chunks[Feed[seq]]

(* The entry for an open side chain with cnr chunks stored. *)
ChainAt(seq, cnr) == [cnr  |-> cnr,
                      rem  |-> Chunks[Feed[seq]] - cnr,
                      hptr |-> ChunkPkt(Feed[seq], cnr),
                      pos  |-> Offset[seq] + 1 + cnr]

FrontierOK(f) ==
  /\ f.max_seq \in 0..MaxSeq
  /\ f.max_pos = Offset[f.max_seq + 1]
  /\ f.prev = FeedPrev(f.max_seq + 1)
  /\ DOMAIN f.pend \subseteq 1..f.max_seq
  /\ \A seq \in DOMAIN f.pend :
       /\ f.pend[seq].cnr \in 0..Chunks[Feed[seq]]-1
       /\ f.pend[seq] = ChainAt(seq, f.pend[seq].cnr)

(* The file holds what f says: packets, back pointers and stored chunks. *)
LogHolds(file, f) ==
  /\ f.max_pos <= Len(file)
  /\ \A seq \in 1..f.max_seq :
       /\ file[Offset[seq] + 1] = FeedEntry(seq)
       /\ file[Offset[seq + 1]] = BackPtr(Offset[seq])
       /\ \A cnr \in 0..Got(f, seq)-1 :
            file[Offset[seq] + 2 + cnr] = ChunkPkt(Feed[seq], cnr)

(* Behind the end f knows there is at most a part of the next entry. *)
TailOK(file, f) ==
  Len(file) > f.max_pos =>
    /\ f.max_seq < MaxSeq
    /\ file[f.max_pos + 1] = FeedEntry(f.max_seq + 1)
    /\ Len(file) <= Offset[f.max_seq + 2]

(* g is f with one more entry, or with one more chunk of one entry. *)
OneMoreEntry(f, g) ==
  /\ g.max_seq = f.max_seq + 1
  /\ Got(g, g.max_seq) = 0
  /\ \A seq \in 1..f.max_seq : Got(g, seq) = Got(f, seq)

OneMoreChunk(f, g) ==
  /\ g.max_seq = f.max_seq
  /\ g.max_pos = f.max_pos
  /\ \E seq \in 1..f.max_seq :
       /\ Got(f, seq) < Chunks[Feed[seq]]
       /\ \A t \in 1..f.max_seq :
            Got(g, t) = IF t = seq THEN Got(f, t) + 1 ELSE Got(f, t)

(* What holds of memory at each point of the code. *)
MemoryOK ==
  /\ pc \in {"down", "create", "failed", "recover", "idle",
             "persist", "persist_recovered"}
  /\ pc \in {"recover", "idle"} => mem = fnt
  /\ pc = "idle" => Len(log) = fnt.max_pos
  /\ pc \in {"persist", "persist_recovered"} =>
       /\ FrontierOK(mem)
       /\ LogHolds(log, mem)
       /\ Len(log) = mem.max_pos
       /\ OneMoreEntry(fnt, mem) \/ OneMoreChunk(fnt, mem)

(* As long as there is no frontier file, nothing else has happened. *)
FilesOK ==
  /\ "frontier" \in files => "log" \in files
  /\ "frontier" \notin files =>
       fnt = NewFrontier /\ log = <<>> /\ pc \in {"down", "create", "failed"}
  /\ pc = "create" => "log" \in files /\ "frontier" \notin files

IsDisk(file, f) ==
  /\ file \in Seq(LogCells)
  /\ FrontierOK(f)
  /\ LogHolds(file, f)
  /\ TailOK(file, f)

DiskOK == IsDisk(log, fnt)

(* What the type invariant needs besides IInv. *)
BoundsOK ==
  /\ files \subseteq {"log", "frontier"}
  /\ crashes \in 0..MaxCrashes
  /\ pc \in {"down", "create", "failed"} => mem = NewFrontier

IInv == DiskOK /\ MemoryOK /\ FilesOK

(***************************************************************************)
(* The layout of the log: each entry the frontier counts lies where the    *)
(* sizes of the entries before it put it, its back pointer leads there,    *)
(* and each chunk counted as stored lies in its slot, in whatever order    *)
(* chunks of different chains came in and wherever the process died.       *)
(***************************************************************************)
LogLayout == LogHolds(log, fnt) /\ (pc \in {"idle", "persist"} => LogHolds(log, mem))

-----------------------------------------------------------------------------
(***************************************************************************)
(* What reading rests on, for a follower and for the author.               *)
(***************************************************************************)
(* How many chunks of entry seq, with content body, f counts as stored. *)
Count(f, seq, body) == IF seq \in DOMAIN f.pend THEN f.pend[seq].cnr
                                                ELSE Chunks[body]

(* The file holds the entries that f counts, entry seq at at[seq]: its     *)
(* packet, its chunks, and the pointer back to where it starts.            *)
LaidOut(file, f, at) ==
  /\ \A seq \in 1..f.max_seq+1 : at[seq] \in 0..f.max_pos
  /\ at[1] = 0 /\ at[f.max_seq+1] = f.max_pos
  /\ f.max_pos <= Len(file)
  /\ \A seq \in 1..f.max_seq :
       LET pkt == file[at[seq]+1] IN
       /\ pkt.kind = "entry" /\ pkt.seq = seq /\ pkt.signed /\ pkt.body \in Body
       /\ at[seq+1] = at[seq] + Chunks[pkt.body] + 2
       /\ file[at[seq+1]] = BackPtr(at[seq])
       /\ Count(f, seq, pkt.body) \in 0..Chunks[pkt.body]
       /\ \A cnr \in 0..Count(f, seq, pkt.body)-1 :
            file[at[seq]+2+cnr] = ChunkPkt(pkt.body, cnr)

(* An entry or a chunk that was reported as stored is among them. *)
Keeps(file, f, at, ack) ==
  /\ ack[1] \in 1..f.max_seq
  /\ LET pkt == file[at[ack[1]]+1] IN
     \/ ack[2] = pkt
     \/ \E cnr \in 0..Count(f, ack[1], pkt.body)-1 : ack[2] = ChunkPkt(pkt.body, cnr)

(* The same for a follower, of which IInv knows what the log holds. *)
Held(f, ack) ==
  /\ ack[1] \in 1..f.max_seq
  /\ \/ ack[2] = FeedEntry(ack[1])
     \/ \E cnr \in 0..Got(f, ack[1])-1 : ack[2] = ChunkPkt(Feed[ack[1]], cnr)

AckedInv ==
  /\ \A ack \in acked : Held(fnt, ack)
  /\ pc = "persist" => \A ack \in op : Held(mem, ack)

-----------------------------------------------------------------------------
(***************************************************************************)
(* The inductive invariant of the author's own replica.  What its entries  *)
(* contain, and so where they lie, is decided as they are written; an      *)
(* entry starts where the back pointer of the one before it ends.          *)
(***************************************************************************)
AuthorEntries == [kind : {"entry"}, seq : Nat, prev : {Genesis} \cup (Nat \X Body),
                  body : Body, signed : {TRUE}]
AuthorCells == AuthorEntries
               \cup [kind : {"torn"}, of : AuthorEntries]
               \cup [kind : {"chunk"}, body : Body, cnr : Nat]
               \cup [kind : {"ptr"}, pos : Nat]

Ends(file) == {0} \cup {i \in 1..Len(file) : file[i].kind = "ptr"}

NoChains == [seq \in {} |-> 0]

(* The file holds the entries f counts, whole, and the calls in acks wrote *)
(* nothing else.                                                           *)
AuthorHolds(file, f, acks) ==
  /\ f.max_seq \in 0..MaxSeq /\ f.max_pos \in Nat
  /\ f.prev \in {Genesis} \cup (Nat \X Body)
  /\ f.pend = NoChains
  /\ \E at \in [1..f.max_seq+1 -> Ends(file)] :
       /\ LaidOut(file, f, at)
       /\ \A ack \in acks : Keeps(file, f, at, ack)

AuthorInv ==
  /\ log \in Seq(AuthorCells)
  /\ AuthorHolds(log, fnt, acked)
  /\ mem.pend = NoChains
  /\ pc \in {"down", "create", "failed", "recover", "idle", "persist"}
  /\ "frontier" \in files => "log" \in files
  /\ pc = "create" => "log" \in files /\ "frontier" \notin files
  /\ "frontier" \notin files =>
       fnt = NewFrontier /\ acked = {} /\ pc \in {"down", "create", "failed"}
  /\ pc \in {"recover", "idle"} => mem = fnt
  /\ pc = "idle" => Len(log) = fnt.max_pos
  /\ pc = "persist" => /\ AuthorHolds(log, mem, acked \cup op)
                       /\ Len(log) = mem.max_pos
=============================================================================
