------------------------------ MODULE Replica -------------------------------
(***************************************************************************)
(* One replica of one append-only feed on disk: the class Replica of       *)
(* py/simplepub/simplepub/replica.py.                                      *)
(*                                                                         *)
(* The directory of a feed holds two files.  log.bin holds, for each       *)
(* entry, the signed packet, room for its whole side chain (zeros until a  *)
(* chunk arrives) and a pointer back to the start of the entry;            *)
(* frontier.bin holds what __init__ needs to go on: max_seq, max_pos, the  *)
(* hash of the last entry and the open side chains.  Every update writes   *)
(* log.bin first and then replaces frontier.bin, so the process may die    *)
(* with the log ahead of the frontier; __init__ then catches up (or cuts   *)
(* the log, for the author of the feed).                                   *)
(*                                                                         *)
(* The log is a sequence of cells: a packet, a chunk, 120 zero bytes, or a *)
(* back pointer.  A file position is a number of cells.                    *)
(***************************************************************************)
EXTENDS Integers, Sequences, FiniteSets

CONSTANTS
  Body,         \* the contents an entry may have
  Chunks,       \* Chunks[b]: how many side chain packets content b takes
  Feed,         \* what the author has published: a sequence of contents
  IsAuthor,     \* the is_author parameter of __init__
  CrashPoints,  \* where the process may die, a subset of AllCrashPoints
  MaxSeq,       \* bound: entries of the feed
  MaxCrashes    \* bound: how often the process dies

AllCrashPoints == {"create", "append", "tornentry", "chunk", "persist",
                   "recover", "idle"}

ASSUME ReplicaAssumption ==
  /\ MaxSeq \in Nat
  /\ MaxCrashes \in Nat
  /\ Chunks \in [Body -> Nat]
  /\ Feed \in [1..MaxSeq -> Body]
  /\ IsAuthor \in BOOLEAN
  /\ CrashPoints \subseteq AllCrashPoints

VARIABLES
  files,    \* the files that exist, a subset of {"log", "frontier"}
  log,      \* the content of log.bin
  fnt,      \* the content of frontier.bin
  mem,      \* self.state
  pc,       \* where the process is
  op,       \* what the running call will have stored: <<seq, packet>> pairs
  acked,    \* history: what calls that returned have stored
  crashes   \* history: how often the process has died

vars == <<files, log, fnt, mem, pc, op, acked, crashes>>

-----------------------------------------------------------------------------
(***************************************************************************)
(* Packets and cells.  Hashes are injective: the hash of an entry is the   *)
(* pair of what was hashed, the hash of a chunk is the chunk's own name.   *)
(***************************************************************************)
Genesis == <<0, "fid">>                      \* fid[:20]
Digest(seq, body) == <<seq, body>>           \* sha256(nam + pkt)[:20]

EntryPkt(seq, prev, body, signed) ==
  [kind |-> "entry", seq |-> seq, prev |-> prev, body |-> body,
   signed |-> signed]
ChunkPkt(body, cnr) == [kind |-> "chunk", body |-> body, cnr |-> cnr]
Zero == [kind |-> "zero"]
BackPtr(pos) == [kind |-> "ptr", pos |-> pos]
(* A packet of which only the first bytes, the dmx among them, were written. *)
Torn(pkt) == [kind |-> "torn", of |-> pkt]

FeedPrev(seq) == IF seq = 1 THEN Genesis ELSE Digest(seq - 1, Feed[seq - 1])
FeedEntry(seq) == EntryPkt(seq, FeedPrev(seq), Feed[seq], TRUE)

FeedEntries == {FeedEntry(seq) : seq \in 1..MaxSeq}
FeedChunks == UNION {{ChunkPkt(Feed[seq], cnr) : cnr \in 0..Chunks[Feed[seq]]-1} :
                       seq \in 1..MaxSeq}
(* Packets with a right dmx that the author did not sign, and chunks of    *)
(* contents the feed may not hold.                                         *)
Noise == {EntryPkt(seq, FeedPrev(seq), body, FALSE) :
            seq \in 1..MaxSeq, body \in Body}
         \cup {ChunkPkt(body, cnr) : body \in Body, cnr \in {0, 1}}

(* Nobody but the author can sign, so no packet that arrives can be new to *)
(* the author.                                                             *)
Wire == IF IsAuthor THEN {} ELSE FeedEntries \cup FeedChunks \cup Noise

-----------------------------------------------------------------------------
(***************************************************************************)
(* Files.                                                                  *)
(***************************************************************************)
NewFrontier == [max_seq |-> 0, max_pos |-> 0, prev |-> Genesis,
                pend |-> [seq \in {} |-> 0]]

(* f.seek(pos); f.write(cells), which may go past the end of the file.     *)
Overwrite(file, pos, cells) ==
  [i \in 1..(IF pos + Len(cells) > Len(file) THEN pos + Len(cells)
                                              ELSE Len(file))
     |-> IF i > pos /\ i <= pos + Len(cells) THEN cells[i - pos] ELSE file[i]]

(* What follows the packet of an entry that starts at pos.                 *)
EntryTail(body, pos) ==
  [i \in 1..Chunks[body]+1 |-> IF i <= Chunks[body] THEN Zero ELSE BackPtr(pos)]

(* The side chain of content b as its author writes it.                    *)
SideChain(body) == [i \in 1..Chunks[body] |-> ChunkPkt(body, i - 1)]

(* Mutants: the new chain is filed under the next sequence number; its     *)
(* first chunk goes where the entry is.                                    *)
OpenChainAs(pend, s, body, pos) ==
  IF Chunks[body] = 0 THEN pend
  ELSE [t \in DOMAIN pend \cup {s} |->
          IF t = s THEN [cnr |-> 0, rem |-> Chunks[body],
                         hptr |-> ChunkPkt(body, 0), pos |-> pos]
          ELSE pend[t]]
OpenChainUnderNext(pend, seq, body, pos) == OpenChainAs(pend, seq + 1, body, pos + 1)
OpenChainAtEntry(pend, seq, body, pos) == OpenChainAs(pend, seq, body, pos)

(***************************************************************************)
(* The open side chains after an entry at pos was added: [cnr, rem, hptr,  *)
(* pos] for each.                                                          *)
(***************************************************************************)
OpenChain(pend, seq, body, pos) ==
  IF Chunks[body] = 0 THEN pend
  ELSE [s \in DOMAIN pend \cup {seq} |->
          IF s = seq
          THEN [cnr |-> 0, rem |-> Chunks[body], hptr |-> ChunkPkt(body, 0),
                pos |-> pos + 1]
          ELSE pend[s]]

CloseChain(pend, seq) == [s \in DOMAIN pend \ {seq} |-> pend[s]]

(* Mutant: the position is not advanced. *)
NextChunkSamePlace(chain, pkt) ==
  [cnr  |-> chain.cnr + 1,
   rem  |-> chain.rem - 1,
   hptr |-> ChunkPkt(pkt.body, pkt.cnr + 1),
   pos  |-> chain.pos]

(* The chain after one more chunk; pkt[-20:] names the next one.           *)
NextChunk(chain, pkt) ==
  [cnr  |-> chain.cnr + 1,
   rem  |-> chain.rem - 1,
   hptr |-> ChunkPkt(pkt.body, pkt.cnr + 1),
   pos  |-> chain.pos + 1]

(* The dmx names the feed, the sequence number and the hash of the         *)
(* previous entry; it is in the first 7 bytes of a packet.                 *)
DmxFits(pkt) == pkt.seq = mem.max_seq + 1 /\ pkt.prev = mem.prev

Frontier(seq, pos, prev, pend) ==
  [max_seq |-> seq, max_pos |-> pos, prev |-> prev, pend |-> pend]

-----------------------------------------------------------------------------
(***************************************************************************)
(* Starting: __init__.                                                     *)
(***************************************************************************)
CreateLog ==
  /\ pc = "down"
  /\ "log" \notin files
  /\ files' = files \cup {"log"}
  /\ pc' = "create"
  /\ UNCHANGED <<log, fnt, mem, op, acked, crashes>>

CreateFrontier ==
  /\ pc = "create"
  /\ files' = files \cup {"frontier"}
  /\ fnt' = NewFrontier
  /\ mem' = NewFrontier
  /\ pc' = "recover"
  /\ UNCHANGED <<log, op, acked, crashes>>

LoadFrontier ==
  /\ pc = "down"
  /\ "log" \in files
  /\ IF "frontier" \in files THEN mem' = fnt /\ pc' = "recover"
                             ELSE UNCHANGED mem /\ pc' = "failed"
  /\ UNCHANGED <<files, log, fnt, op, acked, crashes>>

(***************************************************************************)
(* The loop of __init__ over a log that is longer than the frontier says.  *)
(***************************************************************************)
LogIsFarAhead == Len(log) > mem.max_pos + 1       \* mutant: off by one
LogIsAhead == Len(log) > mem.max_pos
NextCell == log[mem.max_pos + 1]
IsEntryHead(cell) ==
  \/ cell.kind = "entry" /\ DmxFits(cell)
  \/ cell.kind = "torn" /\ cell.of.kind = "entry" /\ DmxFits(cell.of)

RecoverDone ==
  /\ pc = "recover"
  /\ ~LogIsAhead
  /\ pc' = "idle"
  /\ UNCHANGED <<files, log, fnt, mem, op, acked, crashes>>

(* Mutant: what lies behind the frontier stays in the file. *)
RecoverIgnore ==
  /\ pc = "recover"
  /\ LogIsAhead
  /\ IsAuthor \/ ~IsEntryHead(NextCell)
  /\ pc' = "idle"
  /\ UNCHANGED <<files, log, fnt, mem, op, acked, crashes>>

RecoverTruncate ==
  /\ pc = "recover"
  /\ LogIsAhead
  /\ IsAuthor \/ ~IsEntryHead(NextCell)
  /\ log' = SubSeq(log, 1, mem.max_pos)
  /\ pc' = "idle"
  /\ UNCHANGED <<files, fnt, mem, op, acked, crashes>>

(* Mutants of the catch-up: no back pointer is appended; the chain of the  *)
(* entry is not opened; the hash of the entry is not kept; the author      *)
(* catches up too.                                                         *)
RecoverAs(author, tail, open, hash) ==
  /\ pc = "recover"
  /\ LogIsAhead
  /\ author \/ ~IsAuthor
  /\ IsEntryHead(NextCell)
  /\ NextCell.kind = "entry"
  /\ log' = Overwrite(log, mem.max_pos + 1, tail)
  /\ mem' = Frontier(mem.max_seq + 1, mem.max_pos + Chunks[NextCell.body] + 2, hash,
               IF open
               THEN OpenChain(mem.pend, mem.max_seq + 1, NextCell.body, mem.max_pos)
               ELSE mem.pend)
  /\ pc' = "persist_recovered"
  /\ UNCHANGED <<files, fnt, op, acked, crashes>>
NextHash == Digest(mem.max_seq + 1, NextCell.body)
NextTail == EntryTail(NextCell.body, mem.max_pos)
RecoverWithoutPtr ==
  RecoverAs(FALSE, SubSeq(NextTail, 1, Len(NextTail) - 1), TRUE, NextHash)
RecoverWithoutChain == RecoverAs(FALSE, NextTail, FALSE, NextHash)
RecoverWithoutHash == RecoverAs(FALSE, NextTail, TRUE, mem.prev)
RecoverAsAuthor == RecoverAs(TRUE, NextTail, TRUE, NextHash)

RecoverEntry ==
  /\ pc = "recover"
  /\ LogIsAhead
  /\ ~IsAuthor
  /\ IsEntryHead(NextCell)
  /\ LET seq  == mem.max_seq + 1
         pkt  == IF NextCell.kind = "torn" THEN NextCell.of ELSE NextCell
         tail == EntryTail(pkt.body, mem.max_pos)
         hash == IF NextCell.kind = "torn" THEN <<seq, "torn">>
                                           ELSE Digest(seq, pkt.body)
     IN /\ log' = Overwrite(log, mem.max_pos + 1, tail)
        /\ mem' = Frontier(seq, mem.max_pos + 1 + Len(tail), hash,
                           OpenChain(mem.pend, seq, pkt.body, mem.max_pos))
  /\ pc' = "persist_recovered"
  /\ UNCHANGED <<files, fnt, op, acked, crashes>>

(***************************************************************************)
(* _persist_frontier: frontier.tmp is written and renamed over             *)
(* frontier.bin; the rename is atomic and a stale frontier.tmp is never    *)
(* read.                                                                   *)
(***************************************************************************)
PersistRecovered ==
  /\ pc = "persist_recovered"
  /\ fnt' = mem
  /\ pc' = "recover"
  /\ UNCHANGED <<files, log, mem, op, acked, crashes>>

PersistAndReturn ==
  /\ pc = "persist"
  /\ fnt' = mem
  /\ pc' = "idle"
  /\ acked' = acked \cup op
  /\ op' = {}
  /\ UNCHANGED <<files, log, mem, crashes>>

-----------------------------------------------------------------------------
(***************************************************************************)
(* ingest_entry_pkt, up to the point where the log has grown and           *)
(* self.state is updated.  A packet that fails a test changes nothing.     *)
(***************************************************************************)
MayIngestEntry(pkt) ==
  /\ pc = "idle"
  /\ pkt.kind = "entry"
  /\ DmxFits(pkt)
  /\ pkt.signed

EntryCells(pkt) == <<pkt>> \o EntryTail(pkt.body, mem.max_pos)

IngestEntry(pkt) ==
  /\ MayIngestEntry(pkt)
  /\ log' = log \o EntryCells(pkt)
  /\ mem' = Frontier(pkt.seq, mem.max_pos + Len(EntryCells(pkt)),
                     Digest(pkt.seq, pkt.body),
                     OpenChain(mem.pend, pkt.seq, pkt.body, mem.max_pos))
  /\ op' = {<<pkt.seq, pkt>>}
  /\ pc' = "persist"
  /\ UNCHANGED <<files, fnt, acked, crashes>>

(* Mutant: the hash of the packet is not compared. *)
MayIngestAnyChunk(pkt, seq) ==
  /\ pc = "idle"
  /\ pkt.kind = "chunk"
  /\ seq \in DOMAIN mem.pend

(***************************************************************************)
(* ingest_chunk_pkt: only the next packet of an open chain is taken; it is *)
(* written in place.                                                       *)
(***************************************************************************)
MayIngestChunk(pkt, seq) ==
  /\ pc = "idle"
  /\ pkt.kind = "chunk"
  /\ seq \in DOMAIN mem.pend
  /\ mem.pend[seq].hptr = pkt

(* Mutant: the file is opened for appending, so the chunk goes to its end. *)
IngestChunkAtEnd(pkt, seq) ==
  /\ MayIngestChunk(pkt, seq)
  /\ LET chain == mem.pend[seq]
     IN /\ log' = Append(log, pkt)
        /\ mem' = Frontier(mem.max_seq, mem.max_pos, mem.prev,
                     IF chain.rem <= 1 THEN CloseChain(mem.pend, seq)
                     ELSE [mem.pend EXCEPT ![seq] = NextChunk(chain, pkt)])
  /\ op' = {<<seq, pkt>>}
  /\ pc' = "persist"
  /\ UNCHANGED <<files, fnt, acked, crashes>>

IngestChunk(pkt, seq) ==
  /\ MayIngestChunk(pkt, seq)
  /\ LET chain == mem.pend[seq]
     IN /\ log' = Overwrite(log, chain.pos, <<pkt>>)
        /\ mem' = Frontier(mem.max_seq, mem.max_pos, mem.prev,
                     IF chain.rem <= 1 THEN CloseChain(mem.pend, seq)
                     ELSE [mem.pend EXCEPT ![seq] = NextChunk(chain, pkt)])
  /\ op' = {<<seq, pkt>>}
  /\ pc' = "persist"
  /\ UNCHANGED <<files, fnt, acked, crashes>>

(***************************************************************************)
(* write: the author appends an entry with its whole side chain.           *)
(***************************************************************************)
WrittenCells(pkt) ==
  <<pkt>> \o SideChain(pkt.body) \o <<BackPtr(mem.max_pos)>>
NewEntry(body) == EntryPkt(mem.max_seq + 1, mem.prev, body, TRUE)

MayWrite ==
  /\ pc = "idle"
  /\ IsAuthor
  /\ mem.max_seq < MaxSeq
  /\ Len(log) = mem.max_pos                  \* assert

(* Mutants: the side chain is not counted; the size of the whole file is   *)
(* added to the old end.                                                   *)
WriteUpTo(body, pos) ==
  /\ MayWrite
  /\ LET pkt == NewEntry(body)
     IN /\ log' = log \o WrittenCells(pkt)
        /\ mem' = Frontier(pkt.seq, pos, Digest(pkt.seq, body), mem.pend)
        /\ op' = {<<pkt.seq, pkt>>}
                 \cup {<<pkt.seq, ChunkPkt(body, cnr)>> :
                         cnr \in 0..Chunks[body]-1}
  /\ pc' = "persist"
  /\ UNCHANGED <<files, fnt, acked, crashes>>
WriteUncounted(body) == WriteUpTo(body, mem.max_pos + 2)
WriteCountedTwice(body) ==
  WriteUpTo(body, mem.max_pos + Len(log \o WrittenCells(NewEntry(body))))

Write(body) ==
  /\ MayWrite
  /\ LET pkt == NewEntry(body)
     IN /\ log' = log \o WrittenCells(pkt)
        /\ mem' = Frontier(pkt.seq, mem.max_pos + Len(WrittenCells(pkt)),
                           Digest(pkt.seq, body), mem.pend)
        /\ op' = {<<pkt.seq, pkt>>}
                 \cup {<<pkt.seq, ChunkPkt(body, cnr)>> :
                         cnr \in 0..Chunks[body]-1}
  /\ pc' = "persist"
  /\ UNCHANGED <<files, fnt, acked, crashes>>

(* write48: as write, without a side chain; the new max_pos is computed    *)
(* from the length of this entry alone.                                    *)
Write48(body) ==
  /\ MayWrite
  /\ Chunks[body] = 0
  /\ LET pkt == NewEntry(body)
     IN /\ log' = log \o <<pkt, BackPtr(mem.max_pos)>>
        /\ mem' = Frontier(pkt.seq, 2, Digest(pkt.seq, body), mem.pend)
        /\ op' = {<<pkt.seq, pkt>>}
  /\ pc' = "persist"
  /\ UNCHANGED <<files, fnt, acked, crashes>>

-----------------------------------------------------------------------------
(***************************************************************************)
(* The process dies: between two calls, after the log was written and      *)
(* before the frontier was, or inside a write to the log.                  *)
(***************************************************************************)
Die ==
  /\ crashes < MaxCrashes
  /\ crashes' = crashes + 1
  /\ pc' = "down"
  /\ mem' = NewFrontier                      \* memory is gone
  /\ op' = {}
  /\ UNCHANGED <<files, fnt, acked>>

Crash ==
  /\ \/ pc = "create" /\ "create" \in CrashPoints
     \/ pc = "idle" /\ "idle" \in CrashPoints
     \/ pc = "persist" /\ "persist" \in CrashPoints
     \/ pc \in {"recover", "persist_recovered"} /\ "recover" \in CrashPoints
  /\ Die
  /\ UNCHANGED log

(* The log got a part of an appended entry: some of its cells ...          *)
CrashInAppend ==
  /\ "append" \in CrashPoints
  /\ Die
  /\ \/ \E pkt \in Wire :
          /\ MayIngestEntry(pkt)
          /\ \E n \in 0..Len(EntryCells(pkt))-1 :
               log' = log \o SubSeq(EntryCells(pkt), 1, n)
     \/ \E body \in Body :
          /\ MayWrite
          /\ \E n \in 0..Len(WrittenCells(NewEntry(body)))-1 :
               log' = log \o SubSeq(WrittenCells(NewEntry(body)), 1, n)

(* ... or a part of the packet itself.                                     *)
CrashInEntry ==
  /\ "tornentry" \in CrashPoints
  /\ Die
  /\ \/ \E pkt \in Wire : MayIngestEntry(pkt) /\ log' = Append(log, Torn(pkt))
     \/ \E body \in Body :
          /\ MayWrite
          /\ log' = Append(log, Torn(NewEntry(body)))

CrashInChunk ==
  /\ "chunk" \in CrashPoints
  /\ Die
  /\ \E pkt \in Wire, seq \in DOMAIN mem.pend :
       /\ MayIngestChunk(pkt, seq)
       /\ log' = Overwrite(log, mem.pend[seq].pos, <<Torn(pkt)>>)

CrashInRecovery ==
  /\ "recover" \in CrashPoints
  /\ Die
  /\ pc = "recover"
  /\ LogIsAhead
  /\ ~IsAuthor
  /\ IsEntryHead(NextCell)
  /\ NextCell.kind = "entry"
  /\ LET tail == EntryTail(NextCell.body, mem.max_pos)
     IN \E n \in 0..Len(tail)-1 :
          log' = Overwrite(log, mem.max_pos + 1, SubSeq(tail, 1, n))

-----------------------------------------------------------------------------
(***************************************************************************)
(* Reading: get_entry_pkt, get_chunk_pkt.                                  *)
(*                                                                         *)
(* Hop[n] is the position reached from the end of the log by following n   *)
(* back pointers, or NoPos where the code would not find a pointer.           *)
(***************************************************************************)
None == [kind |-> "none"]
NoPos == -1

PtrAt(pos) ==
  IF pos \in 1..Len(log) /\ log[pos].kind = "ptr" THEN log[pos].pos ELSE NoPos

Hop[n \in Nat] == IF n = 0 THEN Len(log) ELSE PtrAt(Hop[n - 1])

CellAt(pos) == IF pos \in 0..Len(log)-1 THEN log[pos + 1] ELSE None

GetEntry(seq) ==
  IF seq \in 1..mem.max_seq THEN CellAt(Hop[mem.max_seq - seq + 1]) ELSE None

GetChunk(seq, cnr) ==
  IF ~(seq \in 1..mem.max_seq) THEN None
  ELSE IF seq \in DOMAIN mem.pend /\ cnr >= mem.pend[seq].cnr THEN None
  ELSE LET lim == Hop[mem.max_seq - seq]
           pos == Hop[mem.max_seq - seq + 1]
       IN IF lim = NoPos \/ pos = NoPos THEN None
          ELSE IF pos + cnr + 1 > lim - 2 THEN None
          ELSE CellAt(pos + cnr + 1)

-----------------------------------------------------------------------------
Init ==
  /\ files = {}
  /\ log = <<>>
  /\ fnt = NewFrontier
  /\ mem = NewFrontier
  /\ pc = "down"
  /\ op = {}
  /\ acked = {}
  /\ crashes = 0

Start == CreateLog \/ CreateFrontier \/ LoadFrontier
Recover == RecoverDone \/ RecoverTruncate \/ RecoverEntry \/ PersistRecovered
Ingest == \E pkt \in Wire :
            \/ IngestEntry(pkt)
            \/ \E seq \in 1..MaxSeq : IngestChunk(pkt, seq)
Publish == \E body \in Body : Write(body)
Crashing == \/ Crash
            \/ CrashInAppend
            \/ CrashInEntry
            \/ CrashInChunk
            \/ CrashInRecovery

Next == \/ Start
        \/ Recover
        \/ Ingest
        \/ Publish
        \/ PersistAndReturn
        \/ Crashing

Spec == Init /\ [][Next]_vars

(* An application that publishes with write48, too. *)
Spec48 == Init /\ [][Next \/ \E body \in Body : Write48(body)]_vars

(***************************************************************************)
(* The process is restarted when it died (start.sh) and runs; the node     *)
(* asks for what is missing again and again, so every packet of the feed   *)
(* keeps arriving.  Nothing obliges the process to die.                    *)
(***************************************************************************)
Fairness ==
  /\ WF_vars(Start)
  /\ WF_vars(Recover)
  /\ WF_vars(PersistAndReturn)
  /\ WF_vars(\E pkt \in FeedEntries : IngestEntry(pkt))
  /\ \A seq \in 1..MaxSeq :
       WF_vars(\E pkt \in FeedChunks : IngestChunk(pkt, seq))

FairSpec == Spec /\ Fairness

-----------------------------------------------------------------------------
(* The values the variables may have.                                      *)
CellKinds == {"entry", "chunk", "zero", "ptr", "torn"}
TypeOK ==
  /\ files \subseteq {"log", "frontier"}
  /\ \A i \in 1..Len(log) : log[i].kind \in CellKinds
  /\ \A f \in {fnt, mem} : /\ f.max_seq \in 0..MaxSeq
                          /\ f.max_pos \in Nat
                          /\ DOMAIN f.pend \subseteq 1..f.max_seq
  /\ pc \in {"down", "create", "recover", "persist_recovered", "idle",
             "persist", "failed"}
  /\ crashes \in 0..MaxCrashes

(***************************************************************************)
(* Whatever a call reported as stored, an entry or a chunk, is returned by *)
(* get_entry_pkt and get_chunk_pkt ever after: the walk along the back     *)
(* pointers finds it, across crashes at every point and catch-ups of the   *)
(* frontier.  For an author this also says that no two entries with one    *)
(* sequence number were ever published (the log does not fork).            *)
(***************************************************************************)
Stored(seq, pkt) == IF pkt.kind = "entry" THEN GetEntry(seq) = pkt
                                          ELSE GetChunk(seq, pkt.cnr) = pkt
AckedIsReadable ==
  pc = "idle" => \A ack \in acked : Stored(ack[1], ack[2])

(***************************************************************************)
(* get_entry_pkt and get_chunk_pkt return nothing but signed entries of    *)
(* the feed and chunks of their side chains, and every chunk that          *)
(* get_open_chains does not list as missing: never zeros of a chunk that   *)
(* has not arrived, a back pointer, a half-written packet or a cell of a   *)
(* neighbouring entry.                                                     *)
(***************************************************************************)
ServesFeed ==
  pc = "idle" =>
    \A seq \in 1..mem.max_seq :
      LET pkt == GetEntry(seq)
          cnt == IF seq \in DOMAIN mem.pend THEN mem.pend[seq].cnr
                                            ELSE Chunks[pkt.body]
      IN /\ pkt # None
         /\ pkt.kind = "entry" /\ pkt.seq = seq /\ pkt.signed
         /\ ~IsAuthor => pkt = FeedEntry(seq)
         /\ \A cnr \in 0..Chunks[pkt.body] :
              GetChunk(seq, cnr) = IF cnr < cnt THEN ChunkPkt(pkt.body, cnr)
                                               ELSE None

(***************************************************************************)
(* Between two calls the log ends where the frontier says it ends: the     *)
(* assertion at the head of write and write48, on which the position of    *)
(* the next entry and its back pointer rest.                               *)
(***************************************************************************)
LogEndsAtFrontier == pc = "idle" => Len(log) = mem.max_pos

(***************************************************************************)
(* The frontier on disk never claims more of the log than was written: log *)
(* first, frontier second, in every method and in the catch-up.            *)
(***************************************************************************)
FrontierBehindLog == fnt.max_pos <= Len(log)

(* The author holds its own side chains completely: none is ever open.     *)
AuthorIsComplete == IsAuthor => mem.pend = [seq \in {} |-> 0]

(***************************************************************************)
(* A crash leaves the replica stuck nowhere but between the creation of    *)
(* log.bin and that of frontier.bin, after which it never starts again     *)
(* (replica.py:42; a run of Completes leaves "create" out of CrashPoints). *)
(* When the packets of the feed keep arriving, the replica ends up with    *)
(* every entry and every chunk.                                            *)
(***************************************************************************)
Completes ==
  <>[](pc = "idle" /\ mem.max_seq = MaxSeq /\ DOMAIN mem.pend = {})

(***************************************************************************)
(* The state on disk implements the abstract store.                        *)
(***************************************************************************)
DurableGot ==
  [seq \in 1..MaxSeq |->
     IF seq > fnt.max_seq THEN 0
     ELSE IF seq \in DOMAIN fnt.pend THEN fnt.pend[seq].cnr
     ELSE Chunks[Feed[seq]]]

(* In the abstract store an entry without a chunk of its own chain has     *)
(* got = 0, and so has one that is not stored yet.                         *)
Store == INSTANCE FeedStore WITH
           Seqs     <- 1..MaxSeq,
           ChainLen <- [seq \in 1..MaxSeq |-> Chunks[Feed[seq]]],
           have     <- fnt.max_seq,
           got      <- DurableGot

ImplementsStore == Store!Spec
=============================================================================
