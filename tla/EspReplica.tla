----------------------------- MODULE EspReplica -----------------------------
(***************************************************************************)
(* The replica of a feed on the flash of an ESP32 node (replica.cpp of     *)
(* esp32/loramesh-TBeam): the log, and the frontier, which is kept in      *)
(* memory and in frt.bin, written through tmp.bin.  The power may fail at  *)
(* any write.                                                              *)
(***************************************************************************)
EXTENDS Integers, Sequences, FiniteSets, SequencesExt, FiniteSetsExt, Functions

CONSTANT
  Log   \* the feeds of the mesh, by number: for every entry its side chain,
        \* a sequence of contents

Feed == DOMAIN Log

ASSUME LogAssumption ==
  /\ Feed \subseteq Nat /\ IsFiniteSet(Feed)
  /\ \A f \in Feed : Log[f] \in Seq(Seq(Nat))

-----------------------------------------------------------------------------
(***************************************************************************)
(* Packets.  A chunk ends in the hash of the next one: it is the rest of   *)
(* its chain, and two chains that end alike share chunks.                  *)
(***************************************************************************)
Entry(f, s) == [typ |-> "e", fid |-> f, seq |-> s]
Chunk(rest) == [typ |-> "c", rest |-> rest]
Rests(chain) == {SubSeq(chain, i, Len(chain)) : i \in DOMAIN chain}
Packet ==
  UNION {UNION {{Entry(f, s)} \union {Chunk(r) : r \in Rests(Log[f][s])} :
                  s \in DOMAIN Log[f]} : f \in Feed}

-----------------------------------------------------------------------------
(***************************************************************************)
(* The replica of a feed.  A file that may be missing is a set of at most  *)
(* one content; Torn is tmp.bin after open and before close.  log.bin is a *)
(* set of items at their byte offsets.                                     *)
(***************************************************************************)
EntryLen == 120
PtrLen == 4

NoEntries == [seq |-> 0, pos |-> 0, pend |-> <<>>]
Torn == [seq |-> -1, pos |-> 0, pend |-> <<>>]
NewReplica == [mem |-> NoEntries, log |-> {}, frt |-> {}, tmp |-> {}]

Item(at, len, what) == [at |-> at, len |-> len, what |-> what]
Write(log, item) ==
  {x \in log : x.at + x.len <= item.at \/ item.at + item.len <= x.at}
    \union {item}

(* _persist_frontier, at its end, and the states of the flash on the way   *)
PersistedNothing(r, log, frontier) ==     \* a defect
  [r EXCEPT !.mem = frontier, !.log = log]
Persisted(r, log, frontier) ==
  [mem |-> frontier, log |-> log, frt |-> {frontier}, tmp |-> {}]
Midway(r, done) ==
  {[r EXCEPT !.log = done.log, !.tmp = t] : t \in {{}, {Torn}, done.frt}}

(* ingest_entry_pkt: the log is opened "r+b" and written from its start:   *)
(* the entry, room for its chain, the offset of the entry.                 *)
IngestEntry(r, s, chain) ==
  LET m == r.mem
      end == EntryLen * (Len(chain) + 1)
  IN Persisted(r,
       Write(FoldLeft(LAMBDA log, i :
                        Write(log, Item(EntryLen * i, EntryLen, <<s, i>>)),
                      r.log, [i \in 1..Len(chain)+1 |-> i - 1]),
             Item(end, PtrLen, <<m.pos>>)),
       [seq |-> s,
        pos |-> m.pos + end + PtrLen,
        pend |-> IF chain = <<>> THEN m.pend
                 ELSE [i \in DOMAIN m.pend \union {s} |->
                         IF i = s THEN [cnr |-> 0, rest |-> chain,
                                        pos |-> m.pos + EntryLen]
                                  ELSE m.pend[i]]])

(* ingest_chunk_pkt, for a chunk the replica waits for in the chain of s   *)
Expects(r, rest, s) == s \in DOMAIN r.mem.pend /\ r.mem.pend[s].rest = rest
IngestChunk(r, rest, s) ==
  LET p == r.mem.pend[s] IN
  Persisted(r,
    Write(r.log, Item(p.pos, EntryLen, <<s, p.cnr + 1>>)),
    [r.mem EXCEPT
       !.pend = IF Len(rest) = 1
                  THEN [i \in DOMAIN @ \ {s} |-> @[i]]
                  ELSE [@ EXCEPT ![s] = [cnr |-> p.cnr + 1,
                                         rest |-> Tail(rest),
                                         pos |-> p.pos + EntryLen]]])

(* The constructor, over what is on flash: the rename of tmp.bin is done   *)
(* again, and frt.bin is made if there is none.                            *)
Opened(r) ==
  LET frt == IF r.tmp # {} THEN r.tmp ELSE r.frt
  IN IF frt = {}
       THEN Persisted(r, r.log, NoEntries)
       ELSE Persisted(r, r.log, CHOOSE fr \in frt : TRUE)
Unreadable(r) == Torn \in r.tmp

=============================================================================
