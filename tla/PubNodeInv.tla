----------------------------- MODULE PubNodeInv -----------------------------
(***************************************************************************)
(* The inductive invariant of pubs: what nodes store and what the packets  *)
(* between them can say about it.                                          *)
(***************************************************************************)
EXTENDS PubNode

(* What is armed: <<fid, seq>> of an entry, a record for a chunk. *)
ChunkName == (DOMAIN Length) \X Nat
ChunkHandler == [hptr : ChunkName, fid : Feed, seq : Nat \ {0}]

(* Packets.  An entry exists in the feed, whoever sends it. *)
WantPkt == [typ : {"want"}, dmx : SUBSET Feed, offs : Nat, seqs : Seq(Nat \ {0})]
ChnkItem == [ndx : Nat, seq : Nat \ {0}, cnr : Nat]
ChnkPkt == [typ : {"chnk"}, dmx : SUBSET Feed, items : Seq(ChnkItem)]
ClaimPkt == [typ : {"claim"}, ends : SUBSET Feed]
EntryPkt == {pkt \in [typ : {"entry"}, fid : Feed, seq : Nat \ {0}] :
               pkt.seq <= Len(Log[pkt.fid])}
ChunkPkt == [typ : {"chunk"}, hptr : ChunkName]
Pkt == WantPkt \union ChnkPkt \union ClaimPkt \union EntryPkt \union ChunkPkt

(* How many chunks of each entry a node may have. *)
Counts == {g \in [Feed -> Seq(Nat)] :
             \A f \in Feed : Len(g[f]) = Len(Log[f])}

Shape ==
  /\ keys \in [Node -> SUBSET Feed]
  /\ have \in [Node -> [Feed -> Nat]]
  /\ got \in [Node -> Counts]
  /\ state \in [Node -> SUBSET Feed]
  /\ offs \in [Node -> Nat]
  /\ dmxt \in [Node -> SUBSET (Feed \X (Nat \ {0}))]
  /\ chkt \in [Node -> SUBSET ChunkHandler]

Packets == chan \in [Node \X Node -> Seq(Pkt)]

(* A node that only answers may have armed less, but nothing else. *)
Armed(n) ==
  /\ dmxt[n] \subseteq AllNextEntries(n)
  /\ chkt[n] \subseteq AllNextChunks(n)
  /\ Role[n] # "out" => dmxt[n] = AllNextEntries(n) /\ chkt[n] = AllNextChunks(n)

IInv == TypeOK /\ Shape /\ Packets /\ \A n \in Node : Armed(n)
=============================================================================
