------------------------------- MODULE PubNode -------------------------------
(***************************************************************************)
(* How pubs replicate feeds: class PubNode of                              *)
(* py/simplepub/simplepub/node.py, run by spub.py over websockets.         *)
(*                                                                         *)
(* Per connection three tasks advertise, in rounds: the set of feed IDs,   *)
(* the WANT vector (for each feed the next entry wanted) and the CHNK      *)
(* vector (for each open side chain the next chunk wanted); a fourth       *)
(* handles what arrives.  A vector does not name the feeds: it counts on   *)
(* both sides having the same sorted list, which the first bytes of the    *)
(* packet, a hash of the set, are to ensure.  Packets with entries and     *)
(* chunks are recognised by what was announced before: dmxt maps the       *)
(* prefix of the next entry of a feed, chkt the hash of the next chunk of  *)
(* a chain, to a handler.                                                  *)
(*                                                                         *)
(* What a node has of a feed is kept by a replica, of which this module    *)
(* takes the promise (FeedStore): the first entries, and of each entry the *)
(* first chunks.                                                           *)
(***************************************************************************)
EXTENDS Integers, Sequences, FiniteSets, FiniteSetsExt, Functions

CONSTANTS
  Node,         \* the pubs
  Links,        \* which of them connect: sets of two nodes
  Role,         \* Role[n]: the -role of n, "in", "inout" or "out"
  Feed,         \* feed IDs, as numbers: bytes are ordered
  Log,          \* Log[f]: the chain (of chunks) of each entry of feed f
  Length,       \* Length[c]: the number of chunks of chain c
  Stored,       \* Stored[n]: [keys, have, got], what n has on disk at first
  Credit,       \* how many packets answer a request
  VectLen,      \* how many items a vector has room for
  MaxFlying,    \* bound: packets on their way when a vector is sent
  MaxBreaks,    \* bound: how often a connection breaks
  MaxRestarts   \* bound: how often a node restarts

(* Of each feed a node knows it has the first entries, of each of these    *)
(* the first chunks, and it has nothing of other feeds.                    *)
IsStore(ks, h, g) ==
  /\ ks \subseteq Feed
  /\ \A f \in Feed :
       /\ h[f] \in 0..Len(Log[f])
       /\ f \notin ks => h[f] = 0
       /\ \A seq \in 1..Len(Log[f]) :
            /\ g[f][seq] \in 0..Length[Log[f][seq]]
            /\ seq > h[f] => g[f][seq] = 0

ASSUME PubNodeAssumption ==
  /\ Feed \subseteq Nat /\ IsFiniteSet(Feed)
  /\ Length \in [DOMAIN Length -> Nat]
  /\ Log \in [Feed -> Seq(DOMAIN Length)]
  /\ Stored = [n \in Node |-> [keys |-> Stored[n].keys, have |-> Stored[n].have,
                               got |-> Stored[n].got]]
  /\ \A n \in Node :
       /\ Stored[n].have \in [Feed -> Nat]
       /\ Stored[n].got = [f \in Feed |-> [seq \in 1..Len(Log[f]) |-> Stored[n].got[f][seq]]]
       /\ IsStore(Stored[n].keys, Stored[n].have, Stored[n].got)
  /\ Links \subseteq {l \in SUBSET Node : Cardinality(l) = 2}
  /\ Role \in [Node -> {"in", "inout", "out"}]
  /\ {Credit, VectLen} \subseteq Nat \ {0}
  /\ {MaxFlying, MaxBreaks, MaxRestarts} \subseteq Nat

VARIABLES
  keys,       \* keys[n]: the feed IDs n knows, each with a replica
  have,       \* have[n][f]: how many entries of f the replica at n has
  got,        \* got[n][f][seq]: how many chunks of an entry it has
  state,      \* state[n]: the feed IDs want_dmx and chnk_dmx stand for
  dmxt,       \* dmxt[n]: the entries a handler is armed for
  chkt,       \* chkt[n]: the chunks a handler is armed for
  offs,       \* offs[n]: log_offs, where the next vectors start
  up,         \* the links that are up
  chan,       \* chan[<<m, n>>]: the packets on their way from m to n
  breaks,     \* bound: connections that broke so far
  restarts    \* bound: restarts so far

stored == <<keys, have, got>>
handlers == <<dmxt, chkt>>
vars == <<stored, state, handlers, offs, up, chan, breaks, restarts>>

-----------------------------------------------------------------------------
ChainOf(f, seq) == Log[f][seq]
(* A chunk is named by the chain it is in and its place: equal contents    *)
(* have equal chunks, in whichever feed and entry they are.                *)
Chunk(f, seq, cnr) == <<ChainOf(f, seq), cnr>>

Index(n, f) == Cardinality({g \in keys[n] : g < f})
KeyAt(n, i) == CHOOSE f \in keys[n] : Index(n, f) = i

(* pend_sc: the entries of f whose chain is not complete at n              *)
Open(n, f) == {seq \in 1..have[n][f] : got[n][f][seq] < Length[ChainOf(f, seq)]}

(* What the handlers of a node are to be armed for: the next entry of each *)
(* feed, the next chunk of each open chain.                                *)
NextEntry(n, f) == <<f, have[n][f] + 1>>
NextChunk(n, f, seq) ==
  [hptr |-> Chunk(f, seq, got[n][f][seq]), fid |-> f, seq |-> seq]
AllNextEntries(n) == {NextEntry(n, f) : f \in keys[n]}
AllNextChunks(n) ==
  UNION {{NextChunk(n, f, seq) : seq \in Open(n, f)} : f \in keys[n]}

-----------------------------------------------------------------------------
(* The first max of a set of pairs of numbers, in lexicographic order.     *)
Before(a, b) == a[1] < b[1] \/ (a[1] = b[1] /\ a[2] < b[2])
InOrder(pairs, max) ==
  [i \in 1..Min({max, Cardinality(pairs)}) |->
     CHOOSE a \in pairs : Cardinality({b \in pairs : Before(b, a)}) = i - 1]

FeedsFrom(n) ==
  LET len == Cardinality(keys[n])
  IN [i \in 1..len |-> KeyAt(n, (offs[n] + i - 1) % len)]

(* get_entry_adv: the next entries wanted, as many as the vector has room  *)
(* for (enc_len > 100).                                                    *)
Want(n) ==
  LET feeds == FeedsFrom(n)
  IN [typ |-> "want", dmx |-> state[n], offs |-> offs[n],
      seqs |-> [i \in 1..Min({VectLen, Cardinality(keys[n])}) |->
                  have[n][feeds[i]] + 1]]

(* get_chain_adv: the next chunks wanted, feed by feed, oldest entry first *)
Chnk(n) ==
  LET feeds == FeedsFrom(n)
      wanted == InOrder(UNION {{i} \X Open(n, feeds[i]) : i \in DOMAIN feeds}, VectLen)
      item(f, seq) == [ndx |-> Index(n, f), seq |-> seq, cnr |-> got[n][f][seq]]
  IN [typ |-> "chnk", dmx |-> state[n],
      items |-> [j \in DOMAIN wanted |-> item(feeds[wanted[j][1]], wanted[j][2])]]

(* The claim of get_adv, as far as it is learned from at once: its ends.   *)
Claim(n) ==
  [typ |-> "claim", ends |-> {KeyAt(n, 0), KeyAt(n, Cardinality(keys[n]) - 1)}]

-----------------------------------------------------------------------------
(* A request is answered item by item, then with a second packet for each  *)
(* item that had one, and so on until the credit is used up.  An answer is *)
(* a pair <<turn, item>>, turns counted from 0.                            *)

(* incoming_want_msg *)
WantAnswersNotLast(n, w) ==   \* a defect: the last entry is not given
  LET feed(a) == KeyAt(n, (w.offs + a[2] - 1) % Cardinality(keys[n]))
      seq(a) == w.seqs[a[2]] + a[1]
      turns == InOrder({a \in (0..Credit-1) \X DOMAIN w.seqs :
                          seq(a) < have[n][feed(a)]}, Credit)
  IN [i \in DOMAIN turns |->
        [typ |-> "entry", fid |-> feed(turns[i]), seq |-> seq(turns[i])]]
WantAnswers(n, w) ==
  LET feed(a) == KeyAt(n, (w.offs + a[2] - 1) % Cardinality(keys[n]))
      seq(a) == w.seqs[a[2]] + a[1]
      turns == InOrder({a \in (0..Credit-1) \X DOMAIN w.seqs :
                          seq(a) <= have[n][feed(a)]}, Credit)
  IN [i \in DOMAIN turns |->
        [typ |-> "entry", fid |-> feed(turns[i]), seq |-> seq(turns[i])]]

(* incoming_chnk_msg *)
ChnkAnswers(n, c) ==
  LET item(a) == c.items[a[2]]
      feed(a) == KeyAt(n, item(a).ndx)
      cnr(a) == item(a).cnr + a[1]
      turns == InOrder({a \in (0..Credit-1) \X DOMAIN c.items :
                          /\ item(a).seq <= have[n][feed(a)]
                          /\ cnr(a) < got[n][feed(a)][item(a).seq]}, Credit)
  IN [i \in DOMAIN turns |->
        [typ |-> "chunk",
         hptr |-> Chunk(feed(turns[i]), item(turns[i]).seq, cnr(turns[i]))]]

(* A request the handler fails on, with the answers at hand, as it prints  *)
(* the items once more: there is no feed, or no feed with the index.       *)
Fails(n, pkt) ==
  \/ pkt.typ = "want" /\ pkt.seqs # <<>> /\ keys[n] = {}
  \/ pkt.typ = "chnk" /\ \E i \in DOMAIN pkt.items :
                            pkt.items[i].ndx >= Cardinality(keys[n])

-----------------------------------------------------------------------------
(* os.urandom(1)[0] % len(self.reps) *)
Offsets(n) == IF keys[n] = {} THEN {0} ELSE 0..Cardinality(keys[n]) - 1

Init ==
  /\ keys = [n \in Node |-> Stored[n].keys]
  /\ have = [n \in Node |-> Stored[n].have]
  /\ got = [n \in Node |-> Stored[n].got]
  /\ state = keys
  /\ dmxt = [n \in Node |-> IF Role[n] = "out" THEN {} ELSE AllNextEntries(n)]
  /\ chkt = [n \in Node |-> IF Role[n] = "out" THEN {} ELSE AllNextChunks(n)]
  /\ offs \in {o \in [Node -> 0..Cardinality(Feed)] : \A n \in Node : o[n] \in Offsets(n)}
  /\ up = Links
  /\ chan = [c \in Node \X Node |-> <<>>]
  /\ breaks = 0
  /\ restarts = 0

Send(n, m, pkts) == chan' = [chan EXCEPT ![<<n, m>>] = @ \o pkts]
(* The tasks of a connection advertise at intervals of seconds, when most  *)
(* of what was sent before has been read.                                  *)
Quiet(n, m, typ) ==
  /\ {n, m} \in up
  /\ \A i \in DOMAIN chan[<<n, m>>] : chan[<<n, m>>][i].typ # typ
  /\ SumFunction([c \in Node \X Node |-> Len(chan[c])]) <= MaxFlying

(* launch_adv with get_entry_adv *)
EntryAdv(n, m) ==
  /\ Role[n] # "out"
  /\ Quiet(n, m, "want")
  /\ Send(n, m, <<Want(n)>>)
  /\ offs' = [offs EXCEPT ![n] =
                IF keys[n] = {} THEN @ ELSE (@ + 1) % Cardinality(keys[n])]
  /\ UNCHANGED <<stored, state, handlers, up, breaks, restarts>>

(* launch_adv with get_chain_adv *)
ChainAdv(n, m) ==
  /\ Role[n] # "out"
  /\ Quiet(n, m, "chnk")
  /\ Chnk(n).items # <<>>
  /\ Send(n, m, <<Chnk(n)>>)
  /\ UNCHANGED <<stored, state, handlers, offs, up, breaks, restarts>>

(* launch_adv with get_GOset_adv: the vectors are from now on about the    *)
(* present set.                                                            *)
GOsetAdv(n, m) ==
  /\ Quiet(n, m, "claim")
  /\ keys[n] # {}
  /\ state' = [state EXCEPT ![n] = keys[n]]
  /\ Send(n, m, <<Claim(n)>>)
  /\ UNCHANGED <<stored, handlers, offs, up, breaks, restarts>>

-----------------------------------------------------------------------------
(***************************************************************************)
(* rx: m handles the next packet from n.                                   *)
(***************************************************************************)
Receives(n, m, typ) ==
  {n, m} \in up /\ chan[<<n, m>>] # <<>> /\ Head(chan[<<n, m>>]).typ = typ

Consume(n, m) == chan' = [chan EXCEPT ![<<n, m>>] = Tail(@)]
Reply(n, m, pkts) ==
  chan' = [chan EXCEPT ![<<n, m>>] = Tail(@), ![<<m, n>>] = @ \o pkts]

Listens(m, pkt) == Role[m] # "in" /\ pkt.dmx = state[m]

Down(l) ==
  /\ up' = up \ {l}
  /\ chan' = [c \in Node \X Node |-> IF {c[1], c[2]} = l THEN <<>> ELSE chan[c]]

RxRequest(n, m, typ) ==
  LET pkt == Head(chan[<<n, m>>]) IN
  /\ Receives(n, m, typ)
  /\ IF ~Listens(m, pkt)
       THEN Consume(n, m) /\ UNCHANGED up
     ELSE IF Fails(m, pkt)
       THEN Down({n, m})
       ELSE /\ Reply(n, m, IF typ = "want" THEN WantAnswers(m, pkt)
                                           ELSE ChnkAnswers(m, pkt))
            /\ UNCHANGED up
  /\ UNCHANGED <<stored, state, handlers, offs, breaks, restarts>>

RxWant(n, m) == RxRequest(n, m, "want")
RxChnk(n, m) == RxRequest(n, m, "chnk")

(* A defect: only the entry handler moves on.                              *)
RxEntryNoChunks(n, m) ==
  LET pkt == Head(chan[<<n, m>>])
      f == pkt.fid
      seq == pkt.seq IN
  /\ Receives(n, m, "entry")
  /\ IF <<f, seq>> \in dmxt[m]
       THEN /\ have' = [have EXCEPT ![m][f] = seq]
            /\ dmxt' = [dmxt EXCEPT ![m] =
                          (@ \ {<<f, seq>>}) \union {<<f, seq + 1>>}]
            /\ UNCHANGED chkt
       ELSE UNCHANGED <<have, handlers>>
  /\ Consume(n, m)
  /\ UNCHANGED <<keys, got, state, offs, up, breaks, restarts>>

(* incoming_entry: the replica takes the entry, the handlers move on.      *)
RxEntry(n, m) ==
  LET pkt == Head(chan[<<n, m>>])
      f == pkt.fid
      seq == pkt.seq IN
  /\ Receives(n, m, "entry")
  /\ IF <<f, seq>> \in dmxt[m]
       THEN /\ have' = [have EXCEPT ![m][f] = seq]
            /\ dmxt' = [dmxt EXCEPT ![m] =
                          (@ \ {<<f, seq>>}) \union {<<f, seq + 1>>}]
            /\ chkt' = [chkt EXCEPT ![m] = @ \union
                          (IF Length[ChainOf(f, seq)] > 0
                             THEN {NextChunk(m, f, seq)} ELSE {})]
       ELSE UNCHANGED <<have, handlers>>
  /\ Consume(n, m)
  /\ UNCHANGED <<keys, got, state, offs, up, breaks, restarts>>

(* A defect: the handler of a chunk that has arrived stays armed.          *)
RxChunkStaysArmed(n, m) ==
  LET pkt == Head(chan[<<n, m>>])
      armed == {h \in chkt[m] : h.hptr = pkt.hptr}
      waits(f, seq) == \E h \in armed : h.fid = f /\ h.seq = seq
      next == {[h EXCEPT !.hptr = <<@[1], @[2] + 1>>] : h \in armed}
  IN
  /\ Receives(n, m, "chunk")
  /\ got' = [got EXCEPT ![m] =
               [f \in Feed |-> [seq \in DOMAIN @[f] |->
                  IF waits(f, seq) THEN @[f][seq] + 1 ELSE @[f][seq]]]]
  /\ chkt' = [chkt EXCEPT ![m] = @ \union
                {h \in next : h.hptr[2] < Length[h.hptr[1]]}]
  /\ Consume(n, m)
  /\ UNCHANGED <<keys, have, state, dmxt, offs, up, breaks, restarts>>

(* incoming_chunk, for every chain that waits for this chunk               *)
RxChunk(n, m) ==
  LET pkt == Head(chan[<<n, m>>])
      armed == {h \in chkt[m] : h.hptr = pkt.hptr}
      waits(f, seq) == \E h \in armed : h.fid = f /\ h.seq = seq
      next == {[h EXCEPT !.hptr = <<@[1], @[2] + 1>>] : h \in armed}
  IN
  /\ Receives(n, m, "chunk")
  /\ got' = [got EXCEPT ![m] =
               [f \in Feed |-> [seq \in DOMAIN @[f] |->
                  IF waits(f, seq) THEN @[f][seq] + 1 ELSE @[f][seq]]]]
  /\ chkt' = [chkt EXCEPT ![m] = (@ \ armed) \union
                {h \in next : h.hptr[2] < Length[h.hptr[1]]}]
  /\ Consume(n, m)
  /\ UNCHANGED <<keys, have, state, dmxt, offs, up, breaks, restarts>>

(* incoming_goset_msg: new keys get a replica and a handler; the vectors   *)
(* stay about the old set until the next round.                            *)
RxClaim(n, m) ==
  LET new == Head(chan[<<n, m>>]).ends \ keys[m] IN
  /\ Receives(n, m, "claim")
  /\ keys' = [keys EXCEPT ![m] = @ \union new]
  /\ dmxt' = [dmxt EXCEPT ![m] = @ \union {NextEntry(m, f) : f \in new}]
  /\ Consume(n, m)
  /\ UNCHANGED <<have, got, state, chkt, offs, up, breaks, restarts>>

-----------------------------------------------------------------------------
(* A connection breaks; the client, or start.sh, connects again.           *)
Break(l) ==
  /\ l \in up
  /\ breaks < MaxBreaks
  /\ breaks' = breaks + 1
  /\ Down(l)
  /\ UNCHANGED <<stored, state, handlers, offs, restarts>>

Connect(l) ==
  /\ l \notin up
  /\ up' = up \union {l}
  /\ UNCHANGED <<stored, state, handlers, offs, chan, breaks, restarts>>

(* A defect: the chains that were open are forgotten.                      *)
RestartNoChains(n) ==
  /\ restarts < MaxRestarts
  /\ restarts' = restarts + 1
  /\ state' = [state EXCEPT ![n] = keys[n]]
  /\ dmxt' = [dmxt EXCEPT ![n] =
                IF Role[n] = "out" THEN {} ELSE AllNextEntries(n)]
  /\ chkt' = [chkt EXCEPT ![n] = {}]
  /\ \E o \in Offsets(n) : offs' = [offs EXCEPT ![n] = o]
  /\ up' = {l \in up : n \notin l}
  /\ chan' = [c \in Node \X Node |-> IF n \in {c[1], c[2]} THEN <<>> ELSE chan[c]]
  /\ UNCHANGED <<stored, breaks>>

(* The process ends and __init__ sets the node up from the replicas.       *)
Restart(n) ==
  /\ restarts < MaxRestarts
  /\ restarts' = restarts + 1
  /\ state' = [state EXCEPT ![n] = keys[n]]
  /\ dmxt' = [dmxt EXCEPT ![n] =
                IF Role[n] = "out" THEN {} ELSE AllNextEntries(n)]
  /\ chkt' = [chkt EXCEPT ![n] =
                IF Role[n] = "out" THEN {} ELSE AllNextChunks(n)]
  /\ \E o \in Offsets(n) : offs' = [offs EXCEPT ![n] = o]
  /\ up' = {l \in up : n \notin l}
  /\ chan' = [c \in Node \X Node |-> IF n \in {c[1], c[2]} THEN <<>> ELSE chan[c]]
  /\ UNCHANGED <<stored, breaks>>

Advertise(n, m) == EntryAdv(n, m) \/ ChainAdv(n, m) \/ GOsetAdv(n, m)
Rx(n, m) ==
  RxWant(n, m) \/ RxChnk(n, m) \/ RxEntry(n, m) \/ RxChunk(n, m) \/ RxClaim(n, m)

Next ==
  \/ \E n, m \in Node : Advertise(n, m) \/ Rx(n, m)
  \/ \E l \in Links : Break(l) \/ Connect(l)
  \/ \E n \in Node : Restart(n)

Spec == Init /\ [][Next]_vars

(* Each task runs again and again, and a broken connection is set up anew. *)
Ends == {e \in Node \X Node : {e[1], e[2]} \in Links}
Fair ==
  /\ \A e \in Ends :
       /\ SF_vars(EntryAdv(e[1], e[2]))
       /\ SF_vars(ChainAdv(e[1], e[2]))
       /\ SF_vars(GOsetAdv(e[1], e[2]))
       /\ WF_vars(Rx(e[1], e[2]))
  /\ \A l \in Links : WF_vars(Connect(l))
FairSpec == Spec /\ Fair

-----------------------------------------------------------------------------
(* What a node stores is a prefix of each feed and of each side chain, and *)
(* it never takes the prefix of its vectors from keys it does not have.    *)
TypeOK ==
  /\ \A n \in Node :
       /\ IsStore(keys[n], have[n], got[n])
       /\ state[n] \subseteq keys[n]
       /\ offs[n] \in Nat
  /\ up \subseteq Links

(* The handlers are armed for what the replicas have next, nothing else:   *)
(* no entry or chunk that is wanted is dropped unseen, and none is handed  *)
(* to a replica that has it (the check at the end of incoming_chunk).      *)
HandlersMatch ==
  \A n \in Node : Role[n] # "out" =>
    dmxt[n] = AllNextEntries(n) /\ chkt[n] = AllNextChunks(n)

(* Nodes that keep connecting, one of them answering and the other asking, *)
(* bring all the asking one lacks across: "eventually, all updates to a    *)
(* log will reach the interested parties".                                 *)
HasAll(n, m) ==
  \A f \in keys[n] :
    /\ f \in keys[m]
    /\ have[m][f] >= have[n][f]
    /\ \A seq \in 1..have[n][f] : got[m][f][seq] >= got[n][f][seq]
Delivery ==
  <>[](\A n, m \in Node :
         {n, m} \in Links /\ Role[n] # "in" /\ Role[m] # "out" => HasAll(n, m))
=============================================================================
