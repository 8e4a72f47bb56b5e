------------------------------ MODULE EspNode -------------------------------
(***************************************************************************)
(* An ESP32 node that replicates the feeds of its GOset: node.h, dmx.cpp,  *)
(* repo.cpp and the ring of received LoRa packets (io.cpp), run by the     *)
(* main loop (do_io), over the replicas of EspReplica.                     *)
(*                                                                         *)
(* The node asks in turn for log entries (WANT) and for chunks of open     *)
(* side chains (CHNK).  Both vectors are cached with a flag that says      *)
(* whether they still hold.  What comes back is matched against two        *)
(* tables: dmxt (the name of the next entry of every feed) and blbt (the   *)
(* hash of the next chunk of every open chain, with the list of chains     *)
(* that wait for it).                                                      *)
(***************************************************************************)
EXTENDS EspReplica, KeyOrder

CONSTANTS
  Stored,       \* the feeds the node may have on flash at the start
  MaxKeys,      \* GOSET_MAX_KEYS
  WantLen,      \* how many elements a WANT vector holds (100 bytes)
  ChnkLen,      \* how many elements a CHNK vector holds
  RingLen,      \* LORA_BUF_CNT
  MaxRestarts   \* bound: how often the power fails

(* There are never more feeds on flash than goset_keys takes.              *)
ASSUME EspNodeAssumption ==
  /\ Stored \subseteq SUBSET Feed
  /\ \A set \in Stored : Cardinality(set) <= MaxKeys
  /\ {MaxKeys, WantLen, ChnkLen, RingLen} \subseteq Nat \ {0}
  /\ MaxRestarts \in Nat

VARIABLES
  goset,     \* goset_keys; the feeds that have a replica
  replica,   \* for every feed: what is in memory, and the three files
  dmxt,      \* the entries that are awaited, as <<feed, seq>>
  blbt,      \* for the awaited chunks: the chains <<feed, seq>> they belong to
  want,      \* the cached WANT vector, its flag and its offset
  chnk,      \* the same for CHNK
  turn,      \* of node_tick
  queue,     \* the send queue of the LoRa face
  ring,      \* lora_buf
  asked,     \* what the others last heard this node ask for
  up,        \* FALSE when the node does not get through its start any more
  restarts   \* bound: power failures so far

tables == <<goset, dmxt, blbt>>
vectors == <<want, chnk, turn, queue, asked>>
vars == <<tables, replica, vectors, ring, up, restarts>>

-----------------------------------------------------------------------------
(***************************************************************************)
(* The tables.  A change is a function of the memory of the node: m has    *)
(* the fields replica, dmxt and blbt.                                      *)
(***************************************************************************)
(* arm_dmx: four places of DMXT_SIZE are taken by goset, WANT, CHNK, mgmt. *)
ArmDmx(dt, f, s) ==
  IF Cardinality(dt) < MaxKeys THEN dt \union {<<f, s>>} ELSE dt

(* arm_blb, to add a chain and to remove a chunk *)
ArmBlb(bt, rest, f, s) ==
  [r \in DOMAIN bt \union {rest} |->
     IF r # rest THEN bt[r]
     ELSE IF r \in DOMAIN bt THEN <<<<f, s>>>> \o bt[r] ELSE <<<<f, s>>>>]
DisarmBlb(bt, rest) == [r \in DOMAIN bt \ {rest} |-> bt[r]]

(* add_replica: the next entry is awaited, and what the open chains need. *)
ArmChains(bt, f, pend) ==
  LET open == Keys(DOMAIN pend)
      armed[i \in 0..Len(open)] ==
        IF i = 0 THEN bt
        ELSE ArmBlb(armed[i-1], pend[open[i]].rest, f, open[i])
  IN armed[Len(open)]
AddReplica(m, f) ==
  LET r == Opened(m.replica[f])
  IN [replica |-> [m.replica EXCEPT ![f] = r],
      dmxt |-> ArmDmx(m.dmxt, f, r.mem.seq + 1),
      blbt |-> ArmChains(m.blbt, f, r.mem.pend)]

(* incoming_pkt; m does not change if the entry is not the next one. *)
TakesEntry(m, pkt) ==
  /\ <<pkt.fid, pkt.seq>> \in m.dmxt
  /\ m.replica[pkt.fid].mem.seq + 1 = pkt.seq
IncomingPkt(m, pkt) ==
  LET f == pkt.fid
      s == pkt.seq
      r == IngestEntry(m.replica[f], s, Log[f][s])
  IN [replica |-> [m.replica EXCEPT ![f] = r],
      dmxt |-> ArmDmx(m.dmxt \ {<<f, s>>}, f, s + 1),
      blbt |-> IF s \in DOMAIN r.mem.pend
                 THEN ArmBlb(m.blbt, r.mem.pend[s].rest, f, s)
                 ELSE m.blbt]

(* incoming_chunk: the chains of the list take the chunk one by one, ...   *)
OneChain(m, rest, chain) ==
  LET f == chain[1]
      s == chain[2]
  IN IF ~Expects(m.replica[f], rest, s)
       THEN m
       ELSE [m EXCEPT
               !.replica[f] = IngestChunk(@, rest, s),
               !.blbt = IF Len(rest) = 1 THEN @
                        ELSE ArmBlb(@, Tail(rest), f, s)]
Chains(m, rest, n) ==
  LET list == m.blbt[rest]
      taken[i \in 0..n] ==
        IF i = 0 THEN m ELSE OneChain(taken[i-1], rest, list[i])
  IN taken[n]

(* ... then nobody waits for this chunk any more.                          *)
IncomingChunkOnce(m, rest) ==      \* a defect: the first chain takes it
  LET done == Chains(m, rest, 1)
  IN IF done = m THEN m ELSE [done EXCEPT !.blbt = DisarmBlb(@, rest)]
IncomingChunk(m, rest) ==
  LET done == Chains(m, rest, Len(m.blbt[rest]))
  IN IF done = m THEN m ELSE [done EXCEPT !.blbt = DisarmBlb(@, rest)]

(* What the flash may hold if the power fails while pkt is handled. *)
Interrupted(m, pkt) ==
  IF pkt.typ = "e"
    THEN IF TakesEntry(m, pkt)
           THEN {[m.replica EXCEPT ![pkt.fid] = r] :
                   r \in Midway(m.replica[pkt.fid],
                                IncomingPkt(m, pkt).replica[pkt.fid])}
           ELSE {}
  ELSE IF pkt.rest \in DOMAIN m.blbt
    THEN UNION {LET before == Chains(m, pkt.rest, i - 1).replica
                    after == Chains(m, pkt.rest, i).replica
                    f == m.blbt[pkt.rest][i][1]
                IN {[before EXCEPT ![f] = r] : r \in Midway(before[f], after[f])} :
                  i \in DOMAIN m.blbt[pkt.rest]}
    ELSE {}
-----------------------------------------------------------------------------
(***************************************************************************)
(* The vectors.  A feed is named by its index among the sorted keys.       *)
(***************************************************************************)
ReplicaAt(x) == replica[Keys(goset)[x]].mem
Rotated(offs) ==
  [i \in 1..Cardinality(goset) |-> ((offs + i - 1) % Cardinality(goset)) + 1]

(* What the feed at index x adds to a vector: its next entry, its open     *)
(* chains                                                                  *)
WantOf(x) == <<<<x, ReplicaAt(x).seq + 1>>>>
ChnkOf(x) ==
  LET open == Keys(DOMAIN ReplicaAt(x).pend)
  IN [i \in DOMAIN open |-> <<x, open[i], ReplicaAt(x).pend[open[i]].cnr>>]

(* A vector of at most len elements, from the feed at offset offs on; the  *)
(* offset moves on behind the feed where the loop ended.                   *)
Vector(Of(_), len, offs) ==
  LET rot == Rotated(offs)
      n == Len(rot)
      upTo(i) == FlattenSeq([j \in 1..i |-> Of(rot[j])])
      full == {i \in 1..n : Len(upTo(i)) >= len}
  IN [valid |-> TRUE,
      items |-> SubSeq(upTo(n), 1, Min({len, Len(upTo(n))})),
      offs |-> (offs + Min(full \union {n + 1})) % n]

(* mk_want_vect, mk_chnk_vect *)
MkWantVect ==
  IF want.valid THEN want ELSE Vector(WantOf, WantLen, want.offs)
MkChnkVect ==
  IF chnk.valid THEN chnk ELSE Vector(ChnkOf, ChnkLen, chnk.offs)

Stale(v) == [v EXCEPT !.valid = FALSE]
StaleIf(v, changed) == IF changed THEN Stale(v) ELSE v

-----------------------------------------------------------------------------
Mem == [replica |-> replica, dmxt |-> dmxt, blbt |-> blbt]

(* load(): the feeds found on flash *)
Loaded(keys, flash) ==
  LET found == Keys(keys)
      loaded[i \in 0..Len(found)] ==
        IF i = 0 THEN [replica |-> flash, dmxt |-> {}, blbt |-> <<>>]
        ELSE AddReplica(loaded[i-1], found[i])
  IN loaded[Len(found)]

Fresh == [valid |-> FALSE, items |-> <<>>, offs |-> 0]

(* The memory after a start, with these feeds and files on flash *)
Started(keys, flash) ==
  LET m == Loaded(keys, flash) IN
  /\ goset' = keys
  /\ replica' = m.replica /\ dmxt' = m.dmxt /\ blbt' = m.blbt
  /\ want' = Fresh /\ chnk' = Fresh /\ turn' = 0
  /\ queue' = <<>> /\ ring' = <<>>

Init ==
  /\ goset \in Stored
  /\ LET m == Loaded(goset, [f \in Feed |-> NewReplica])
     IN replica = m.replica /\ dmxt = m.dmxt /\ blbt = m.blbt
  /\ want = Fresh /\ chnk = Fresh /\ turn = 0
  /\ queue = <<>> /\ ring = <<>>
  /\ asked = [w |-> {}, c |-> {}]
  /\ up = TRUE
  /\ restarts = 0

(* GOset add(): a key that is new; a feed gets a replica, the vectors are  *)
(* stale and start anywhere.                                               *)
AddKey(f) ==
  /\ up
  /\ f \notin goset
  /\ Cardinality(goset) < MaxKeys
  /\ goset' = goset \union {f}
  /\ LET m == AddReplica(Mem, f)
     IN replica' = m.replica /\ dmxt' = m.dmxt /\ blbt' = m.blbt
  /\ \E w, c \in 0..Cardinality(goset) :
       /\ want' = [Stale(want) EXCEPT !.offs = w]
       /\ chnk' = [Stale(chnk) EXCEPT !.offs = c]
  /\ UNCHANGED <<turn, queue, asked, ring, up, restarts>>

(* fishForNewLoRaPkt, called all over the handlers.  What finds the ring   *)
(* full is dropped.                                                        *)
Receive(pkt) ==
  /\ up
  /\ Len(ring) < RingLen
  /\ ring' = Append(ring, pkt)
  /\ UNCHANGED <<tables, replica, vectors, up, restarts>>

(* lora_get_pkt and on_rx *)
Handled(m, pkt) ==
  IF pkt.typ = "e"
    THEN IF TakesEntry(m, pkt) THEN IncomingPkt(m, pkt) ELSE m
    ELSE IF pkt.rest \in DOMAIN m.blbt THEN IncomingChunk(m, pkt.rest) ELSE m

HandleWantOnly ==     \* a defect: a new side chain is not asked for
  /\ up
  /\ ring # <<>>
  /\ ring' = Tail(ring)
  /\ \E m \in {Handled(Mem, Head(ring))} :
       /\ replica' = m.replica /\ dmxt' = m.dmxt /\ blbt' = m.blbt
       /\ want' = StaleIf(want, m.dmxt # dmxt)
       /\ chnk' = StaleIf(chnk, m.blbt # blbt /\ m.dmxt = dmxt)
  /\ UNCHANGED <<goset, turn, queue, asked, up, restarts>>
Handle ==
  /\ up
  /\ ring # <<>>
  /\ ring' = Tail(ring)
  /\ \E m \in {Handled(Mem, Head(ring))} :
       /\ replica' = m.replica /\ dmxt' = m.dmxt /\ blbt' = m.blbt
       /\ want' = StaleIf(want, m.dmxt # dmxt)
       /\ chnk' = StaleIf(chnk, m.blbt # blbt)
  /\ UNCHANGED <<goset, turn, queue, asked, up, restarts>>

Request(typ, v) ==
  IF v.items = <<>> THEN <<>>
  ELSE <<[typ |-> typ, state |-> goset, items |-> v.items]>>

(* node_tick: entries and chunks are asked for in turn.  A round lasts     *)
(* NODE_ROUND_LEN, long enough for the queue to have been sent.            *)
TickSameTurn ==      \* a defect: only entries are asked for
  /\ up
  /\ goset # {} /\ queue = <<>>
  /\ turn' = 1
  /\ want' = MkWantVect
  /\ queue' = Request("w", want')
  /\ UNCHANGED <<tables, replica, chnk, asked, ring, up, restarts>>
Tick ==
  /\ up
  /\ goset # {} /\ queue = <<>>
  /\ turn' = 1 - turn
  /\ IF turn' = 1
       THEN /\ want' = MkWantVect
            /\ queue' = Request("w", want')
            /\ UNCHANGED chnk
       ELSE /\ chnk' = MkChnkVect
            /\ queue' = Request("c", chnk')
            /\ UNCHANGED want
  /\ UNCHANGED <<tables, replica, asked, ring, up, restarts>>

(* io_dequeue.  The others understand a request that was made for the set  *)
(* they agree on, and read the indices in this set.                        *)
Packets(msg) ==
  LET fid(i) == Keys(msg.state)[msg.items[i][1]]
      chain(i) == Log[fid(i)][msg.items[i][2]]
  IN {IF msg.typ = "w"
        THEN Entry(fid(i), msg.items[i][2])
        ELSE Chunk(SubSeq(chain(i), msg.items[i][3] + 1, Len(chain(i)))) :
        i \in DOMAIN msg.items}

Dequeue ==
  /\ up
  /\ queue # <<>>
  /\ queue' = Tail(queue)
  /\ asked' = IF Head(queue).state = goset
                THEN [asked EXCEPT ![Head(queue).typ] = Packets(Head(queue))]
                ELSE asked
  /\ UNCHANGED <<tables, replica, want, chnk, turn, ring, up, restarts>>

(* The power fails, between two handlers or in one of them, and the node   *)
(* starts again -- unless it cannot read a frontier.                       *)
Restart(keys, flash) ==
  /\ restarts < MaxRestarts
  /\ restarts' = restarts + 1
  /\ IF \E f \in keys : Unreadable(flash[f])
       THEN /\ up' = FALSE
            /\ replica' = flash
            /\ UNCHANGED <<tables, vectors, ring>>
       ELSE /\ Started(keys, flash)
            /\ UNCHANGED <<asked, up>>

PowerFails ==
  /\ up
  /\ \E flash \in {replica} \union
                  (IF ring = <<>> THEN {} ELSE Interrupted(Mem, Head(ring))) :
       Restart(goset, flash)

PowerFailsInAddKey(f) ==
  /\ up
  /\ f \notin goset
  /\ Cardinality(goset) < MaxKeys
  /\ \E r \in Midway(NewReplica, Opened(NewReplica)) :
       Restart(goset \union {f}, [replica EXCEPT ![f] = r])

Next ==
  \/ \E f \in Feed : AddKey(f) \/ PowerFailsInAddKey(f)
  \/ \E pkt \in Packet : Receive(pkt)
  \/ Handle \/ Tick \/ Dequeue \/ PowerFails

Spec == Init /\ [][Next]_vars

(* The main loop runs for ever (weak fairness); what the others are asked  *)
(* for again and again they send, and it is received (strong fairness).    *)
Answer(pkt) == pkt \in asked.w \union asked.c /\ Receive(pkt)
Fair ==
  /\ WF_vars(Handle) /\ WF_vars(Tick) /\ WF_vars(Dequeue)
  /\ \A pkt \in Packet : SF_vars(Answer(pkt))
FairSpec == Spec /\ Fair

-----------------------------------------------------------------------------
(***************************************************************************)
(* What the node promises.                                                 *)
(***************************************************************************)
(* The next entry of every feed is awaited, and every open chain is in the *)
(* list of the chunk it needs, once: also when two chains wait for the     *)
(* same chunk, after a restart and for a feed that has just been added.    *)
OpenChains ==
  UNION {{<<f, s>> : s \in DOMAIN replica[f].mem.pend} : f \in goset}
RestOf(chain) == replica[chain[1]].mem.pend[chain[2]].rest
HandlersMatch ==
  up =>
    /\ dmxt = {<<f, replica[f].mem.seq + 1>> : f \in goset}
    /\ DOMAIN blbt = {RestOf(chain) : chain \in OpenChains}
    /\ \A rest \in DOMAIN blbt :
         /\ IsInjective(blbt[rest])
         /\ ToSet(blbt[rest]) = {chain \in OpenChains : RestOf(chain) = rest}

(* A vector whose flag is set asks for what is missing now, in the order   *)
(* of the keys of now.                                                     *)
VectorsFresh ==
  up =>
  /\ want.valid =>
       \A item \in ToSet(want.items) :
         item[1] \in 1..Cardinality(goset) /\ <<item>> = WantOf(item[1])
  /\ chnk.valid =>
       \A item \in ToSet(chnk.items) :
         item[1] \in 1..Cardinality(goset) /\ item \in ToSet(ChnkOf(item[1]))
  /\ chnk.valid /\ chnk.items = <<>> => OpenChains = {}

(* What a node has taken it keeps, over power failures at any moment: its  *)
(* requests never go back.                                                 *)
Taken(f, s) ==
  LET m == replica[f].mem IN
  IF s > m.seq THEN -1
  ELSE IF s \in DOMAIN m.pend THEN m.pend[s].cnr
  ELSE Len(Log[f][s])
NeverForgets ==
  [][up' => \A f \in goset : \A s \in DOMAIN Log[f] :
              f \in goset' /\ Taken(f, s) <= Taken(f, s)']_vars

(* As long as the others have them, all the entries and side chains of the *)
(* feeds in the set arrive in the end.                                     *)
Complete ==
  \A f \in goset : replica[f].mem.seq = Len(Log[f])
                   /\ replica[f].mem.pend = <<>>
Replicates == <>[](up => Complete)

(* replica.cpp:10: "the log, with side chain expanded right after a log    *)
(* entry": an entry whose side chain is complete is in log.bin.            *)
LogHoldsEntries ==
  \A f \in goset : \A s \in 1..replica[f].mem.seq :
    \E item \in replica[f].log : item.what = <<s, 0>>
=============================================================================
