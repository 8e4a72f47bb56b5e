-------------------------------- MODULE Mgmt --------------------------------
(***************************************************************************)
(* Remote management of a mesh of ESP32 nodes over LoRa: mgmt.h of         *)
(* esp32/loramesh-TBeam.  A request or a key update is sent by one node    *)
(* and flooded: who accepts it sends it on and acts on it.  A counter in   *)
(* every packet, and on flash at every node a table with the last counter  *)
(* accepted from each source, keep the flood from going round.             *)
(*                                                                         *)
(* Packets carry a MAC; only nodes of the mesh can make them.  The table   *)
(* of neighbours and the sending of status packets and beacons are out of  *)
(* use: the call of mgmt_tick is commented out in do_io.                   *)
(***************************************************************************)
EXTENDS Integers, FiniteSets

CONSTANTS
  Node,
  Link,        \* pairs of nodes in range of each other
  First,       \* the first byte of a node's ID, and of the ID in an unused dst
  NoId,        \* dst as long as it has not been set
  Admin,       \* the nodes with somebody at the serial line
  Commands,    \* what they ask for: of whom (NoId: all), and with a restart?
  TableSize,   \* MGMT_FCNT_TABLE_SIZE
  MaxFcnt,     \* bound: packets sent by a node
  MaxFaults    \* bound: how often a reception or the power fails

ASSUME MgmtAssumption ==
  /\ NoId \notin Node
  /\ First \in [Node \union {NoId} -> Nat]
  /\ Link \subseteq Node \X Node
  /\ Admin \subseteq Node
  /\ Commands \subseteq (Node \union {NoId}) \X BOOLEAN
  /\ TableSize \in Nat \ {0}
  /\ {MaxFcnt, MaxFaults} \subseteq Nat

VARIABLES
  fcnt,      \* mgmt_fcnt, in memory and on flash
  table,     \* mgmt_fcnt_table: 0 for a source that is not in it
  request,   \* the static variable of _mkRequest
  air,       \* receptions to come: packet, from whom, by whom
  sent,      \* history: all packets sent, but not those sent on
  done,      \* history: how often a node acted on the packet src, fcnt
  faults     \* bound: how often a reception or the power has failed

vars == <<fcnt, table, request, air, sent, done, faults>>

Fcnt == 1..MaxFcnt
Fault == faults < MaxFaults /\ faults' = faults + 1

-----------------------------------------------------------------------------
(***************************************************************************)
(* Packets: requests ("r"), with a destination and a flag for all nodes,   *)
(* and key updates ("k") for all nodes.                                    *)
(***************************************************************************)
NoRequest == [dst |-> NoId, all |-> FALSE]
Packet == [typ : {"r", "k"}, src : Node, fcnt : Nat, dst : Node \union {NoId},
           all : BOOLEAN, restart : BOOLEAN]

(* io_send: a packet is heard by those in range, each for itself. *)
BroadcastAsOwn(n, pkt) ==    \* a defect: sends on under its own ID
  {<<[pkt EXCEPT !.src = n], n, m>> : m \in {x \in Node : <<n, x>> \in Link}}
Broadcast(n, pkt) == {<<pkt, n, m>> : m \in {x \in Node : <<n, x>> \in Link}}

(* _mkRequest, for one node or for all *)
MkRequest(req, id) ==
  IF id = NoId THEN [req EXCEPT !.all = TRUE] ELSE [req EXCEPT !.dst = id]

-----------------------------------------------------------------------------
(***************************************************************************)
(* mgmt_tx: the counter is on flash before the packet is sent.             *)
(***************************************************************************)
Tx(n, pkt) ==
  /\ fcnt[n] < MaxFcnt
  /\ fcnt' = [fcnt EXCEPT ![n] = @ + 1]
  /\ air' = air \union Broadcast(n, pkt)
  /\ sent' = sent \union {pkt}
  /\ UNCHANGED <<table, done, faults>>

SendRequest(n, id, restart) ==
  LET req == MkRequest(request[n], id) IN
  /\ request' = [request EXCEPT ![n] = req]
  /\ Tx(n, [typ |-> "r", src |-> n, fcnt |-> fcnt[n] + 1, dst |-> req.dst,
            all |-> req.all, restart |-> restart])

SendKey(n) ==
  /\ Tx(n, [typ |-> "k", src |-> n, fcnt |-> fcnt[n] + 1, dst |-> NoId,
            all |-> TRUE, restart |-> FALSE])
  /\ UNCHANGED request

(* The power fails between the two; the counter goes unused. *)
PowerFailsInTxSent(n) ==     \* a defect: it is sent before the counter is written
  /\ fcnt[n] < MaxFcnt
  /\ sent' = sent \union {[typ |-> "k", src |-> n, fcnt |-> fcnt[n] + 1,
                           dst |-> NoId, all |-> TRUE, restart |-> FALSE]}
  /\ request' = [request EXCEPT ![n] = NoRequest]
  /\ Fault
  /\ UNCHANGED <<fcnt, table, air, done>>
PowerFailsInTx(n) ==
  /\ fcnt[n] < MaxFcnt
  /\ fcnt' = [fcnt EXCEPT ![n] = @ + 1]
  /\ request' = [request EXCEPT ![n] = NoRequest]
  /\ Fault
  /\ UNCHANGED <<table, air, sent, done>>

-----------------------------------------------------------------------------
(***************************************************************************)
(* mgmt_rx.                                                                *)
(***************************************************************************)
Sources(n) == {s \in Node : table[n][s] > 0}
AcceptsAgain(n, pkt) ==      \* a defect: >= for >
  /\ pkt.src # n
  /\ pkt.src \in Sources(n) \/ Cardinality(Sources(n)) < TableSize
  /\ pkt.fcnt >= table[n][pkt.src]
Accepts(n, pkt) ==
  /\ pkt.src # n
  /\ pkt.src \in Sources(n) \/ Cardinality(Sources(n)) < TableSize
  /\ pkt.fcnt > table[n][pkt.src]

(* memcmp over (MGMT_ID_LEN || all) bytes, that is over the first one *)
SendsOn(n, pkt) == pkt.typ = "k" \/ First[pkt.dst] # First[n]
IsFor(n, pkt) == pkt.typ = "k" \/ pkt.dst = n \/ pkt.all

(* The table is on flash before anything else happens. *)
ForgetThenAct(n, pkt) ==     \* a defect: it is written when all is done
  table' = IF IsFor(n, pkt) /\ pkt.restart THEN table
           ELSE [table EXCEPT ![n][pkt.src] = pkt.fcnt]
Remember(n, pkt) == table' = [table EXCEPT ![n][pkt.src] = pkt.fcnt]

Ignore(n, rcpt) ==
  /\ ~Accepts(n, rcpt[1])
  /\ air' = air \ {rcpt}
  /\ UNCHANGED <<fcnt, table, request, sent, done, faults>>

(* mgmt_rx_request may restart the node, at the end. *)
ActBeforeSendingOn(n, rcpt) ==   \* a defect: it restarts before it sends on
  LET pkt == rcpt[1] IN
  /\ Accepts(n, pkt)
  /\ Remember(n, pkt)
  /\ air' = (air \ {rcpt}) \union
            (IF SendsOn(n, pkt) /\ ~(IsFor(n, pkt) /\ pkt.restart)
               THEN Broadcast(n, pkt) ELSE {})
  /\ done' = IF IsFor(n, pkt) THEN [done EXCEPT ![n][pkt.src][pkt.fcnt] = @ + 1]
             ELSE done
  /\ request' = IF IsFor(n, pkt) /\ pkt.restart
                  THEN [request EXCEPT ![n] = NoRequest] ELSE request
  /\ UNCHANGED <<fcnt, sent, faults>>
Act(n, rcpt) ==
  LET pkt == rcpt[1] IN
  /\ Accepts(n, pkt)
  /\ Remember(n, pkt)
  /\ air' = (air \ {rcpt}) \union
            (IF SendsOn(n, pkt) THEN Broadcast(n, pkt) ELSE {})
  /\ done' = IF IsFor(n, pkt) THEN [done EXCEPT ![n][pkt.src][pkt.fcnt] = @ + 1]
             ELSE done
  /\ request' = IF IsFor(n, pkt) /\ pkt.restart
                  THEN [request EXCEPT ![n] = NoRequest] ELSE request
  /\ UNCHANGED <<fcnt, sent, faults>>

(* The power fails before anything else is done, or half way: a request is *)
(* sent on before it is acted on, a key update after.                      *)
PowerFailsInRx(n, rcpt) ==
  LET pkt == rcpt[1] IN
  /\ Accepts(n, pkt)
  /\ Remember(n, pkt)
  /\ \/ /\ air' = air \ {rcpt}
        /\ UNCHANGED done
     \/ /\ pkt.typ = "r" /\ SendsOn(n, pkt)
        /\ air' = (air \ {rcpt}) \union Broadcast(n, pkt)
        /\ UNCHANGED done
     \/ /\ pkt.typ = "k"
        /\ air' = air \ {rcpt}
        /\ done' = [done EXCEPT ![n][pkt.src][pkt.fcnt] = @ + 1]
  /\ request' = [request EXCEPT ![n] = NoRequest]
  /\ Fault
  /\ UNCHANGED <<fcnt, sent>>

Rx == \E rcpt \in air : Ignore(rcpt[3], rcpt) \/ Act(rcpt[3], rcpt)

(* A packet is not received: a collision, a full ring, a node that starts. *)
Lose ==
  /\ \E rcpt \in air : air' = air \ {rcpt}
  /\ Fault
  /\ UNCHANGED <<fcnt, table, request, sent, done>>

PowerFails ==
  \E n \in Node :
    \/ PowerFailsInTx(n)
    \/ \E rcpt \in air : rcpt[3] = n /\ PowerFailsInRx(n, rcpt)

-----------------------------------------------------------------------------
Init ==
  /\ fcnt = [n \in Node |-> 0]
  /\ table = [n \in Node |-> [s \in Node |-> 0]]
  /\ request = [n \in Node |-> NoRequest]
  /\ air = {} /\ sent = {}
  /\ done = [n \in Node |-> [s \in Node |-> [f \in Fcnt |-> 0]]]
  /\ faults = 0

Send ==
  \E n \in Admin :
    \/ SendKey(n)
    \/ \E cmd \in Commands : SendRequest(n, cmd[1], cmd[2])

Next == Send \/ Rx \/ Lose \/ PowerFails
Spec == Init /\ [][Next]_vars

(* The main loop receives what arrives. *)
FairSpec == Spec /\ WF_vars(Rx)

-----------------------------------------------------------------------------
TypeOK ==
  /\ fcnt \in [Node -> 0..MaxFcnt]
  /\ table \in [Node -> [Node -> 0..MaxFcnt]]
  /\ request \in [Node -> [dst : Node \union {NoId}, all : BOOLEAN]]
  /\ sent \subseteq Packet
  /\ air \subseteq sent \X Node \X Node
  /\ done \in [Node -> [Node -> [Fcnt -> Nat]]]
  /\ faults \in 0..MaxFaults

(* A node acts on a request once at most, by however many ways the flood   *)
(* brings it, in whatever order, and whether or not the node restarts,     *)
(* because of this request or of a power failure.                          *)
AtMostOnce == \A n, s \in Node, f \in Fcnt : done[n][s][f] <= 1

(* The counters that AtMostOnce rests on are never used twice. *)
FcntsUnique == \A p, q \in sent : p.src = q.src /\ p.fcnt = q.fcnt => p = q

(* Every flood comes to an end. *)
FloodEnds == <>[](air = {})

(* If nothing is lost the last packet of each node reaches every node it   *)
(* is for that can be reached by way of nodes that send it on, also when   *)
(* it overtakes an earlier one, or makes the nodes on the way restart.     *)
Reached(pkt) ==
  LET grow(S) == S \union {m \in Node : \E n \in S : <<n, m>> \in Link /\
                                          (n = pkt.src \/ SendsOn(n, pkt))}
      after[i \in 0..Cardinality(Node)] ==
        IF i = 0 THEN {pkt.src} ELSE grow(after[i - 1])
  IN after[Cardinality(Node)] \ {pkt.src}
HasRoom(m, s) == s \in Sources(m) \/ Cardinality(Sources(m)) < TableSize
LastReaches ==
  <>[](faults > 0 \/ \A pkt \in sent :
         pkt.fcnt = fcnt[pkt.src] =>
           \A m \in Reached(pkt) :
             IsFor(m, pkt) /\ HasRoom(m, pkt.src) =>
               done[m][pkt.src][pkt.fcnt] = 1)

(* mgmt_send_request: "send request to specified node (all if none)", so a *)
(* request for one node has no effect on any other.                        *)
AddressedOnly ==
  [][\A n \in Admin, id \in Node, r \in BOOLEAN :
       SendRequest(n, id, r) => \A m \in Node \ {n, id} :
         \E pkt \in sent' \ sent : ~IsFor(m, pkt)]_vars
=============================================================================
