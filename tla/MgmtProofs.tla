----------------------------- MODULE MgmtProofs -----------------------------
(***************************************************************************)
(* Proofs about Mgmt, for every mesh: a node acts on a request at most     *)
(* once, whatever the links, losses, restarts and failures.                *)
(***************************************************************************)
EXTENDS Mgmt, TLAPS

(* The counters of the packets sent by a node are the ones it has counted. *)
SentCounted == \A p \in sent : p.fcnt \in Fcnt /\ p.fcnt <= fcnt[p.src]

(* What is above the table's counter has not been acted on: the reason for *)
(* AtMostOnce, as the table is written before the node acts.               *)
AheadUndone ==
  \A n, s \in Node, f \in Fcnt : f > table[n][s] => done[n][s][f] = 0

IInv ==
  /\ TypeOK
  /\ SentCounted
  /\ FcntsUnique
  /\ AheadUndone
  /\ AtMostOnce

-----------------------------------------------------------------------------
(* A packet in the air has been sent by its source, to a node.             *)
LEMMA InAir ==
  ASSUME TypeOK, NEW rcpt \in air
  PROVE  /\ rcpt = <<rcpt[1], rcpt[2], rcpt[3]>>
         /\ rcpt[1] \in sent
         /\ rcpt[1] \in Packet
         /\ rcpt[1].src \in Node
         /\ rcpt[3] \in Node
BY DEF TypeOK, Packet

(* A broadcast of a packet that has been sent keeps the type of air.       *)
LEMMA BroadcastType ==
  ASSUME NEW n \in Node, NEW S, NEW pkt \in S
  PROVE  Broadcast(n, pkt) \subseteq S \X Node \X Node
<1> SUFFICES ASSUME NEW e \in Broadcast(n, pkt) PROVE e \in S \X Node \X Node
  OBVIOUS
<1>1. PICK m \in Node : e = <<pkt, n, m>>
  BY DEF Broadcast
<1> QED
  BY <1>1

(* The request of a node has the type of requests.                         *)
LEMMA MkRequestType ==
  ASSUME NEW req \in [dst : Node \union {NoId}, all : BOOLEAN],
         NEW id \in Node \union {NoId}
  PROVE  MkRequest(req, id) \in [dst : Node \union {NoId}, all : BOOLEAN]
BY DEF MkRequest

(* Tx with a new packet of the node keeps the invariant.                   *)
LEMMA TxKeeps ==
  ASSUME IInv, NEW n \in Node, NEW pkt \in Packet,
         pkt.src = n, pkt.fcnt = fcnt[n] + 1, Tx(n, pkt),
         request' \in [Node -> [dst : Node \union {NoId}, all : BOOLEAN]]
  PROVE  IInv'
<1>1. /\ fcnt \in [Node -> 0..MaxFcnt] /\ MaxFcnt \in Nat
      /\ fcnt[n] < MaxFcnt /\ fcnt[n] \in Nat
      /\ fcnt' = [fcnt EXCEPT ![n] = fcnt[n] + 1]
      /\ sent' = sent \union {pkt}
      /\ UNCHANGED <<table, done, faults>>
  BY MgmtAssumption DEF IInv, TypeOK, Tx
<1>2. \A s \in Node : fcnt'[s] \in Nat /\ fcnt[s] \in Nat /\ fcnt[s] <= fcnt'[s]
  BY <1>1
<1>3. fcnt' \in [Node -> 0..MaxFcnt]
  <2>1. fcnt[n] + 1 \in 0..MaxFcnt
    BY <1>1
  <2> QED
    BY <1>1, <2>1
<1>4. air' \subseteq sent' \X Node \X Node
  <2>1. Broadcast(n, pkt) \subseteq sent' \X Node \X Node
    BY <1>1, BroadcastType
  <2>2. air \subseteq sent \X Node \X Node /\ air' = air \union Broadcast(n, pkt)
    BY DEF IInv, TypeOK, Tx
  <2> QED
    BY <1>1, <2>1, <2>2
<1>5. TypeOK'
  BY <1>1, <1>3, <1>4 DEF IInv, TypeOK
<1>6. SentCounted'
  <2> SUFFICES ASSUME NEW p \in sent'
               PROVE  p.fcnt \in Fcnt /\ p.fcnt <= fcnt'[p.src]
    BY DEF SentCounted
  <2>1. ASSUME p \in sent PROVE p.fcnt \in Fcnt /\ p.fcnt <= fcnt'[p.src]
    <3>1. p.fcnt \in Fcnt /\ p.fcnt <= fcnt[p.src] /\ p.src \in Node
      BY <2>1 DEF IInv, SentCounted, TypeOK, Packet
    <3> QED
      BY <1>1, <1>2, <3>1 DEF Fcnt
  <2>2. pkt.fcnt \in Fcnt /\ pkt.fcnt <= fcnt'[pkt.src]
    BY <1>1 DEF Fcnt
  <2> QED
    BY <1>1, <2>1, <2>2
<1>7. FcntsUnique'
  <2>1. \A p \in sent : ~(p.src = pkt.src /\ p.fcnt = pkt.fcnt)
    BY <1>1 DEF IInv, SentCounted, Fcnt
  <2> QED
    BY <1>1, <2>1 DEF IInv, FcntsUnique
<1>8. AheadUndone' /\ AtMostOnce'
  BY <1>1 DEF IInv, AheadUndone, AtMostOnce
<1> QED
  BY <1>5, <1>6, <1>7, <1>8 DEF IInv

-----------------------------------------------------------------------------
(* The invariant holds at the start.                                       *)
LEMMA InitIInv == Init => IInv
<1> SUFFICES ASSUME Init PROVE IInv
  OBVIOUS
<1>1. TypeOK
  BY MgmtAssumption DEF Init, TypeOK, NoRequest
<1>2. SentCounted /\ FcntsUnique
  BY DEF Init, SentCounted, FcntsUnique
<1>3. AheadUndone /\ AtMostOnce
  BY DEF Init, AheadUndone, AtMostOnce
<1> QED
  BY <1>1, <1>2, <1>3 DEF IInv

(* Sending keeps the invariant.                                            *)
LEMMA SendKeeps == ASSUME IInv, Send PROVE IInv'
<1>1. PICK n \in Admin :
        SendKey(n) \/ \E cmd \in Commands : SendRequest(n, cmd[1], cmd[2])
  BY DEF Send
<1>2. n \in Node /\ fcnt[n] + 1 \in Nat
  BY MgmtAssumption DEF IInv, TypeOK
<1>3. request \in [Node -> [dst : Node \union {NoId}, all : BOOLEAN]]
  BY DEF IInv, TypeOK
<1>4. CASE SendKey(n)
  <2> DEFINE pkt == [typ |-> "k", src |-> n, fcnt |-> fcnt[n] + 1, dst |-> NoId,
                     all |-> TRUE, restart |-> FALSE]
  <2>1. pkt \in Packet /\ pkt.src = n /\ pkt.fcnt = fcnt[n] + 1
    BY <1>2 DEF Packet
  <2>2. Tx(n, pkt) /\ request' = request
    BY <1>4 DEF SendKey
  <2> HIDE DEF pkt
  <2> QED
    BY <1>2, <1>3, <2>1, <2>2, TxKeeps
<1>5. CASE \E cmd \in Commands : SendRequest(n, cmd[1], cmd[2])
  <2>1. PICK cmd \in Commands : SendRequest(n, cmd[1], cmd[2])
    BY <1>5
  <2>2. cmd[1] \in Node \union {NoId} /\ cmd[2] \in BOOLEAN
    BY MgmtAssumption
  <2> DEFINE req == MkRequest(request[n], cmd[1])
             pkt == [typ |-> "r", src |-> n, fcnt |-> fcnt[n] + 1,
                     dst |-> req.dst, all |-> req.all, restart |-> cmd[2]]
  <2>3. Tx(n, pkt) /\ request' = [request EXCEPT ![n] = req]
    BY <2>1 DEF SendRequest
  <2>4. req \in [dst : Node \union {NoId}, all : BOOLEAN]
    BY <1>2, <1>3, <2>2, MkRequestType
  <2> HIDE DEF req
  <2>5. pkt \in Packet /\ pkt.src = n /\ pkt.fcnt = fcnt[n] + 1
    BY <1>2, <2>2, <2>4 DEF Packet
  <2>6. request' \in [Node -> [dst : Node \union {NoId}, all : BOOLEAN]]
    BY <1>3, <2>3, <2>4
  <2> HIDE DEF pkt
  <2> QED
    BY <1>2, <2>3, <2>5, <2>6, TxKeeps
<1> QED
  BY <1>1, <1>4, <1>5

(* What a node does with a reception it accepts keeps the invariant, when  *)
(* it acts on the packet as when the power fails.                          *)
LEMMA AcceptKeeps ==
  ASSUME IInv, NEW rcpt \in air, NEW n, n = rcpt[3],
         Act(n, rcpt) \/ PowerFailsInRx(n, rcpt)
  PROVE  IInv'
<1> DEFINE pkt == rcpt[1]
<1>1. /\ pkt \in sent /\ pkt.src \in Node /\ n \in Node
      /\ pkt.fcnt \in Fcnt /\ pkt.fcnt \in 0..MaxFcnt
  BY InAir, MgmtAssumption DEF IInv, SentCounted, Fcnt
<1>2. /\ pkt.fcnt > table[n][pkt.src]
      /\ table' = [table EXCEPT ![n][pkt.src] = pkt.fcnt]
      /\ UNCHANGED <<fcnt, sent>>
  BY DEF Act, PowerFailsInRx, Accepts, Remember
<1>3. /\ table \in [Node -> [Node -> 0..MaxFcnt]]
      /\ done \in [Node -> [Node -> [Fcnt -> Nat]]]
      /\ MaxFcnt \in Nat
  BY MgmtAssumption DEF IInv, TypeOK
<1>4. \/ done' = done
      \/ done' = [done EXCEPT ![n][pkt.src][pkt.fcnt] = done[n][pkt.src][pkt.fcnt] + 1]
  BY DEF Act, PowerFailsInRx
<1>5. /\ request' \in [Node -> [dst : Node \union {NoId}, all : BOOLEAN]]
      /\ faults' \in 0..MaxFaults
  <2>1. /\ request \in [Node -> [dst : Node \union {NoId}, all : BOOLEAN]]
        /\ faults \in 0..MaxFaults /\ MaxFaults \in Nat
    BY MgmtAssumption DEF IInv, TypeOK
  <2>2. /\ request' = request \/ request' = [request EXCEPT ![n] = NoRequest]
        /\ faults' = faults \/ (faults < MaxFaults /\ faults' = faults + 1)
    BY DEF Act, PowerFailsInRx, Fault
  <2>3. NoRequest \in [dst : Node \union {NoId}, all : BOOLEAN]
    BY DEF NoRequest
  <2>4. request' \in [Node -> [dst : Node \union {NoId}, all : BOOLEAN]]
    BY <2>1, <2>2, <2>3
  <2> QED
    BY <2>1, <2>2, <2>4
<1>6. air' \subseteq sent' \X Node \X Node
  <2>1. Broadcast(n, pkt) \subseteq sent \X Node \X Node
    BY <1>1, BroadcastType
  <2>2. air' \subseteq air \union Broadcast(n, pkt)
    BY DEF Act, PowerFailsInRx
  <2>3. air \subseteq sent \X Node \X Node
    BY DEF IInv, TypeOK
  <2> QED
    BY <1>2, <2>1, <2>2, <2>3
<1> HIDE DEF pkt
<1>7. table' \in [Node -> [Node -> 0..MaxFcnt]]
  BY <1>1, <1>2, <1>3
<1>8. done' \in [Node -> [Node -> [Fcnt -> Nat]]]
  <2>1. CASE done' = done
    BY <1>3, <2>1
  <2>2. CASE done' = [done EXCEPT ![n][pkt.src][pkt.fcnt] = done[n][pkt.src][pkt.fcnt] + 1]
    <3>1. done[n][pkt.src][pkt.fcnt] + 1 \in Nat
      BY <1>1, <1>3
    <3> QED
      BY <1>1, <1>3, <2>2, <3>1
  <2> QED
    BY <1>4, <2>1, <2>2
<1>9. done[n][pkt.src][pkt.fcnt] = 0
  BY <1>1, <1>2 DEF IInv, AheadUndone
<1>10. ASSUME NEW m \in Node, NEW s \in Node, NEW f \in Fcnt
       PROVE  /\ table[m][s] \in Nat /\ table'[m][s] \in Nat
              /\ table[m][s] <= table'[m][s]
              /\ \/ done'[m][s][f] = done[m][s][f]
                 \/ (m = n /\ s = pkt.src /\ f = pkt.fcnt /\ done'[m][s][f] = 1)
  <2>1. table[m][s] \in Nat /\ table'[m][s] \in Nat /\ table[m][s] <= table'[m][s]
    BY <1>1, <1>2, <1>3
  <2>2. CASE done' = done
    BY <2>1, <2>2
  <2>3. CASE done' = [done EXCEPT ![n][pkt.src][pkt.fcnt] = done[n][pkt.src][pkt.fcnt] + 1]
    <3>1. done'[n][pkt.src][pkt.fcnt] = done[n][pkt.src][pkt.fcnt] + 1
      BY <1>1, <1>3, <2>3
    <3>2. m = n /\ s = pkt.src /\ f = pkt.fcnt => done'[m][s][f] = 1
      BY <1>9, <3>1
    <3>3. ~(m = n /\ s = pkt.src /\ f = pkt.fcnt) => done'[m][s][f] = done[m][s][f]
      BY <1>1, <1>3, <2>3
    <3> QED
      BY <2>1, <3>2, <3>3
  <2> QED
    BY <1>4, <2>2, <2>3
<1>11. TypeOK'
  BY <1>2, <1>5, <1>6, <1>7, <1>8 DEF IInv, TypeOK
<1>12. SentCounted' /\ FcntsUnique'
  BY <1>2 DEF IInv, SentCounted, FcntsUnique
<1>13. AheadUndone'
  <2> SUFFICES ASSUME NEW m \in Node, NEW s \in Node, NEW f \in Fcnt,
                      f > table'[m][s]
               PROVE  done'[m][s][f] = 0
    BY DEF AheadUndone
  <2>1. f > table[m][s]
    BY <1>10 DEF Fcnt
  <2>2. done[m][s][f] = 0
    BY <2>1 DEF IInv, AheadUndone
  <2>3. m = n /\ s = pkt.src => table'[m][s] = pkt.fcnt
    BY <1>1, <1>2, <1>3
  <2>4. ~(m = n /\ s = pkt.src /\ f = pkt.fcnt)
    BY <2>3 DEF Fcnt
  <2> QED
    BY <1>10, <2>2, <2>4
<1>14. AtMostOnce'
  <2> SUFFICES ASSUME NEW m \in Node, NEW s \in Node, NEW f \in Fcnt
               PROVE  done'[m][s][f] <= 1
    BY DEF AtMostOnce
  <2>1. done[m][s][f] <= 1
    BY DEF IInv, AtMostOnce
  <2> QED
    BY <1>10, <2>1
<1> QED
  BY <1>11, <1>12, <1>13, <1>14 DEF IInv

(* Every step keeps the invariant.                                         *)
LEMMA NextIInv == IInv /\ [Next]_vars => IInv'
<1> SUFFICES ASSUME IInv, [Next]_vars PROVE IInv'
  OBVIOUS
<1>1. CASE UNCHANGED vars
  BY <1>1 DEF vars, IInv, TypeOK, SentCounted, FcntsUnique, AheadUndone, AtMostOnce
<1>2. CASE Send
  BY <1>2, SendKeeps
<1>3. CASE Rx
  <2>1. PICK rcpt \in air : Ignore(rcpt[3], rcpt) \/ Act(rcpt[3], rcpt)
    BY <1>3 DEF Rx
  <2>2. CASE Act(rcpt[3], rcpt)
    BY <2>2, AcceptKeeps
  <2>3. CASE Ignore(rcpt[3], rcpt)
    BY <2>3 DEF Ignore, IInv, TypeOK, SentCounted, FcntsUnique, AheadUndone, AtMostOnce
  <2> QED
    BY <2>1, <2>2, <2>3
<1>4. CASE Lose
  BY <1>4, MgmtAssumption
     DEF Lose, Fault, IInv, TypeOK, SentCounted, FcntsUnique, AheadUndone, AtMostOnce
<1>5. CASE PowerFails
  <2>1. PICK n \in Node : \/ PowerFailsInTx(n)
                          \/ \E rcpt \in air : rcpt[3] = n /\ PowerFailsInRx(n, rcpt)
    BY <1>5 DEF PowerFails
  <2>2. CASE \E rcpt \in air : rcpt[3] = n /\ PowerFailsInRx(n, rcpt)
    BY <2>2, AcceptKeeps
  <2>3. CASE PowerFailsInTx(n)
    <3>1. /\ fcnt \in [Node -> 0..MaxFcnt] /\ MaxFcnt \in Nat
          /\ fcnt[n] < MaxFcnt /\ fcnt[n] \in Nat
          /\ fcnt' = [fcnt EXCEPT ![n] = fcnt[n] + 1]
          /\ UNCHANGED <<table, air, sent, done>>
      BY <2>3, MgmtAssumption DEF PowerFailsInTx, IInv, TypeOK
    <3>2. fcnt' \in [Node -> 0..MaxFcnt]
      <4>1. fcnt[n] + 1 \in 0..MaxFcnt
        BY <3>1
      <4> QED
        BY <3>1, <4>1
    <3>3. /\ request' \in [Node -> [dst : Node \union {NoId}, all : BOOLEAN]]
          /\ faults' \in 0..MaxFaults
      BY <2>3, MgmtAssumption DEF PowerFailsInTx, Fault, NoRequest, IInv, TypeOK
    <3>4. TypeOK'
      BY <3>1, <3>2, <3>3 DEF IInv, TypeOK
    <3>5. SentCounted'
      <4> SUFFICES ASSUME NEW p \in sent
                   PROVE  p.fcnt \in Fcnt /\ p.fcnt <= fcnt'[p.src]
        BY <3>1 DEF SentCounted
      <4>1. p.fcnt \in Fcnt /\ p.fcnt <= fcnt[p.src] /\ p.src \in Node
        BY DEF IInv, SentCounted, TypeOK, Packet
      <4> QED
        BY <3>1, <4>1 DEF Fcnt
    <3> QED
      BY <3>1, <3>4, <3>5 DEF IInv, FcntsUnique, AheadUndone, AtMostOnce
  <2> QED
    BY <2>1, <2>2, <2>3
<1> QED
  BY <1>1, <1>2, <1>3, <1>4, <1>5 DEF Next

(* The invariant holds in every state.                                     *)
LEMMA Invariant == Spec => []IInv
BY InitIInv, NextIInv, PTL DEF Spec

-----------------------------------------------------------------------------
(* The state has its type; in particular nothing is in the air that was    *)
(* not sent by the source it names.                                        *)
THEOREM TypeCorrect == Spec => []TypeOK
<1>1. IInv => TypeOK
  BY DEF IInv
<1> QED
  BY <1>1, Invariant, PTL

(* No two packets of a node have the same counter, also when the power     *)
(* fails while one is sent.                                                *)
THEOREM CountersUnique == Spec => []FcntsUnique
<1>1. IInv => FcntsUnique
  BY DEF IInv
<1> QED
  BY <1>1, Invariant, PTL

(* No node acts twice on the same packet, whatever the shape of the mesh   *)
(* and the size of the table, and whatever is lost or restarted.           *)
THEOREM ActsOnce == Spec => []AtMostOnce
<1>1. IInv => AtMostOnce
  BY DEF IInv
<1> QED
  BY <1>1, Invariant, PTL
=============================================================================
