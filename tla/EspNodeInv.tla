----------------------------- MODULE EspNodeInv -----------------------------
(***************************************************************************)
(* The inductive invariant of an ESP32 node: what a frontier may say, what *)
(* is on flash between two handlers, and what the tables have to hold.     *)
(***************************************************************************)
EXTENDS EspNode

(* The frontier of feed f.  What is stored of an open chain and what is    *)
(* missing make up the chain, and something is missing.                    *)
FrontierOK(f, fr) ==
  /\ fr = [seq |-> fr.seq, pos |-> fr.pos, pend |-> fr.pend]
  /\ fr.seq \in 0..Len(Log[f]) /\ fr.pos \in Nat
  /\ DOMAIN fr.pend \subseteq 1..fr.seq
  /\ fr.pend \in [DOMAIN fr.pend -> [cnr : Nat, rest : Seq(Nat), pos : Nat]]
  /\ \A s \in DOMAIN fr.pend :
       LET chain == Log[f][s] IN
       /\ fr.pend[s].cnr < Len(chain)
       /\ fr.pend[s].rest = SubSeq(chain, fr.pend[s].cnr + 1, Len(chain))

(* Between two handlers the frontier in memory is the one on flash.        *)
Saved(f, r) ==
  /\ r = [mem |-> r.mem, log |-> r.log, frt |-> {r.mem}, tmp |-> {}]
  /\ FrontierOK(f, r.mem)

(* The open chains of the feeds, each with the rest it waits for; and the  *)
(* lists of chains, one for each rest.                                     *)
Chain == Feed \X Nat
Waits(keys, reps) ==
  UNION {{<<<<f, s>>, reps[f].mem.pend[s].rest>> : s \in DOMAIN reps[f].mem.pend} :
           f \in keys}
ListsFor(bt, W) ==
  /\ bt = [rest \in DOMAIN bt |-> bt[rest]]
  /\ DOMAIN bt = {w[2] : w \in W}
  /\ \A rest \in DOMAIN bt :
       /\ bt[rest] \in Seq(Chain) /\ IsInjective(bt[rest])
       /\ ToSet(bt[rest]) = {w[1] : w \in {v \in W : v[2] = rest}}

(* The memory of a node with these feeds                                   *)
MemOK(keys, m) ==
  /\ m = [replica |-> m.replica, dmxt |-> m.dmxt, blbt |-> m.blbt]
  /\ m.replica = [f \in Feed |-> m.replica[f]]
  /\ \A f \in keys : Saved(f, m.replica[f])
  /\ m.dmxt = {<<f, m.replica[f].mem.seq + 1>> : f \in keys}
  /\ ListsFor(m.blbt, Waits(keys, m.replica))

IInv ==
  /\ goset \subseteq Feed /\ Cardinality(goset) <= MaxKeys
  /\ up =>
       /\ MemOK(goset, Mem)
       /\ \A f \in Feed \ goset : replica[f] = NewReplica
       /\ ring \in Seq(Packet)
       /\ want = [valid |-> want.valid, items |-> want.items, offs |-> want.offs]
       /\ chnk = [valid |-> chnk.valid, items |-> chnk.items, offs |-> chnk.offs]
       /\ {want.offs, chnk.offs} \subseteq 0..Cardinality(goset)
       /\ {want.valid, chnk.valid} \subseteq BOOLEAN
  /\ VectorsFresh
=============================================================================
