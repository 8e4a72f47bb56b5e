------------------------------ MODULE GOsetInv ------------------------------
(***************************************************************************)
(* The inductive invariant of the grow-only set: what the messages of a    *)
(* mesh can say, and what a node makes of them.                            *)
(***************************************************************************)
EXTENDS GOset

(* A claim spans at least two keys, and both ends are in it.               *)
Claim == [typ : {"c"}, lo : Key, hi : Key, xo : SUBSET Key]
Spans(c) ==
  /\ c.lo < c.hi
  /\ {c.lo, c.hi} \subseteq c.xo
  /\ \A k \in c.xo : c.lo <= k /\ k <= c.hi
GoodClaim == {c \in Claim : Spans(c)}
Msg == [typ : {"n"}, key : Key] \union GoodClaim

State == [keys : SUBSET Key, span : Nat, credit : 0..NoveltyPerRound,
          novelty : Seq(Key), pending : SUBSET GoodClaim, queue : Seq(Msg)]

(* The states a node can be in: the limits of its tables hold, and it has  *)
(* the ends of what is pending, unless its set is full.                    *)
GoodState ==
  {s \in State :
     /\ Cardinality(s.keys) <= MaxKeys
     /\ Len(s.novelty) <= MaxPending
     /\ IsFiniteSet(s.pending) /\ Cardinality(s.pending) <= MaxPending
     /\ Len(s.queue) <= QueueLen
     /\ \A c \in s.pending :
          {c.lo, c.hi} \subseteq s.keys \/ Cardinality(s.keys) = MaxKeys}

IInv ==
  /\ world \in World
  /\ up \subseteq world.nodes
  /\ lost \in 0..world.loss
  /\ reboots \in 0..world.reboots
  /\ gs \in [Node -> GoodState]
=============================================================================
