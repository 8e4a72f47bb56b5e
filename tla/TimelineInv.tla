---------------------------- MODULE TimelineInv -----------------------------
(***************************************************************************)
(* The inductive invariant of the time line: the array and the positions   *)
(* stored in the nodes describe the same order, ranks are lengths of       *)
(* chains of causes, and each link is kept at both of its ends.            *)
(***************************************************************************)
EXTENDS Timeline

(* A time line of the posts K: its fields, and what they are about.        *)
HasFields(tl, K) ==
  /\ tl = [linear |-> tl.linear, indx |-> tl.indx, rank |-> tl.rank,
           prev |-> tl.prev, succ |-> tl.succ, pending |-> tl.pending,
           tips |-> tl.tips, cmds |-> tl.cmds]
  /\ tl.succ \in [K -> Seq(K)]
  /\ tl.rank \in [K -> Nat]

(* Every node is in the array once, at the position it knows.              *)
IsArray(tl, K) ==
  /\ tl.linear \in Seq(K)
  /\ tl.indx \in [K -> 0..Len(tl.linear) - 1]
  /\ \A n \in K : At(tl, tl.indx[n]) = n
  /\ \A p \in 0..Len(tl.linear) - 1 : tl.indx[At(tl, p)] = p

(* By rank, then by name *)
Before(tl, m, n) == tl.rank[m] < tl.rank[n] \/ (tl.rank[m] = tl.rank[n] /\ m < n)
SortedOn(tl, S) ==
  \A m, n \in S : tl.indx[m] < tl.indx[n] => Before(tl, m, n)

(* A link is known at both ends; a cause that is missing, at its effects.  *)
EffectsIn(K, c) == {n \in K : c \in after[n]}
CausesOf(K) == UNION {after[n] : n \in K}
IsLinked(tl, K) ==
  /\ tl.prev = [n \in K |-> after[n] \cap K]
  /\ \A c \in K : ToSet(tl.succ[c]) = EffectsIn(K, c)
  /\ DOMAIN tl.pending = CausesOf(K) \ K
  /\ tl.pending \in [DOMAIN tl.pending -> Seq(K)]
  /\ \A c \in DOMAIN tl.pending : ToSet(tl.pending[c]) = EffectsIn(K, c)
  /\ tl.tips = K \ CausesOf(K)

IsTopSort(tl, K) ==
  HasFields(tl, K) /\ IsArray(tl, K) /\ SortedOn(tl, K) /\ tl.rank = Depth(K)

IInv ==
  /\ after \in Graphs
  /\ Known(t) \subseteq DOMAIN after /\ IsFiniteSet(Known(t))
  /\ IsTopSort(t, Known(t))
  /\ IsLinked(t, Known(t))
  /\ ViewFollows
=============================================================================
