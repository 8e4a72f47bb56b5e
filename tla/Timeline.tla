------------------------------ MODULE Timeline ------------------------------
(***************************************************************************)
(* The time line of a chat: the convergent, incremental topological sort   *)
(* of util/scuttlesort.js (class Timeline and its ScuttleSortNode).        *)
(*                                                                         *)
(* Every post names the tips its author saw, its causes.  Posts of several *)
(* feeds arrive in any order, effects before their causes too; each is     *)
(* inserted and may move others, and the array `linear` must end up the    *)
(* same at every reader.  A listener follows the array by ins and mov      *)
(* commands.  The state is stored as JSON and read back at a start.        *)
(***************************************************************************)
EXTENDS Integers, Sequences, FiniteSets, SequencesExt, FiniteSetsExt, KeyOrder

CONSTANTS
  Graphs   \* the causes that posts may have, as functions from the posts of
           \* a chat to sets; names are compared: they are numbers

(* A post's reference is a hash over its causes: there are no cycles. *)
Acyclic(g) ==
  \A S \in SUBSET DOMAIN g \ {{}} : \E n \in S : g[n] \cap S = {}

ASSUME TimelineAssumption ==
  \A g \in Graphs :
    /\ DOMAIN g \subseteq Nat
    /\ g \in [DOMAIN g -> SUBSET DOMAIN g]
    /\ Acyclic(g)

VARIABLES
  after,   \* the causes of every post
  t,       \* the Timeline
  listens, \* there is a listener (notify)
  view     \* the array as the listener rebuilds it

vars == <<after, t, listens, view>>

Known(tl) == DOMAIN tl.succ       \* name2p
With(f, n, x) == [m \in DOMAIN f \union {n} |-> IF m = n THEN x ELSE f[m]]

-----------------------------------------------------------------------------
(* The array.  Positions count from 0, as indx does.                       *)
SpliceIn(seq, pos, n) == InsertAt(seq, pos + 1, n)
At(tl, pos) == tl.linear[pos + 1]
Move(seq, from, to) == SpliceIn(RemoveAt(seq, from + 1), to, seq[from + 1])

Jump(tl, n, pos) ==
  LET si == tl.indx[n] IN
  [tl EXCEPT
     !.linear = Move(@, si, pos),
     !.cmds = Append(@, [op |-> "mov", from |-> si, to |-> pos]),
     !.indx = [m \in DOMAIN @ |->
                 IF m = n THEN pos
                 ELSE IF @[m] \in si+1..pos THEN @[m] - 1 ELSE @[m]]]

(* The largest position from pos on such that every step up to it passes   *)
(* one of these nodes                                                      *)
Passing(tl, pos, nodes) ==
  Max({p \in pos..Len(tl.linear) - 1 : \A q \in pos+1..p : At(tl, q) \in nodes})

Lower(tl, n) == {m \in Known(tl) : tl.rank[m] < tl.rank[n]}
Level(tl, n) == {m \in Known(tl) : tl.rank[m] = tl.rank[n] /\ m < n}

(* A defect: nodes of one rank stay in the order they came in. *)
RiseByRank(tl, n) ==
  LET pos == Passing(tl, tl.indx[n], Lower(tl, n))
  IN IF tl.indx[n] < pos THEN Jump(tl, n, pos) ELSE tl

(* _rise: over the smaller ranks, then over the smaller names of its rank. *)
Rise(tl, n) ==
  LET low == Passing(tl, tl.indx[n], Lower(tl, n))
      pos == Passing(tl, low, Level(tl, n))
  IN IF tl.indx[n] < pos THEN Jump(tl, n, pos) ELSE tl

(* The nodes at these places, first things first                           *)
InOrder(seq, places) ==
  [i \in 1..Cardinality(places) |-> seq[KeyAt(places, i)]]
LatestFirst(tl, nodes) ==
  Reverse(InOrder(tl.linear, {tl.indx[m] + 1 : m \in nodes}))

(* _visit: the ranks of n and of what it affects go up to rnk + 1 and more. *)
(* `out` is the stack of lists still to be walked, last elements first.     *)
Waves(tl) == [rank : [Known(tl) -> Nat], visited : SUBSET Known(tl),
              out : Seq(Seq(Known(tl)))]
VisitLast(v, succ, rnk) ==
  LET c == Last(Last(v.out))
      rest == Append(Front(v.out), Front(Last(v.out)))
      raised == v.rank[c] <= rnk + Len(rest) - 1
  IN [rank    |-> IF raised THEN [v.rank EXCEPT ![c] = rnk + Len(rest)] ELSE v.rank,
      visited |-> v.visited \union {c},
      out     |-> IF raised THEN Append(rest, succ[c]) ELSE rest]
VisitStep(v, succ, rnk) ==
  IF Last(v.out) = <<>> THEN [v EXCEPT !.out = Front(@)] ELSE VisitLast(v, succ, rnk)
Visit(tl, n, rnk) ==
  LET visit[v \in Waves(tl)] ==
        IF v.out = <<>> THEN v ELSE visit[VisitStep(v, tl.succ, rnk)]
  IN visit[[rank |-> tl.rank, visited |-> {}, out |-> <<<<n>>>>]]

(* add_edge_to_the_past: n is moved behind its cause, then what n affects, *)
(* latest first, is moved behind it.                                       *)
Behind(tl, n, cause) ==
  IF tl.indx[n] < tl.indx[cause] THEN Jump(tl, n, tl.indx[cause]) ELSE Rise(tl, n)
Risen(tl, nodes) ==
  LET risen[i \in 0..Len(nodes)] ==
        IF i = 0 THEN tl ELSE Rise(risen[i-1], nodes[i])
  IN risen[Len(nodes)]
AddEdge(tl, n, cause) ==
  LET v == Visit(tl, n, tl.rank[cause])
      behind == Behind([tl EXCEPT !.rank = v.rank], n, cause)
  IN Risen(behind, LatestFirst(behind, v.visited))

-----------------------------------------------------------------------------
(* The constructor, step by step.  First n is entered under its causes:    *)
(* known ones (in the order given) get a successor and are no tips any     *)
(* more, for the others n is pending.                                      *)
Entered(tl, n, known, unknown) ==
  [tl EXCEPT
     !.rank = With(@, n, 0),
     !.prev = With(@, n, ToSet(known)),
     !.succ = [m \in DOMAIN @ \union {n} |->
                 IF m = n THEN <<>>
                 ELSE IF m \in ToSet(known) THEN Append(@[m], n) ELSE @[m]],
     !.tips = @ \ ToSet(known),
     !.pending = [c \in DOMAIN @ \union unknown |->
                    IF c \notin DOMAIN @ THEN <<n>>
                    ELSE IF c \in unknown THEN Append(@[c], n) ELSE @[c]]]

(* Then n is put where its last known cause is ...                         *)
Inserted(tl, n, known) ==
  LET pos == Max({0} \union {tl.indx[c] : c \in ToSet(known)})
  IN [tl EXCEPT
        !.indx = [m \in DOMAIN @ \union {n} |->
                    IF m = n THEN pos
                    ELSE IF @[m] >= pos THEN @[m] + 1 ELSE @[m]],
        !.linear = SpliceIn(@, pos, n),
        !.cmds = <<[op |-> "ins", name |-> n, to |-> pos]>>]

(* ... and behind all of them, or among the posts without a cause.         *)
Anchored(tl, n, known) ==
  IF known = <<>>
    THEN Rise(tl, n)
    ELSE LET linked[i \in 0..Len(known)] ==
               IF i = 0 THEN tl ELSE AddEdge(linked[i-1], n, known[i])
         IN linked[Len(known)]

(* One effect e that was waiting for n *)
Effect(tl, n, e) ==
  LET edge == AddEdge(tl, e, n)
  IN [edge EXCEPT !.succ[n] = Append(@, e),
                  !.tips = @ \ {n},
                  !.prev[e] = @ \union {n}]

(* The effects that were waiting for n *)
Effects(tl, n) ==
  LET waiting == IF n \in DOMAIN tl.pending THEN tl.pending[n] ELSE <<>>
      joined[i \in 0..Len(waiting)] ==
        IF i = 0 THEN tl ELSE Effect(joined[i-1], n, waiting[i])
  IN joined[Len(waiting)]

(* A defect: a post is a tip although an effect was waiting for it. *)
ResolvedAsTip(tl, n) ==
  LET s == Effects(tl, n)
  IN [s EXCEPT !.pending = [c \in DOMAIN @ \ {n} |-> @[c]],
               !.tips = @ \union {n}]

(* When they are in place, nobody waits for n; without any, n is a tip.    *)
Resolved(tl, n) ==
  LET s == Effects(tl, n)
  IN [s EXCEPT !.pending = [c \in DOMAIN @ \ {n} |-> @[c]],
               !.tips = IF s.succ[n] = <<>> THEN @ \union {n} ELSE @]

Added(tl, n, known, unknown) ==
  Resolved(Anchored(Inserted(Entered(tl, n, known, unknown), n, known),
                    n, known), n)

-----------------------------------------------------------------------------
(* The commands for the listener: a move of what the last command placed   *)
(* is merged into it.                                                      *)
MergeAny(cmds, c) ==     \* a defect: whichever element it moves
  IF cmds # <<>> /\ c.op = "mov"
    THEN Append(Front(cmds), [Last(cmds) EXCEPT !.to = c.to])
    ELSE Append(cmds, c)
Merge(cmds, c) ==
  IF cmds # <<>> /\ c.op = "mov" /\ Last(cmds).to = c.from
    THEN Append(Front(cmds), [Last(cmds) EXCEPT !.to = c.to])
    ELSE Append(cmds, c)
Compressed(cmds) ==
  LET merged[i \in 0..Len(cmds)] ==
        IF i = 0 THEN <<>> ELSE Merge(merged[i-1], cmds[i])
  IN merged[Len(cmds)]

Follow(seq, cmd) ==
  IF cmd.op = "ins" THEN SpliceIn(seq, cmd.to, cmd.name)
                    ELSE Move(seq, cmd.from, cmd.to)
Followed(seq, cmds) ==
  LET shown[i \in 0..Len(cmds)] ==
        IF i = 0 THEN seq ELSE Follow(shown[i-1], cmds[i])
  IN shown[Len(cmds)]

-----------------------------------------------------------------------------
Empty ==
  [linear |-> <<>>, indx |-> <<>>, rank |-> <<>>, prev |-> <<>>,
   succ |-> <<>>, pending |-> <<>>, tips |-> {}, cmds |-> <<>>]

Init ==
  /\ after \in Graphs
  /\ t = Empty
  /\ listens = TRUE
  /\ view = <<>>

(* A post arrives.  Its causes come in the order its author listed them.   *)
Add(n) ==
  /\ n \notin Known(t)
  /\ \E known \in SetToSeqs(after[n] \cap Known(t)) :
     \E tl \in {Added(t, n, known, after[n] \ Known(t))} :
       /\ t' = tl
       /\ view' = IF listens THEN Followed(view, Compressed(tl.cmds))
                             ELSE view
  /\ UNCHANGED <<after, listens>>

(* toJSON and fromJSON: the nodes are linked again in the order of the     *)
(* array, a cause only if it was read before.  A function is not stored.   *)
ReadBack(tl) ==
  LET pos(n) == CHOOSE i \in DOMAIN tl.linear : tl.linear[i] = n
      prev == [n \in Known(tl) |-> {c \in tl.prev[n] : pos(c) < pos(n)}]
  IN [tl EXCEPT
        !.prev = prev,
        !.succ = [n \in Known(tl) |->
                    InOrder(tl.linear,
                            {i \in DOMAIN tl.linear : n \in prev[tl.linear[i]]})]]

Reload ==
  /\ t' = ReadBack(t)
  /\ listens' = FALSE
  /\ UNCHANGED <<after, view>>

Next == (\E n \in DOMAIN after : Add(n)) \/ Reload

Spec == Init /\ [][Next]_vars

-----------------------------------------------------------------------------
(***************************************************************************)
(* What the sort promises: "convergent" -- a function of the set of posts. *)
(***************************************************************************)
(* The length of the longest chain of known causes *)
Depths(causes, known) ==
  LET d[n \in known] == Max({0} \union {d[c] + 1 : c \in causes[n] \cap known})
  IN d
Depth(known) == Depths(after, known)

(* The array of these posts, each once, by depth and by name *)
IsTimeline(seq, known) ==
  LET d == Depth(known) IN
  /\ ToSet(seq) = known
  /\ \A i, j \in DOMAIN seq :
       i < j => \/ d[seq[i]] < d[seq[j]]
                \/ d[seq[i]] = d[seq[j]] /\ seq[i] < seq[j]

(* Whatever the order of arrival, the posts are sorted by the length of    *)
(* the chain of causes before them, then by name.  In particular a post is *)
(* behind its causes, and two readers that have the same posts see the     *)
(* same time line.                                                         *)
Canonical == IsTimeline(t.linear, Known(t))

(* The tips, which the next post will name as its causes, are the posts no *)
(* known post names.                                                       *)
TipsAreLast == t.tips = Known(t) \ UNION {after[n] : n \in Known(t)}

(* The listener that only sees the compressed commands has the same array. *)
ViewFollows == listens => view = t.linear
=============================================================================
