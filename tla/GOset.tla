-------------------------------- MODULE GOset --------------------------------
(***************************************************************************)
(* The grow-only set of feed IDs that the nodes of a mesh reconcile:       *)
(* GOsetClass of esp32/loramesh-TBeam/goset.cpp, over the send queue of a  *)
(* face (io.cpp).                                                          *)
(*                                                                         *)
(* Each node keeps its keys sorted.  It tells the others a key it just     *)
(* learned in a novelty, and in every round it broadcasts a claim: lowest  *)
(* key, highest key, xor and number of its keys.  A claim that differs     *)
(* from what the receiver has between the two keys stays pending: in its   *)
(* next rounds the receiver asks for help (sends its own claim about the   *)
(* interval) where it has no more keys, and offers help (claims about the  *)
(* parts of the interval, or the middle key) where it has no fewer.        *)
(*                                                                         *)
(* There is no acknowledgement: a broadcast is heard by any subset of the  *)
(* nodes in range.                                                         *)
(***************************************************************************)
EXTENDS Integers, Sequences, FiniteSets, SequencesExt, FiniteSetsExt, KeyOrder

CONSTANTS
  Node,            \* the nodes of the mesh
  Key,             \* feed IDs, as numbers: memcmp orders them
  World,           \* the situations the mesh may start in
  MaxKeys,         \* GOSET_MAX_KEYS
  MaxPending,      \* MAX_PENDING
  KeepPending,     \* MAX_PENDING-5
  QueueLen,        \* IO_MAX_QUEUE_LEN
  NoveltyPerRound, \* NOVELTY_PER_ROUND
  AskPerRound,     \* ASK_PER_ROUND
  HelpPerRound     \* HELP_PER_ROUND

(* In a world, nodes are switched on, which have the feeds stored on flash *)
(* and may be given fresh ones.  Bounds: how many others are busy sending  *)
(* at a tick, how many receptions fail (loss), how often a node reboots,   *)
(* how many nodes leave the mesh for good.  A feed ID has 32 bytes; after  *)
(* a start, populate() takes no more than MaxKeys of the stored feeds.     *)
ASSUME GOsetAssumption ==
  /\ IsFiniteSet(Node)
  /\ Key \subseteq Nat \ {0} /\ IsFiniteSet(Key)
  /\ World \subseteq [nodes : SUBSET Node, stored : [Node -> SUBSET Key],
                      fresh : SUBSET Key, busy : Nat, loss : Nat,
                      reboots : Nat, leaves : Nat]
  /\ {MaxKeys, MaxPending, KeepPending, QueueLen} \subseteq Nat \ {0}
  /\ {NoveltyPerRound, AskPerRound, HelpPerRound} \subseteq Nat \ {0}
  /\ KeepPending < MaxPending
  /\ \A w \in World, n \in Node : Cardinality(w.stored[n]) <= MaxKeys

VARIABLES
  world,    \* the world this mesh is in
  gs,       \* the GOset and the send queue of every node
  up,       \* the nodes that are switched on and in range
  lost,     \* bound: receptions that failed so far
  reboots   \* bound: restarts so far

vars == <<world, gs, up, lost, reboots>>

-----------------------------------------------------------------------------
(***************************************************************************)
(* Messages.  The xor of an interval is injective: it is the set of keys.  *)
(***************************************************************************)
Novelty(key) == [typ |-> "n", key |-> key]

(* The claim about the elements lo to hi of goset_keys *)
MkClaim(keys, lo, hi) ==
  [typ |-> "c", lo |-> KeyAt(keys, lo), hi |-> KeyAt(keys, hi),
   xo |-> {k \in keys : KeyIndex(keys, k) \in lo..hi}]
Cnt(claim) == Cardinality(claim.xo)

-----------------------------------------------------------------------------
(* A node after a start: load() fills goset_keys from the feeds on flash.  *)
Started(keys) ==
  [keys |-> keys, span |-> 0, credit |-> 0, novelty |-> <<>>, pending |-> {},
   queue |-> <<>>]

(* The queue after io_enqueue, for msgs in turn: what is queued already, or *)
(* finds the queue full, is dropped.                                       *)
Distinct(all) == {i \in DOMAIN all : \A j \in 1..i-1 : all[j] # all[i]}
Queued(queue, msgs) ==
  LET all == queue \o msgs
      fits == Min({QueueLen, Cardinality(Distinct(all))})
  IN [i \in 1..fits |-> all[KeyAt(Distinct(all), i)]]
Enqueue(s, msg) == [s EXCEPT !.queue = Queued(@, <<msg>>)]

(* A new key is told the others at once, if there is credit for it, or in  *)
(* a later round -- unless the claims heard show there is more to learn.   *)
Announce(s, key) ==
  IF Cardinality(s.keys) < s.span
    THEN s
  ELSE IF s.credit > 0
    THEN Enqueue([s EXCEPT !.credit = @ - 1], Novelty(key))
  ELSE IF Len(s.novelty) < MaxPending
    THEN [s EXCEPT !.novelty = Append(@, key)]
    ELSE s

Add(s, key) ==
  IF key \in s.keys \/ Cardinality(s.keys) >= MaxKeys
    THEN s
    ELSE Announce([s EXCEPT !.keys = @ \union {key}], key)

AddPendingUnbounded(s, claim) ==   \* a defect: the table has no end
  [s EXCEPT !.pending = @ \union {claim}]
AddPending(s, claim) ==
  IF Cardinality(s.pending) >= MaxPending
    THEN s
    ELSE [s EXCEPT !.pending = @ \union {claim}]

(* A defect: the upper end of a claim is not taken for a key. *)
RxClaimLowEnd(s, claim) ==
  LET heard == [s EXCEPT !.span = IF Cnt(claim) > @ THEN Cnt(claim) ELSE @]
  IN AddPending(Add(heard, claim.lo), claim)

RxClaim(s, claim) ==
  LET heard == [s EXCEPT !.span = IF Cnt(claim) > @ THEN Cnt(claim) ELSE @]
  IN AddPending(Add(Add(heard, claim.lo), claim.hi), claim)
Rx(s, msg) == IF msg.typ = "n" THEN Add(s, msg.key) ELSE RxClaim(s, msg)

-----------------------------------------------------------------------------
(***************************************************************************)
(* tick: the reaction to the pending claims, smallest first.               *)
(***************************************************************************)
(* Defects: the halves of an interval are one element off; nothing is told *)
(* about an interval of three.                                             *)
HelpForShort(keys, lo0, hi0) ==
  LET lo == lo0 + 1
      hi == hi0 - 1
      sz == (hi - lo) \div 2
  IN IF hi <= lo
       THEN <<Novelty(KeyAt(keys, lo))>>
     ELSE IF hi - lo <= 2
       THEN <<MkClaim(keys, lo, hi)>>
       ELSE <<MkClaim(keys, lo, lo + sz - 1), MkClaim(keys, lo + sz, hi)>>
HelpForNoMiddle(keys, lo0, hi0) ==
  LET lo == lo0 + 1
      hi == hi0 - 1
      sz == (hi + 1 - lo) \div 2
  IN IF hi <= lo
       THEN <<>>
     ELSE IF hi - lo <= 2
       THEN <<MkClaim(keys, lo, hi)>>
       ELSE <<MkClaim(keys, lo, lo + sz - 1), MkClaim(keys, lo + sz, hi)>>

(* What is told about the elements lo0 to hi0 when the ends are known.     *)
HelpFor(keys, lo0, hi0) ==
  LET lo == lo0 + 1
      hi == hi0 - 1
      sz == (hi + 1 - lo) \div 2
  IN IF hi <= lo
       THEN <<Novelty(KeyAt(keys, lo))>>
     ELSE IF hi - lo <= 2
       THEN <<MkClaim(keys, lo, hi)>>
       ELSE <<MkClaim(keys, lo, lo + sz - 1), MkClaim(keys, lo + sz, hi)>>

(* The part of the set a claim is about, as this node has it. *)
Between(keys, claim) == {k \in keys : claim.lo <= k /\ k <= claim.hi}
Partial(keys, claim) == [claim EXCEPT !.xo = Between(keys, claim)]
Mine(keys, claim) == Cardinality(Between(keys, claim))

(* The claims that are bogus or match. *)
Eliminated(keys, claim) ==
  \/ ~({claim.lo, claim.hi} \subseteq keys)
  \/ claim.lo > claim.hi
  \/ Between(keys, claim) = claim.xo

(* The orders qsort may leave the pending claims in. *)
Orders(pending) ==
  {o \in SetToSeqs(pending) :
     \A i, j \in DOMAIN o : i < j => Cnt(o[i]) <= Cnt(o[j])}

(* The first n numbers of I *)
First(n, I) == {i \in I : Cardinality({j \in I : j < i}) < n}

(* The pending claims, not eliminated ones, in the order of the loop: help *)
(* is asked for where this node has no more keys than claimed ...          *)
Asked(keys, claims) ==
  First(AskPerRound,
        {i \in DOMAIN claims : Cnt(claims[i]) >= Mine(keys, claims[i])})

(* ... and given where it has no fewer ...                                 *)
Helped(keys, claims) ==
  First(HelpPerRound,
        {i \in DOMAIN claims : Cnt(claims[i]) <= Mine(keys, claims[i])})

(* ... which settles the claim.  The smallest others stay pending.         *)
KeptAfterHelp(keys, claims) ==    \* a defect: help settles nothing
  First(KeepPending, DOMAIN claims)
Kept(keys, claims) ==
  First(KeepPending, DOMAIN claims \ Helped(keys, claims))

Reactions(keys, claims) ==
  LET ask(i) == IF i \in Asked(keys, claims)
                  THEN <<Partial(keys, claims[i])>> ELSE <<>>
      help(i) == IF i \in Helped(keys, claims)
                   THEN HelpFor(keys, KeyIndex(keys, claims[i].lo),
                                      KeyIndex(keys, claims[i].hi))
                   ELSE <<>>
  IN FlattenSeq([i \in DOMAIN claims |-> ask(i) \o help(i)])

(* The novelties of this round, then the claim about the whole set. *)
NoveltiesDue(s) == Min({s.credit, Len(s.novelty)})
Greeting(s) ==
  Append([i \in 1..NoveltiesDue(s) |-> Novelty(s.novelty[i])],
         MkClaim(s.keys, 1, Cardinality(s.keys)))

(* The node after a round in which it went through the claims and said msgs. *)
Round(s, claims, msgs) ==
  [s EXCEPT !.novelty = SubSeq(@, NoveltiesDue(s) + 1, Len(@)),
            !.credit = NoveltyPerRound,
            !.pending = {claims[i] : i \in Kept(s.keys, claims)},
            !.queue = Queued(@, msgs)]

-----------------------------------------------------------------------------
Init ==
  /\ world \in World
  /\ gs = [n \in Node |-> Started(world.stored[n])]
  /\ up = world.nodes
  /\ lost = 0
  /\ reboots = 0

(* A round of n is due.  A round lasts GOSET_ROUND_LEN, long enough for    *)
(* the queue to have been sent; a node without keys has nothing to say.    *)
Due(n) ==
  /\ n \in up
  /\ gs[n].queue = <<>>
  /\ gs[n].keys # {}
  /\ Cardinality({m \in up : gs[m].queue # <<>>}) <= world.busy

TickAlone(n) ==
  /\ Due(n)
  /\ \E key \in Key :
       /\ gs[n].keys = {key}
       /\ gs' = [gs EXCEPT ![n] = Enqueue(@, Novelty(key))]
  /\ UNCHANGED <<world, up, lost, reboots>>

TickRound(n) ==
  LET s == gs[n] IN
  /\ Due(n)
  /\ Cardinality(s.keys) > 1
  /\ \E claims \in Orders({c \in s.pending : ~Eliminated(s.keys, c)}) :
     \E msgs \in {Greeting(s) \o Reactions(s.keys, claims)} :
       gs' = [gs EXCEPT ![n] = Round(s, claims, msgs)]
  /\ UNCHANGED <<world, up, lost, reboots>>

Tick(n) == TickAlone(n) \/ TickRound(n)

(* io_dequeue: the next message goes on the air; deaf do not receive it.   *)
Dequeue(n) ==
  /\ n \in up
  /\ gs[n].queue # <<>>
  /\ \E deaf \in SUBSET (up \ {n}) :
       /\ lost + Cardinality(deaf) <= world.loss
       /\ lost' = lost + Cardinality(deaf)
       /\ gs' = [m \in Node |->
                   IF m = n THEN [gs[n] EXCEPT !.queue = Tail(@)]
                   ELSE IF m \in up \ deaf THEN Rx(gs[m], Head(gs[n].queue))
                   ELSE gs[m]]
  /\ UNCHANGED <<world, up, reboots>>

(* The user enters a new key (cmd.h '+'). *)
AddKey(n) ==
  /\ n \in up
  /\ \E key \in world.fresh :
       /\ \A m \in Node : key \notin gs[m].keys
       /\ gs' = [gs EXCEPT ![n] = Add(@, key)]
  /\ UNCHANGED <<world, up, lost, reboots>>

(* A power cycle: the feeds are on flash, the rest of the state is not. *)
Reboot(n) ==
  /\ n \in up
  /\ reboots < world.reboots
  /\ reboots' = reboots + 1
  /\ gs' = [gs EXCEPT ![n] = Started(@.keys)]
  /\ UNCHANGED <<world, up, lost>>

(* A node is carried out of range, or switched off. *)
Leave(n) ==
  /\ n \in up
  /\ Cardinality(world.nodes \ up) < world.leaves
  /\ up' = up \ {n}
  /\ UNCHANGED <<world, gs, lost, reboots>>

Next ==
  \E n \in Node :
    Tick(n) \/ Dequeue(n) \/ AddKey(n) \/ Reboot(n) \/ Leave(n)

Spec == Init /\ [][Next]_vars

(* The main loop runs tick and io_dequeue for ever (weak fairness), and a  *)
(* round that is due again and again is run (strong fairness, since        *)
(* world.busy may hold it up now and then).                                   *)
Fair == \A n \in Node : SF_vars(Tick(n)) /\ WF_vars(Dequeue(n))
FairSpec == Spec /\ Fair

-----------------------------------------------------------------------------
(***************************************************************************)
(* What the set reconciliation promises.                                   *)
(***************************************************************************)
Claims(n) == gs[n].pending \union {m \in ToSet(gs[n].queue) : m.typ = "c"}

(* The shape of the state, with the limits of the tables. *)
TypeOK ==
  /\ up \subseteq world.nodes
  /\ lost \in 0..world.loss
  /\ reboots \in 0..world.reboots
  /\ \A n \in Node :
       /\ gs[n].keys \subseteq Key /\ Cardinality(gs[n].keys) <= MaxKeys
       /\ gs[n].span \in Nat
       /\ gs[n].credit \in 0..NoveltyPerRound
       /\ gs[n].novelty \in Seq(Key) /\ Len(gs[n].novelty) <= MaxPending
       /\ Cardinality(gs[n].pending) <= MaxPending
       /\ Len(gs[n].queue) <= QueueLen

(* Every claim spans at least two keys, and both ends are in it: the index *)
(* arithmetic of the help (lo++, hi--, two halves) needs it to stay inside *)
(* goset_keys.                                                             *)
ClaimsSpan ==
  \A n \in Node : \A c \in Claims(n) :
    /\ c.lo < c.hi
    /\ {c.lo, c.hi} \subseteq c.xo
    /\ \A k \in c.xo : c.lo <= k /\ k <= c.hi

(* The ends of a pending claim are in the set of the node that keeps it,   *)
(* unless the set is full: _key_index finds them (its "** BUG" is not      *)
(* printed).                                                               *)
EndsKnown ==
  \A n \in Node : \A c \in gs[n].pending :
    {c.lo, c.hi} \subseteq gs[n].keys \/ Cardinality(gs[n].keys) = MaxKeys

(* Nodes that stay and hear each other again end up with the same set, all *)
(* the keys any of them ever had: whatever was lost, dropped from a full   *)
(* queue or table, or forgotten in a restart.                              *)
AllKeys == UNION {gs[n].keys : n \in up}
Agree == \A n \in up : gs[n].keys = AllKeys
Converges == <>[]Agree

(* Once they agree the help stops: in the end nothing is sent but the      *)
(* claim about the whole set -- unless a node has left whose last claim    *)
(* nobody can answer, for it is asked about in every round.                *)
Greetings(n) ==
  \A m \in ToSet(gs[n].queue) :
    m = IF Cardinality(gs[n].keys) = 1
          THEN Novelty(CHOOSE key \in gs[n].keys : TRUE)
          ELSE MkClaim(gs[n].keys, 1, Cardinality(gs[n].keys))
Quiet == <>[](up = world.nodes => \A n \in up : Greetings(n))
=============================================================================
