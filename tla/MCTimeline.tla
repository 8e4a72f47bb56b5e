---------------------------- MODULE MCTimeline ------------------------------
(* Small chats for Timeline.                                               *)
EXTENDS Timeline

(* All the acyclic graphs of four posts, and all the chats of five posts   *)
(* where each but the first answers another one.                           *)
MCGraphs ==
  {g \in [1..4 -> SUBSET (1..4)] : Acyclic(g)} \union
  {g \in [1..5 -> {{}} \union {{n} : n \in 1..5}] :
     Acyclic(g) /\ \E first \in 1..5 : \A n \in 1..5 : g[n] = {} <=> n = first}
=============================================================================
