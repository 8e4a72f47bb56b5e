------------------------------- MODULE MCMgmt -------------------------------
(* Four nodes in a ring, so that packets go round: a and d are out of      *)
(* range of each other, and c, one of the two between them, does not send  *)
(* on what is for d, for their IDs begin with the same byte.               *)
EXTENDS Mgmt, TLC

CONSTANTS a, b, c, d

MCFirst == a :> 1 @@ b :> 2 @@ c :> 3 @@ d :> 3 @@ NoId :> 0
Edges == {<<a, b>>, <<a, c>>, <<b, d>>, <<c, d>>}
MCLink == Edges \union {<<e[2], e[1]>> : e \in Edges}

(* A reset of b, a beacon of d, a restart of all *)
MCCommands == {<<b, TRUE>>, <<d, FALSE>>, <<NoId, TRUE>>}
=============================================================================
