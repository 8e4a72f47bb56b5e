------------------------------ MODULE MCGOset -------------------------------
(* Small meshes for GOset.                                                 *)
EXTENDS GOsetInv, TLC

CONSTANTS a, b, c

(* Two nodes: one lacks all but the ends of the set of the other, so that  *)
(* the interval is halved; or each has keys the other lacks.  A reception  *)
(* fails, and in the second case a node restarts.                          *)
Pair(stored, r) ==
  [nodes |-> {a, b}, stored |-> stored @@ c :> {}, fresh |-> {},
   busy |-> 1, loss |-> 1, reboots |-> r, leaves |-> 0]

(* Three nodes: one of them new, with a key yet to be entered; one leaves. *)
Mesh ==
  [nodes |-> {a, b, c}, stored |-> a :> {1, 3} @@ b :> {2} @@ c :> {},
   fresh |-> {4}, busy |-> 0, loss |-> 0, reboots |-> 0, leaves |-> 1]

MCWorld == {Pair(a :> 1..6 @@ b :> {1, 6}, 0),
            Pair(a :> {2, 6} @@ b :> {1, 3, 4, 6}, 1),
            Mesh}
=============================================================================
