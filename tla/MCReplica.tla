----------------------------- MODULE MCReplica ------------------------------
(* Small feeds for Replica: contents with no, one and two chunks.          *)
EXTENDS ReplicaInv, TLC

CONSTANTS b0, b1, b2

MCBody == {b0, b1, b2}
MCChunks == b0 :> 0 @@ b1 :> 1 @@ b2 :> 2
(* A short entry between two with side chains; the first and the third have*)
(* the same content, so the same chunks.                                   *)
MCFeed == <<b2, b0, b2, b1>>
(* An author takes its entries from the application instead.               *)
MCAuthorFeed == <<b0, b0, b0>>
(* The positions the sizes of the entries give.                            *)
MCSize(seq) == MCChunks[Feed[seq]] + 2
MCOffset ==
  LET at[seq \in 1..MaxSeq+1] == IF seq = 1 THEN 0 ELSE at[seq-1] + MCSize(seq-1)
  IN at
=============================================================================
