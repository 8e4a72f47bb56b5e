----------------------------- MODULE FeedStore ------------------------------
(***************************************************************************)
(* What a replica promises the rest of a node: it stores a growing prefix  *)
(* of the feed, and of each stored entry a growing prefix of its side      *)
(* chain.  Nothing that is stored is lost, whatever happens to the         *)
(* process.                                                                *)
(***************************************************************************)
EXTENDS Naturals

CONSTANTS
  Seqs,       \* the sequence numbers of the feed, 1..n
  ChainLen    \* ChainLen[s]: the length of the side chain of entry s

VARIABLES
  have,       \* entries 1..have are stored
  got         \* got[s]: chunks 0..got[s]-1 of entry s are stored

storeVars == <<have, got>>

Init ==
  /\ have = 0
  /\ got = [seq \in Seqs |-> 0]

AddEntry ==
  /\ have + 1 \in Seqs
  /\ have' = have + 1
  /\ UNCHANGED got

AddChunk(seq) ==
  /\ seq <= have
  /\ got[seq] < ChainLen[seq]
  /\ got' = [got EXCEPT ![seq] = @ + 1]
  /\ UNCHANGED have

Next == AddEntry \/ \E seq \in Seqs : AddChunk(seq)

Spec == Init /\ [][Next]_storeVars
=============================================================================
