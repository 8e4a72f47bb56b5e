------------------------------ MODULE MCPubNode -----------------------------
(* Two pubs with two short feeds for PubNode.                              *)
EXTENDS PubNodeInv, TLC

CONSTANTS p, q, c0, c1, c2

MCLength == c0 :> 0 @@ c1 :> 1 @@ c2 :> 2

(* Two feeds, with a content they share.                                   *)
MCLog == 1 :> <<c1, c0>> @@ 2 :> <<c1, c2>>
Has(ks, h, g) == [keys |-> ks, have |-> h, got |-> g]
(* p has the entries that q lacks of feed 1, and the other way round of    *)
(* feed 2.  The chain of the first entry p lacks itself: once it has feed  *)
(* 2, two entries wait for the same chunk.                                 *)
MCStored ==
  p :> Has({1}, 1 :> 2 @@ 2 :> 0, 1 :> <<0, 0>> @@ 2 :> <<0, 0>>) @@
  q :> Has({2}, 1 :> 0 @@ 2 :> 2, 1 :> <<0, 0>> @@ 2 :> <<1, 1>>)
MCRole == [n \in {p, q} |-> "inout"]
MCLinks == {{p, q}}
=============================================================================
