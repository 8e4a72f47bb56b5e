----------------------------- MODULE MCEspNode ------------------------------
(* Small meshes for EspNode.                                               *)
EXTENDS EspNodeInv, TLC

(* The first entry of feed 1 has a side chain of two chunks, the second of *)
(* which is also the side chain of the entry of feed 2.                    *)
MCLog == 1 :> <<<<7, 8>>>> @@ 2 :> <<<<>>, <<8>>>>
=============================================================================
