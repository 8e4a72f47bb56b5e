------------------------------ MODULE MCKtFeed ------------------------------
(* A feed with side chains of no, one, two and three chunks for KtFeed.    *)
EXTENDS KtFeed

MCChain == <<0, 2, 1, 3, 0>>
(* All chains complete; the second or the last one open; no old entry;     *)
(* the file of the last chain not there, or empty.                         *)
MCOld == {<<0, 2, 1>>, <<0, 1, 1>>, <<0, 2, 1, 2>>, <<>>,
          <<0, 2, NoFile>>, <<0, 2, 0>>}
=============================================================================
