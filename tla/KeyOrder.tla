------------------------------ MODULE KeyOrder ------------------------------
(***************************************************************************)
(* Sorted keys: a set of numbers, read as the array that qsort makes of    *)
(* it (goset_keys of esp32/loramesh-TBeam/goset.cpp, and the loops that    *)
(* go through it).                                                         *)
(***************************************************************************)
EXTENDS Integers, FiniteSets

(* _key_index, counting from 1; 0 when the key is not in the set *)
KeyIndex(keys, key) ==
  IF key \in keys THEN Cardinality({k \in keys : k <= key}) ELSE 0

(* get_key, and the whole array *)
KeyAt(keys, i) == CHOOSE k \in keys : KeyIndex(keys, k) = i
Keys(keys) == [i \in 1..Cardinality(keys) |-> KeyAt(keys, i)]
=============================================================================
