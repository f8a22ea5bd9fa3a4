------------------------------ MODULE MCAccount ------------------------------
(* Instances of AccountRuntime for TLC. *)
EXTENDS AccountRuntime, TLC

Symmetric == Permutations(Holders)
=============================================================================
