---------------------------- MODULE MCOperations ----------------------------
(* Instances of OperationExecution for TLC. *)
EXTENDS OperationExecution, TLC

Symmetric == Permutations(Runtimes) \cup Permutations(Operations)
=============================================================================
