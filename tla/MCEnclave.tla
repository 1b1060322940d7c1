------------------------------ MODULE MCEnclave ------------------------------
(* Enclave on small instances. *)
EXTENDS Enclave, TLC

Symmetry == Permutations(Tcs) \cup Permutations(ExitFns)
=============================================================================
