------------------------------ MODULE MCThreads ------------------------------
(* Threads on small instances. *)
EXTENDS Threads, TLC

Symmetry == Permutations(Tcs) \cup Permutations(Threads)
=============================================================================
