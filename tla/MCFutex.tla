------------------------------- MODULE MCFutex -------------------------------
(* Futex on small instances: two words, in one bucket or in two. *)
EXTENDS Futex, TLC

CONSTANTS f, g, b1, b2

SharedOrNot == {f :> 0 @@ g :> 0, f :> 0 @@ g :> 1, f :> 1 @@ g :> 0}

Symmetry == Permutations(Tcs) \cup Permutations(Futexes) \cup Permutations(MatchAny)
=============================================================================
