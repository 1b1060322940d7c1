--------------------------- MODULE MCFutexCondvar ---------------------------
(* FutexCondvar on small instances. *)
EXTENDS FutexCondvar
=============================================================================
