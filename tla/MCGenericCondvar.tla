-------------------------- MODULE MCGenericCondvar --------------------------
(* GenericCondvar on small instances. *)
EXTENDS GenericCondvar
=============================================================================
