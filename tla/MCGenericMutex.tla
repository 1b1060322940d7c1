--------------------------- MODULE MCGenericMutex ---------------------------
(* GenericMutex on small instances. *)
EXTENDS GenericMutex
=============================================================================
