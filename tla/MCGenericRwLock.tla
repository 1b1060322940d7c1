--------------------------- MODULE MCGenericRwLock ---------------------------
(* GenericRwLock on small instances. *)
EXTENDS GenericRwLock
=============================================================================
