------------------------------ MODULE MCSeEvent ------------------------------
(* SeEvent on small instances. *)
EXTENDS SeEvent
=============================================================================
