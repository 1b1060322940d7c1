----------------------------- MODULE MCRsrvMem -----------------------------
(* Four pages of reserved memory, the first of which is there from the start. *)
EXTENDS RsrvMem

CONSTANTS o
=============================================================================
