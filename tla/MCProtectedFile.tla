--------------------------- MODULE MCProtectedFile ---------------------------
(* ProtectedFile for TLC. *)
EXTENDS ProtectedFile

\* One child of each kind makes the tree as deep as it can be: every further block
\* is one level below the one before.
=============================================================================
