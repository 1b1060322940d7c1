---------------------------- MODULE MCFutexRwLock ----------------------------
(* FutexRwLock on small instances. *)
EXTENDS FutexRwLock
=============================================================================
