------------------------------ MODULE AtomicFile ------------------------------
(***************************************************************************)
(* What a protected file promises across crashes: the file on the disk is  *)
(* always a whole version of the data, replaced by the version of the      *)
(* handle in one indivisible step, and a handle opened later starts from   *)
(* it.                                                                     *)
(***************************************************************************)
CONSTANT None   \* no file, or no handle

VARIABLES
    durable,   \* what the next open of the file will find, whatever happens now
    view       \* what the handle shows

Init == durable = None /\ view = None

\* A new file takes the place of the old one.
Create == view = None /\ view' # None /\ durable' = None

Open == view = None /\ durable # None /\ view' = durable /\ UNCHANGED durable

Modify == view # None /\ view' # None /\ UNCHANGED durable

Commit == view # None /\ durable' = view /\ UNCHANGED view

\* The handle is closed, or dropped, or the process dies.
Lose == view' = None /\ UNCHANGED durable

Next == Create \/ Open \/ Modify \/ Commit \/ Lose

Spec == Init /\ [][Next]_<<durable, view>>
=============================================================================
