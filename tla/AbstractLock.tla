---------------------------- MODULE AbstractLock ----------------------------
(***************************************************************************)
(* The promise of a blocking lock, with no trace of how it is kept: who    *)
(* asks for it, and how many times each thread holds it.                   *)
(***************************************************************************)
EXTENDS Integers

CONSTANT Tcs

VARIABLES
    wants,   \* threads blocked in lock()
    held     \* held[t]: successful lock()s of t not yet undone by unlock()

lockVars == <<wants, held>>

LockInit == wants = {} /\ held = [t \in Tcs |-> 0]

Request(t) == t \notin wants /\ wants' = wants \cup {t} /\ UNCHANGED held

\* lock() or try_lock() returns success: nobody else holds the lock.
Acquire(t) ==
    /\ \A u \in Tcs \ {t} : held[u] = 0
    /\ wants' = wants \ {t}
    /\ held' = [held EXCEPT ![t] = @ + 1]

Release(t) ==
    /\ held[t] > 0
    /\ held' = [held EXCEPT ![t] = @ - 1]
    /\ UNCHANGED wants

LockNext == \E t \in Tcs : Request(t) \/ Acquire(t) \/ Release(t)

LockSafety == LockInit /\ [][LockNext]_lockVars
=============================================================================
