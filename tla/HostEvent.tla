------------------------------ MODULE HostEvent ------------------------------
(***************************************************************************)
(* What the enclave relies on when it parks a thread: one event per TCS    *)
(* (thread control structure), kept by the untrusted runtime.              *)
(*                                                                         *)
(* A set event is counted, never dropped, and ends one wait.  A wait may   *)
(* also end with no event pending: by a signal, by a timeout, or by a      *)
(* leftover futex wake.  Module SeEvent models the host's code and is      *)
(* shown to implement EvSpec; the lock modules extend this one.            *)
(***************************************************************************)
EXTENDS Integers

CONSTANT Tcs   \* the enclave's thread control structures; a TCS is a thread

VARIABLES
    pending,   \* pending[t]: events set for t and not yet consumed by a wait
    waiting    \* the threads inside a wait ocall

evVars == <<pending, waiting>>

EvTypeOK == pending \in [Tcs -> Nat] /\ waiting \in SUBSET Tcs

EvInit == pending = [t \in Tcs |-> 0] /\ waiting = {}

\* thread_set_event(t)
SetEvent(t) == pending' = [pending EXCEPT ![t] = @ + 1]

\* Events a thread collects while it is not waiting add up without bound.  Beyond
\* max they are dropped here, which takes no behaviour away: what a surplus event
\* can do to a later wait, a spurious return does too.
SetEventUpTo(t, max) ==
    IF pending[t] < max THEN SetEvent(t) ELSE UNCHANGED pending

\* The thread leaves the enclave to wait for its event.
BeginWait(t) == waiting' = waiting \cup {t}

\* Mutant of EndWait: the wait returns without consuming its event.
EndWaitKeeps(t) ==
    /\ t \in waiting
    /\ waiting' = waiting \ {t}
    /\ UNCHANGED pending

\* The wait returns.  It consumes an event when there is one, whatever the
\* reason it returns for (a timeout may race the event).
EndWait(t) ==
    /\ t \in waiting
    /\ waiting' = waiting \ {t}
    /\ pending' = [pending EXCEPT ![t] = IF @ > 0 THEN @ - 1 ELSE 0]

EvSet(t) == SetEvent(t) /\ UNCHANGED waiting

EvBegin(t) == t \notin waiting /\ BeginWait(t) /\ UNCHANGED pending

EvNext == \E t \in Tcs : EvSet(t) \/ EvBegin(t) \/ EndWait(t)

EvSpec == EvInit /\ [][EvNext]_evVars

\* The condition under which a wait is bound to return.
Ready(t) == pending[t] > 0
=============================================================================
