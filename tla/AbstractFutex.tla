---------------------------- MODULE AbstractFutex ----------------------------
(***************************************************************************)
(* What the locks of sgx_sync rely on in a futex: a set of sleeping        *)
(* threads per word, of which a wake takes some out.  A waiting thread may *)
(* also give up (a signal, a timeout); it then leaves the set in a later   *)
(* step, and until then a wake may still be spent on it.                   *)
(*                                                                         *)
(* Module Futex models the code and is shown to implement FxSpec; the lock *)
(* modules extend this one.                                                *)
(***************************************************************************)
EXTENDS Integers, FiniteSets

CONSTANTS
    Tcs,     \* the threads
    Words    \* the addresses of the futex words

VARIABLES
    asleep,    \* asleep[f]: the threads queued on word f
    inwait,    \* the threads inside a wait
    leaving    \* the threads that gave up and are about to leave their queue

fxVars == <<asleep, inwait, leaving>>

FxTypeOK ==
    /\ asleep \in [Words -> SUBSET Tcs]
    /\ inwait \in SUBSET Tcs
    /\ leaving \in SUBSET Tcs

FxInit == asleep = [f \in Words |-> {}] /\ inwait = {} /\ leaving = {}

IsQueued(t) == \E f \in Words : t \in asleep[f]

\* The word holds the expected value: the thread is queued in the same step.
FxWait(t, f) ==
    /\ t \notin inwait \cup leaving
    /\ inwait' = inwait \cup {t}
    /\ asleep' = [asleep EXCEPT ![f] = @ \cup {t}]
    /\ UNCHANGED leaving

\* A woken thread returns from its wait.
FxReturn(t) ==
    /\ t \in inwait
    /\ inwait' = inwait \ {t}
    /\ ~IsQueued(t)
    /\ UNCHANGED <<asleep, leaving>>

\* A thread gives up, whether or not it was woken already.
FxGiveUp(t) ==
    /\ t \in inwait
    /\ inwait' = inwait \ {t}
    /\ leaving' = leaving \cup {t}
    /\ UNCHANGED asleep

FxLeave(t) ==
    /\ t \in leaving
    /\ leaving' = leaving \ {t}
    /\ asleep' = [f \in Words |-> asleep[f] \ {t}]
    /\ UNCHANGED inwait

FxWake(f, ts) ==
    /\ UNCHANGED <<inwait, leaving>>
    /\ asleep' = [asleep EXCEPT ![f] = @ \ ts]

\* wake(1) and wake(i32::MAX), as the locks use them
FxWakeOne(f) ==
    \/ asleep[f] = {} /\ UNCHANGED fxVars
    \/ \E t \in asleep[f] : FxWake(f, {t})
FxWakeAll(f) == FxWake(f, asleep[f])

\* requeue: some sleepers of f are woken and others go on sleeping on g.
FxRequeue(f, g, woken, moved) ==
    /\ asleep' = [asleep EXCEPT ![f] = @ \ (woken \cup moved), ![g] = @ \cup moved]
    /\ UNCHANGED <<inwait, leaving>>

\* Wakes with a bitset take any sleepers; what FxWakeOne and FxWakeAll say of a wake
\* with all bits is shown of module Futex separately, for it names the wake.
FxNext ==
    \/ UNCHANGED fxVars
    \/ \E t \in Tcs : FxReturn(t) \/ FxGiveUp(t) \/ FxLeave(t)
    \/ \E f \in Words : \/ \E t \in Tcs : FxWait(t, f)
                        \/ \E ts \in SUBSET asleep[f] \ {{}} : FxWake(f, ts)
    \/ \E f \in Words, g \in Words : \E woken, moved \in SUBSET asleep[f] :
          f # g /\ woken \cap moved = {} /\ FxRequeue(f, g, woken, moved)

FxSpec == FxInit /\ [][FxNext]_fxVars
=============================================================================
