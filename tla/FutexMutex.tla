----------------------------- MODULE FutexMutex -----------------------------
(***************************************************************************)
(* The futex-based mutex of sgx_sync (sys/locks/futex/mutex.rs, with       *)
(* futex_wait and futex_wake of wait.rs).  One step per atomic access.     *)
(***************************************************************************)
EXTENDS AbstractFutex

ASSUME WordsAssumption == "mutex" \in Words

VARIABLES
    futex,   \* 0: unlocked, 1: locked, 2: locked and contended
    pc,      \* where each thread is, see TypeOK
    state,   \* state[t]: the local of lock_contended
    held     \* held[t]: t's lock() or try_lock() succeeded: its own view

mtxVars == <<futex, pc, state, held>>
vars == <<fxVars, mtxVars>>

\* pc: "spin", "cas" and "loop" (lock_contended), "wait" (futex_wait before its
\* compare), "asleep" (in the futex), "respin" (after futex_wait), "wake" (unlock).
TypeOK ==
    /\ FxTypeOK
    /\ futex \in 0..2
    /\ pc \in [Tcs -> {"idle", "spin", "cas", "loop", "wait", "asleep", "respin", "wake"}]
    /\ state \in [Tcs -> 0..2]
    /\ held \in [Tcs -> BOOLEAN]

Init ==
    /\ FxInit
    /\ futex = 0
    /\ pc = [t \in Tcs |-> "idle"]
    /\ state = [t \in Tcs |-> 0]
    /\ held = [t \in Tcs |-> FALSE]

Goto(t, label) == pc' = [pc EXCEPT ![t] = label]

Locked(t) ==
    /\ Goto(t, "idle")
    /\ held' = [held EXCEPT ![t] = TRUE]
    /\ state' = [state EXCEPT ![t] = 0]

\* compare_exchange(0, 1)
TryLock(t) ==
    /\ pc[t] = "idle" /\ ~held[t]
    /\ futex = 0
    /\ futex' = 1
    /\ Locked(t)
    /\ UNCHANGED fxVars

Lock(t) ==
    \/ TryLock(t)
    \/ /\ pc[t] = "idle" /\ ~held[t]
       /\ futex # 0
       /\ Goto(t, "spin")
       /\ UNCHANGED <<fxVars, futex, state, held>>

\* spin() returns what it loaded last: anything but 1, or 1 after 1000 loads.
Spin(t) ==
    /\ pc[t] = "spin"
    /\ state' = [state EXCEPT ![t] = futex]
    /\ Goto(t, IF futex = 0 THEN "cas" ELSE "loop")
    /\ UNCHANGED <<fxVars, futex, held>>

\* Mutant of Cas: a plain store.
CasStore(t) ==
    /\ pc[t] = "cas"
    /\ futex' = 1
    /\ Locked(t)
    /\ UNCHANGED fxVars

\* Unlocked after the first spin: take it without marking it contended.
Cas(t) ==
    /\ pc[t] = "cas"
    /\ \/ futex = 0 /\ futex' = 1 /\ Locked(t)
       \/ /\ futex # 0
          /\ state' = [state EXCEPT ![t] = futex]
          /\ Goto(t, "loop")
          /\ UNCHANGED <<futex, held>>
    /\ UNCHANGED fxVars

\* Mutant of Loop: a thread that waited takes the mutex without the mark.
LoopUnmarked(t) ==
    /\ pc[t] = "loop"
    /\ \/ state[t] = 2 /\ Goto(t, "wait") /\ UNCHANGED <<futex, state, held>>
       \/ state[t] # 2 /\ futex = 0 /\ futex' = 1 /\ Locked(t)
       \/ state[t] # 2 /\ futex # 0 /\ futex' = 2 /\ Goto(t, "wait") /\ UNCHANGED <<state, held>>
    /\ UNCHANGED fxVars

\* swap(2) unless it is 2 already.
Loop(t) ==
    /\ pc[t] = "loop"
    /\ \/ state[t] = 2 /\ Goto(t, "wait") /\ UNCHANGED <<futex, state, held>>
       \/ state[t] # 2 /\ futex = 0 /\ futex' = 2 /\ Locked(t)
       \/ state[t] # 2 /\ futex # 0 /\ futex' = 2 /\ Goto(t, "wait") /\ UNCHANGED <<state, held>>
    /\ UNCHANGED fxVars

\* Mutant of Wait: the thread sleeps without comparing.
WaitBlindly(t) ==
    /\ pc[t] = "wait"
    /\ FxWait(t, "mutex") /\ Goto(t, "asleep")
    /\ UNCHANGED <<futex, state, held>>

\* futex_wait(2): its own load and the compare of the futex decide alike.
Wait(t) ==
    /\ pc[t] = "wait"
    /\ \/ futex = 2 /\ FxWait(t, "mutex") /\ Goto(t, "asleep")
       \/ futex # 2 /\ Goto(t, "respin") /\ UNCHANGED fxVars
    /\ UNCHANGED <<futex, state, held>>

\* The wait ends: woken, or by EINTR, which tries it again, or by EAGAIN.
Awake(t) ==
    /\ pc[t] = "asleep"
    /\ FxReturn(t)
    /\ Goto(t, "respin")
    /\ UNCHANGED <<futex, state, held>>

GiveUp(t) == pc[t] = "asleep" /\ FxGiveUp(t) /\ UNCHANGED mtxVars

LeaveWait(t) ==
    /\ pc[t] = "asleep"
    /\ FxLeave(t)
    /\ \E label \in {"wait", "respin"} : Goto(t, label)
    /\ UNCHANGED <<futex, state, held>>

Respin(t) ==
    /\ pc[t] = "respin"
    /\ state' = [state EXCEPT ![t] = futex]
    /\ Goto(t, "loop")
    /\ UNCHANGED <<fxVars, futex, held>>

\* swap(0)
Unlock(t) ==
    /\ pc[t] = "idle" /\ held[t]
    /\ futex' = 0
    /\ held' = [held EXCEPT ![t] = FALSE]
    /\ Goto(t, IF futex = 2 THEN "wake" ELSE "idle")
    /\ UNCHANGED <<fxVars, state>>

Wake(t) ==
    /\ pc[t] = "wake"
    /\ FxWakeOne("mutex")
    /\ Goto(t, "idle")
    /\ UNCHANGED <<futex, state, held>>

Step(t) == \/ Spin(t) \/ Cas(t) \/ Loop(t) \/ Wait(t) \/ Awake(t) \/ LeaveWait(t)
           \/ Respin(t) \/ Wake(t)

Next == \E t \in Tcs : TryLock(t) \/ Lock(t) \/ GiveUp(t) \/ Unlock(t) \/ Step(t)

Spec == Init /\ [][Next]_vars

-----------------------------------------------------------------------------
(* Properties *)

\* The word tells who holds the mutex: it is 0 when nobody does, and one thread
\* at most does, whatever CAS, swap and wake interleave.
Exclusive ==
    /\ \A t, u \in Tcs : held[t] /\ held[u] => t = u
    /\ futex = 0 <=> \A t \in Tcs : ~held[t]

\* On its way to mark the mutex contended, or to see that it is.
Coming(t) ==
    \/ pc[t] \in {"loop", "wait", "respin"}
    \/ pc[t] = "asleep" /\ (t \in leaving \/ t \notin asleep["mutex"])

\* "makes sure that any other waiting threads will also be woken up eventually"
\* (unlock): while a thread sleeps, the mutex is marked contended, or a wake is
\* due, or some thread is awake that will mark it, even when the wake was spent
\* on a thread that a signal had already made give up.
SleepersAreCovered ==
    asleep["mutex"] # {} =>
        futex = 2 \/ \E t \in Tcs : pc[t] = "wake" \/ Coming(t)

AL == INSTANCE AbstractLock WITH
    held <- [t \in Tcs |-> IF held[t] THEN 1 ELSE 0],
    wants <- {t \in Tcs : pc[t] \notin {"idle", "wake"}}

\* The mutex is a lock: the steps of lock, try_lock and unlock are requests,
\* acquisitions by the only holder and releases.
ImplementsLock == AL!LockSafety

\* A free mutex that threads are waiting for is taken: unlock() cannot leave it
\* to sleepers only.
FreeIsTaken ==
    futex = 0 /\ (\E t \in Tcs : pc[t] \notin {"idle", "wake"}) ~> futex # 0
=============================================================================
