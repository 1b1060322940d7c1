---------------------------- MODULE GenericMutex ----------------------------
(***************************************************************************)
(* The queue-based mutex of sgx_sync (sys/locks/generic/mutex.rs).         *)
(*                                                                         *)
(* The fields of Inner are guarded by a spin lock, so every critical       *)
(* section of it is one step.  Between two of them a thread is parked in   *)
(* the host, or on its way to set the event of the thread it must wake.    *)
(***************************************************************************)
EXTENDS HostEvent, Sequences, FiniteSets

CONSTANTS
    None,       \* no thread
    Controls,   \* the MutexControl values a mutex is created with
    MaxRef      \* bound on recursive locking by the clients

ASSUME NoneAssumption == None \notin Tcs
ASSUME ControlsAssumption == Controls \subseteq {"NonRecursive", "Recursive"}
ASSUME MaxRefAssumption == MaxRef \in Nat \ {0}

VARIABLES
    control, refcount, owner, queue,   \* the fields of Inner
    pc,       \* where each thread is: "idle", "lock" (in lock()), "wake"
    waiter,   \* waiter[t]: the thread t must wake, a local of unlock()
    held      \* held[t]: what t's own calls told it, the clients' view

inner == <<control, refcount, owner, queue>>
mutexVars == <<control, refcount, owner, queue, pc, waiter, held>>
vars == <<evVars, mutexVars>>

Queued == {queue[i] : i \in DOMAIN queue}

TypeOK ==
    /\ EvTypeOK
    /\ control \in {"NonRecursive", "Recursive"}
    /\ refcount \in Nat
    /\ owner \in Tcs \cup {None}
    /\ queue \in Seq(Tcs)
    /\ pc \in [Tcs -> {"idle", "lock", "wake"}]
    /\ waiter \in [Tcs -> Tcs \cup {None}]
    /\ held \in [Tcs -> Nat]

Init ==
    /\ EvInit
    /\ control \in Controls
    /\ refcount = 0
    /\ owner = None
    /\ queue = <<>>
    /\ pc = [t \in Tcs |-> "idle"]
    /\ waiter = [t \in Tcs |-> None]
    /\ held = [t \in Tcs |-> 0]

Goto(t, label) == pc' = [pc EXCEPT ![t] = label]

\* Success is returned to the caller.
ReturnLocked(t) ==
    /\ Goto(t, "idle")
    /\ held' = [held EXCEPT ![t] = @ + 1]
    /\ UNCHANGED <<evVars, control, waiter>>

Reenter(t) ==
    /\ control = "Recursive"
    /\ owner = t
    /\ refcount' = refcount + 1
    /\ UNCHANGED <<owner, queue>>

\* Mutant of MayTake: a mutex that is owned may be taken.
MayTakeOwned(t) == queue # <<>> => Head(queue) = t

\* A free mutex goes to the front of the queue, or to anyone if it is empty.
MayTake(t) == owner = None /\ (queue # <<>> => Head(queue) = t)

Take(t) ==
    /\ MayTake(t)
    /\ queue' = IF queue = <<>> THEN queue ELSE Tail(queue)
    /\ owner' = t
    /\ refcount' = refcount + 1

\* Mutant of Park: a thread queues itself on every pass.
ParkAgain(t) ==
    /\ ~MayTake(t)
    /\ ~(control = "Recursive" /\ owner = t)
    /\ queue' = Append(queue, t)
    /\ BeginWait(t)
    /\ Goto(t, "lock")
    /\ UNCHANGED <<pending, control, refcount, owner, waiter, held>>

Park(t) ==
    /\ ~MayTake(t)
    /\ ~(control = "Recursive" /\ owner = t)
    /\ queue' = IF t \in Queued THEN queue ELSE Append(queue, t)
    /\ BeginWait(t)
    /\ Goto(t, "lock")
    /\ UNCHANGED <<pending, control, refcount, owner, waiter, held>>

\* One pass of the loop of lock(), up to its return or its wait ocall.
LockPass(t) ==
    \/ Reenter(t) /\ ReturnLocked(t)
    \/ Take(t) /\ ReturnLocked(t)
    \/ Park(t)

\* The caller does not lock a non-recursive mutex it already holds.
MayLock(t) ==
    /\ pc[t] = "idle"
    /\ held[t] < (IF control = "Recursive" THEN MaxRef ELSE 1)

Lock(t) == MayLock(t) /\ LockPass(t)

\* The wait ocall returns, for whatever reason: its result is ignored.
LockWake(t) == pc[t] = "lock" /\ EndWait(t) /\ UNCHANGED mutexVars

LockRetry(t) == pc[t] = "lock" /\ t \notin waiting /\ LockPass(t)

\* The EBUSY return changes nothing.
TryLock(t) ==
    /\ MayLock(t)
    /\ Reenter(t) \/ Take(t)
    /\ ReturnLocked(t)

\* The state change of unlock_lazy() by the owner; the EPERM return to any
\* other thread changes nothing.
UnlockLazy(t) ==
    /\ owner = t
    /\ refcount' = refcount - 1
    /\ owner' = IF refcount = 1 THEN None ELSE owner
    /\ held' = [held EXCEPT ![t] = @ - 1]
    /\ UNCHANGED <<control, queue>>

\* Mutant of LazyWaiter: the last queued thread is taken for an empty queue.
LazyWaiterMissed == IF refcount = 1 /\ Len(queue) > 1 THEN Head(queue) ELSE None

\* Mutant of LazyWaiter: the newest thread of the queue is woken.
LazyWaiterNewest == IF refcount = 1 /\ queue # <<>> THEN queue[Len(queue)] ELSE None

\* The thread unlock_lazy() returns: the front of the queue, which stays in it.
LazyWaiter == IF refcount = 1 /\ queue # <<>> THEN Head(queue) ELSE None

Unlock(t) ==
    /\ pc[t] = "idle"
    /\ UnlockLazy(t)
    /\ waiter' = [waiter EXCEPT ![t] = LazyWaiter]
    /\ Goto(t, IF LazyWaiter = None THEN "idle" ELSE "wake")
    /\ UNCHANGED evVars

\* The event of the waiter is set after the spin lock is released.
WakeWaiter(t) ==
    /\ pc[t] = "wake"
    /\ SetEvent(waiter[t])
    /\ waiter' = [waiter EXCEPT ![t] = None]
    /\ Goto(t, "idle")
    /\ UNCHANGED <<waiting, control, refcount, owner, queue, held>>

\* The EBUSY return of a mutex in use changes nothing.
Destroy(t) ==
    /\ pc[t] = "idle"
    /\ owner = None /\ queue = <<>>
    /\ control' = "NonRecursive"
    /\ refcount' = 0
    /\ UNCHANGED <<evVars, owner, queue, pc, waiter, held>>

Next == \E t \in Tcs :
    \/ Lock(t) \/ LockWake(t) \/ LockRetry(t) \/ TryLock(t)
    \/ Unlock(t) \/ WakeWaiter(t) \/ Destroy(t)

Spec == Init /\ [][Next]_vars

\* A thread inside lock() or unlock() runs, its wait ending when its event is set,
\* and holders unlock: a recursive one does not keep a last lock for ever.
Fairness == \A t \in Tcs :
    /\ WF_vars((LockWake(t) /\ Ready(t)) \/ LockRetry(t) \/ WakeWaiter(t))
    /\ WF_vars(Unlock(t)) /\ SF_vars(Unlock(t) /\ refcount = 1)

FairSpec == Spec /\ Fairness
-----------------------------------------------------------------------------
(* Properties *)

\* The clients' view agrees with Inner: a thread that was told it has the mutex
\* is its owner, refcount times, and nobody else was told so (lock, try_lock and
\* unlock never let two threads in, and never lose count of a recursive holder).
HeldByOwner ==
    /\ \A t \in Tcs : held[t] = IF owner = t THEN refcount ELSE 0
    /\ owner = None <=> refcount = 0

\* No lost wakeup: when the mutex is free and threads are queued, the front of
\* the queue is running, or its event is set, or the thread that unlocked is
\* about to set it.  unlock() sets the event after it released the spin lock.
NoLostWakeup ==
    owner = None /\ queue # <<>> =>
        \/ Head(queue) \notin waiting
        \/ pending[Head(queue)] > 0
        \/ \E u \in Tcs : waiter[u] = Head(queue)

\* The queue holds each thread that is inside lock() once, and no other thread:
\* a spurious return of the wait does not queue a thread twice, and a thread that
\* got the mutex leaves nothing behind that a later unlock() would wake.
QueueIsBlocked ==
    /\ \A t \in Tcs : t \in Queued <=> pc[t] = "lock"
    /\ \A i, j \in DOMAIN queue : queue[i] = queue[j] => i = j

\* An event that finds its thread already running stays pending.  Such events,
\* set or about to be, never exceed the number of threads, however long the
\* mutex is used, so the counter of the host's event cannot creep up.
EventsBounded == \A t \in Tcs :
    pending[t] + Cardinality({u \in Tcs : waiter[u] = t}) <= Cardinality(Tcs)

AL == INSTANCE AbstractLock WITH wants <- {t \in Tcs : pc[t] = "lock"}

\* The mutex is a lock: each step of lock, try_lock, unlock and destroy is a
\* request, an acquisition by the only holder, a release, or nothing.
ImplementsLock == AL!LockSafety

\* Every lock() returns once holders unlock: FIFO handoff admits no starvation.
EveryLockReturns == \A t \in Tcs : pc[t] = "lock" ~> owner = t
=============================================================================
