------------------------- MODULE GenericMutexProofs -------------------------
(***************************************************************************)
(* GenericMutex for any set of threads: its type invariant, exclusion, the *)
(* absence of lost wakeups, and that it implements AbstractLock.           *)
(***************************************************************************)
EXTENDS GenericMutex, TLAPS

\* Only a thread inside lock() waits, and only one in "wake" has another to wake.
LocalOK ==
    /\ \A t \in waiting : pc[t] = "lock"
    /\ \A t \in Tcs : pc[t] = "wake" <=> waiter[t] \in Tcs

\* The inductive invariant.
IInv == TypeOK /\ HeldByOwner /\ NoLostWakeup /\ LocalOK

\* Every initial state satisfies the inductive invariant (MutexInner::new).
LEMMA InitIInv == Init => IInv
  BY ControlsAssumption, NoneAssumption
  DEF Init, EvInit, IInv, TypeOK, EvTypeOK, HeldByOwner, NoLostWakeup, LocalOK

\* A pass of the loop of lock() keeps the invariant, from any point it starts.
LEMMA LockPassIInv ==
  ASSUME IInv, NEW t \in Tcs, pc[t] # "wake", t \notin waiting, LockPass(t)
  PROVE  IInv'
  <1>1. CASE Reenter(t) /\ ReturnLocked(t)
    <2>1. TypeOK'
      BY <1>1 DEF IInv, TypeOK, EvTypeOK, Reenter, ReturnLocked, Goto, evVars
    <2>2. HeldByOwner'
      BY <1>1, NoneAssumption DEF IInv, TypeOK, HeldByOwner, Reenter, ReturnLocked
    <2>3. NoLostWakeup'
      BY <1>1, NoneAssumption DEF NoLostWakeup, Reenter
    <2>4. LocalOK'
      BY <1>1 DEF IInv, TypeOK, EvTypeOK, LocalOK, ReturnLocked, Goto, evVars
    <2> QED  BY <2>1, <2>2, <2>3, <2>4 DEF IInv
  <1>2. CASE Take(t) /\ ReturnLocked(t)
    <2>1. TypeOK'
      BY <1>2 DEF IInv, TypeOK, EvTypeOK, Take, MayTake, ReturnLocked, Goto, evVars
    <2>2. HeldByOwner'
      BY <1>2, NoneAssumption
      DEF IInv, TypeOK, HeldByOwner, Take, MayTake, ReturnLocked
    <2>3. NoLostWakeup'
      BY <1>2, NoneAssumption DEF NoLostWakeup, Take
    <2>4. LocalOK'
      BY <1>2 DEF IInv, TypeOK, EvTypeOK, LocalOK, ReturnLocked, Goto, evVars
    <2> QED  BY <2>1, <2>2, <2>3, <2>4 DEF IInv
  <1>3. CASE Park(t)
    <2>1. TypeOK'
      BY <1>3 DEF IInv, TypeOK, EvTypeOK, Park, Goto, BeginWait
    <2>2. HeldByOwner'
      BY <1>3 DEF IInv, HeldByOwner, Park
    <2>3. NoLostWakeup'
      <3> SUFFICES ASSUME owner = None, queue' # <<>>
                   PROVE  \/ Head(queue') \notin waiting'
                          \/ pending'[Head(queue')] > 0
                          \/ \E u \in Tcs : waiter'[u] = Head(queue')
        BY <1>3 DEF NoLostWakeup, Park
      <3>1. queue # <<>> /\ Head(queue) # t
        BY <1>3 DEF Park, MayTake
      <3>2. Head(queue') = Head(queue) /\ Head(queue) \in Tcs
        BY <1>3, <3>1 DEF Park, IInv, TypeOK
      <3> QED
        BY <1>3, <3>1, <3>2 DEF IInv, NoLostWakeup, Park, BeginWait
    <2>4. LocalOK'
      BY <1>3 DEF IInv, TypeOK, EvTypeOK, LocalOK, Park, Goto, BeginWait
    <2> QED  BY <2>1, <2>2, <2>3, <2>4 DEF IInv
  <1> QED  BY <1>1, <1>2, <1>3 DEF LockPass

\* Every step keeps the inductive invariant.
LEMMA NextIInv == IInv /\ [Next]_vars => IInv'
  <1> SUFFICES ASSUME IInv, [Next]_vars PROVE IInv'
    OBVIOUS
  <1>1. ASSUME NEW t \in Tcs, Lock(t) PROVE IInv'
    <2>1. pc[t] = "idle" /\ t \notin waiting /\ LockPass(t)
      BY <1>1 DEF Lock, MayLock, IInv, LocalOK
    <2> QED  BY <2>1, LockPassIInv
  <1>2. ASSUME NEW t \in Tcs, LockWake(t) PROVE IInv'
    <2>1. TypeOK' /\ HeldByOwner' /\ LocalOK'
      BY <1>2 DEF IInv, TypeOK, EvTypeOK, HeldByOwner, LocalOK, LockWake, EndWait, mutexVars
    <2>2. NoLostWakeup'
      BY <1>2 DEF IInv, TypeOK, EvTypeOK, NoLostWakeup, LockWake, EndWait, mutexVars
    <2> QED  BY <2>1, <2>2 DEF IInv
  <1>3. ASSUME NEW t \in Tcs, LockRetry(t) PROVE IInv'
    BY <1>3, LockPassIInv DEF LockRetry
  <1>4. ASSUME NEW t \in Tcs, TryLock(t) PROVE IInv'
    <2>1. pc[t] = "idle" /\ t \notin waiting /\ LockPass(t)
      BY <1>4 DEF TryLock, MayLock, LockPass, IInv, LocalOK
    <2> QED  BY <2>1, LockPassIInv
  <1>5. ASSUME NEW t \in Tcs, Unlock(t) PROVE IInv'
    <2>1. LazyWaiter \in Tcs \cup {None}
      BY DEF LazyWaiter, IInv, TypeOK
    <2>2. refcount \in Nat \ {0} /\ held[t] = refcount
      BY <1>5, NoneAssumption DEF Unlock, UnlockLazy, IInv, TypeOK, HeldByOwner
    <2>3. TypeOK'
      BY <1>5, <2>1, <2>2 DEF IInv, TypeOK, EvTypeOK, Unlock, UnlockLazy, Goto, evVars
    <2>4. HeldByOwner'
      BY <1>5, <2>2, NoneAssumption DEF IInv, TypeOK, HeldByOwner, Unlock, UnlockLazy
    <2>5. NoLostWakeup'
      <3> SUFFICES ASSUME owner' = None, queue # <<>>
                   PROVE  waiter'[t] = Head(queue)
        BY <1>5 DEF NoLostWakeup, Unlock, UnlockLazy
      <3>1. refcount = 1
        BY <1>5, NoneAssumption DEF Unlock, UnlockLazy
      <3>2. LazyWaiter = Head(queue) /\ Head(queue) \in Tcs
        BY <3>1 DEF LazyWaiter, IInv, TypeOK
      <3> QED  BY <1>5, <3>2, NoneAssumption DEF Unlock, Goto, IInv, TypeOK
    <2>6. LocalOK'
      BY <1>5, <2>1 DEF IInv, TypeOK, EvTypeOK, LocalOK, Unlock, Goto, evVars
    <2> QED  BY <2>3, <2>4, <2>5, <2>6 DEF IInv
  <1>6. ASSUME NEW t \in Tcs, WakeWaiter(t) PROVE IInv'
    <2>1. TypeOK' /\ HeldByOwner' /\ LocalOK'
      BY <1>6, NoneAssumption
      DEF IInv, TypeOK, EvTypeOK, HeldByOwner, LocalOK, WakeWaiter, SetEvent, Goto
    <2>2. NoLostWakeup'
      <3> SUFFICES ASSUME owner = None, queue # <<>>, Head(queue) \in waiting,
                          pending'[Head(queue)] = 0
                   PROVE  \E u \in Tcs : waiter'[u] = Head(queue)
        BY <1>6, <2>1 DEF IInv, TypeOK, EvTypeOK, NoLostWakeup, WakeWaiter
      <3>1. Head(queue) \in Tcs /\ waiter[t] \in Tcs
        BY <1>6 DEF IInv, TypeOK, LocalOK, WakeWaiter
      <3>2. waiter[t] # Head(queue) /\ pending[Head(queue)] = 0
        BY <1>6, <3>1 DEF IInv, TypeOK, EvTypeOK, WakeWaiter, SetEvent
      <3>3. PICK u \in Tcs : waiter[u] = Head(queue)
        BY <3>2 DEF IInv, NoLostWakeup
      <3>4. waiter'[u] = Head(queue)
        BY <1>6, <3>2, <3>3 DEF IInv, TypeOK, WakeWaiter
      <3> QED  BY <3>4
    <2> QED  BY <2>1, <2>2 DEF IInv
  <1>7. ASSUME NEW t \in Tcs, Destroy(t) PROVE IInv'
    BY <1>7 DEF IInv, TypeOK, EvTypeOK, HeldByOwner, NoLostWakeup, LocalOK, Destroy, evVars
  <1>8. CASE UNCHANGED vars
    BY <1>8 DEF IInv, TypeOK, EvTypeOK, HeldByOwner, NoLostWakeup, LocalOK,
                vars, evVars, mutexVars
  <1> QED
    BY <1>1, <1>2, <1>3, <1>4, <1>5, <1>6, <1>7, <1>8 DEF Next

\* The inductive invariant holds of every reachable state of the mutex.
THEOREM InvariantHolds == Spec => []IInv
  BY InitIInv, NextIInv, PTL DEF Spec

\* The fields of Inner and the locals of lock() and unlock() keep their types.
THEOREM TypeCorrect == Spec => []TypeOK
  BY InvariantHolds, PTL DEF IInv

\* At most one thread was ever told that it has the mutex, and refcount counts
\* how often: exclusion of lock(), try_lock() and unlock(), for any threads.
THEOREM Exclusion == Spec => []HeldByOwner
  BY InvariantHolds, PTL DEF IInv

\* unlock() loses no wakeup although it sets the event after it released the
\* spin lock, and although waits return spuriously and events go stale.
THEOREM WakeupNotLost == Spec => []NoLostWakeup
  BY InvariantHolds, PTL DEF IInv

\* A pass of lock() is a request or an acquisition of the abstract lock.
LEMMA LockPassImplements ==
  ASSUME IInv, NEW t \in Tcs, pc[t] # "wake", LockPass(t)
  PROVE  AL!LockNext \/ UNCHANGED AL!lockVars
  <1>1. CASE (Reenter(t) \/ Take(t)) /\ ReturnLocked(t)
    <2>1. \A u \in Tcs \ {t} : held[u] = 0
      BY <1>1, NoneAssumption DEF IInv, HeldByOwner, Reenter, Take, MayTake
    <2>2. {u \in Tcs : pc'[u] = "lock"} = {u \in Tcs : pc[u] = "lock"} \ {t}
      BY <1>1 DEF ReturnLocked, Goto, IInv, TypeOK
    <2> QED
      BY <1>1, <2>1, <2>2 DEF AL!LockNext, AL!Acquire, ReturnLocked
  <1>2. CASE Park(t)
    <2>1. {u \in Tcs : pc'[u] = "lock"} = {u \in Tcs : pc[u] = "lock"} \cup {t}
      BY <1>2 DEF Park, Goto, IInv, TypeOK
    <2>2. CASE pc[t] = "lock"
      <3>1. {u \in Tcs : pc'[u] = "lock"} = {u \in Tcs : pc[u] = "lock"}
        BY <2>1, <2>2
      <3> QED  BY <1>2, <3>1 DEF AL!lockVars, Park
    <2>3. CASE pc[t] # "lock"
      BY <1>2, <2>1, <2>3 DEF AL!LockNext, AL!Request, Park
    <2> QED  BY <2>2, <2>3
  <1> QED  BY <1>1, <1>2 DEF LockPass

\* Every step of the mutex is a step of the abstract lock, or none.
LEMMA NextImplements == IInv /\ [Next]_vars => [AL!LockNext]_(AL!lockVars)
  <1> SUFFICES ASSUME IInv, [Next]_vars
               PROVE  AL!LockNext \/ UNCHANGED AL!lockVars
    OBVIOUS
  <1> DEFINE wants == {u \in Tcs : pc[u] = "lock"}
  <1>1. ASSUME NEW t \in Tcs, Lock(t) \/ LockRetry(t) \/ TryLock(t)
        PROVE  AL!LockNext \/ UNCHANGED AL!lockVars
    <2>1. pc[t] # "wake" /\ LockPass(t)
      BY <1>1 DEF Lock, LockRetry, TryLock, MayLock, LockPass
    <2> QED  BY <2>1, LockPassImplements
  <1>2. ASSUME NEW t \in Tcs, LockWake(t) \/ Destroy(t)
        PROVE  UNCHANGED AL!lockVars
    BY <1>2 DEF AL!lockVars, LockWake, Destroy, mutexVars
  <1>3. ASSUME NEW t \in Tcs, Unlock(t) PROVE AL!LockNext
    <2>1. held[t] > 0 /\ held' = [held EXCEPT ![t] = @ - 1]
      BY <1>3, NoneAssumption DEF Unlock, UnlockLazy, IInv, TypeOK, HeldByOwner
    <2>2. wants' = wants
      BY <1>3 DEF Unlock, Goto, IInv, TypeOK
    <2> QED  BY <2>1, <2>2 DEF AL!LockNext, AL!Release
  <1>4. ASSUME NEW t \in Tcs, WakeWaiter(t) PROVE UNCHANGED AL!lockVars
    <2>1. wants' = wants
      BY <1>4 DEF WakeWaiter, Goto, IInv, TypeOK
    <2> QED  BY <1>4, <2>1 DEF AL!lockVars, WakeWaiter
  <1>5. CASE UNCHANGED vars
    BY <1>5 DEF AL!lockVars, vars, mutexVars
  <1> QED  BY <1>1, <1>2, <1>3, <1>4, <1>5 DEF Next

\* The queue-based mutex implements the abstract lock, for any threads.
THEOREM MutexImplementsLock == Spec => ImplementsLock
  <1>1. Init => AL!LockInit
    BY DEF Init, AL!LockInit
  <1> QED
    BY <1>1, InvariantHolds, NextImplements, PTL DEF Spec, ImplementsLock, AL!LockSafety
=============================================================================
