-------------------------- MODULE FutexMutexProofs --------------------------
(***************************************************************************)
(* FutexMutex for any set of threads: exclusion, that no sleeper is left   *)
(* without somebody who will wake it, and that it implements AbstractLock. *)
(***************************************************************************)
EXTENDS FutexMutex, TLAPS

\* A thread that is queued on the futex is in the futex.
QueuedIsAsleep == \A t \in asleep["mutex"] : pc[t] = "asleep"

\* The inductive invariant.
IInv == TypeOK /\ Exclusive /\ QueuedIsAsleep /\ SleepersAreCovered

\* Every initial state satisfies the inductive invariant (FutexMutex::new).
LEMMA InitIInv == Init => IInv
  BY WordsAssumption
  DEF Init, FxInit, IInv, TypeOK, FxTypeOK, Exclusive, QueuedIsAsleep, SleepersAreCovered

\* The word and the views of the threads only change when the mutex is taken or
\* released, and both keep exclusion.
LEMMA TakenIsExclusive ==
  ASSUME IInv, NEW t \in Tcs, futex = 0, futex' \in {1, 2}, Locked(t)
  PROVE  Exclusive'
  BY DEF IInv, TypeOK, Exclusive, Locked

\* A thread that takes the mutex is queued nowhere before and after.
LEMMA TakenIsTyped ==
  ASSUME IInv, NEW t \in Tcs, pc[t] # "asleep", futex' \in {1, 2}, Locked(t), UNCHANGED fxVars
  PROVE  TypeOK' /\ QueuedIsAsleep' /\ pc' = [pc EXCEPT ![t] = pc'[t]]
  <1>1. FxTypeOK' /\ futex' \in 0..2
    BY DEF IInv, TypeOK, FxTypeOK, fxVars
  <1>2. /\ pc' \in [Tcs -> {"idle", "spin", "cas", "loop", "wait", "asleep", "respin", "wake"}]
        /\ pc' = [pc EXCEPT ![t] = pc'[t]]
    BY DEF IInv, TypeOK, Locked, Goto
  <1>3. state' \in [Tcs -> 0..2] /\ held' \in [Tcs -> BOOLEAN]
    BY DEF IInv, TypeOK, Locked
  <1>4. QueuedIsAsleep'
    BY WordsAssumption DEF IInv, TypeOK, FxTypeOK, QueuedIsAsleep, Locked, Goto, fxVars
  <1> QED  BY <1>1, <1>2, <1>3, <1>4 DEF TypeOK

\* A thread that goes from one place in lock() to another where it will still look
\* at the word keeps the sleepers covered.
LEMMA ComingCovers ==
  ASSUME NEW t \in Tcs, IInv, pc' = [pc EXCEPT ![t] = pc'[t]], pc'[t] \in {"loop", "wait", "respin", "wake"}
  PROVE  SleepersAreCovered'
  BY DEF IInv, TypeOK, SleepersAreCovered, Coming

\* Taking a mutex that is not contended leaves the one who covers the sleepers alone.
LEMMA OthersCover ==
  ASSUME IInv, NEW t \in Tcs, pc[t] \in {"idle", "spin", "cas"}, futex # 2,
         UNCHANGED fxVars, pc' = [pc EXCEPT ![t] = pc'[t]]
  PROVE  SleepersAreCovered'
  <1> SUFFICES ASSUME asleep["mutex"] # {}
               PROVE  \E u \in Tcs : pc'[u] = "wake" \/ Coming(u)'
    BY DEF SleepersAreCovered, fxVars
  <1>1. PICK u \in Tcs : pc[u] = "wake" \/ Coming(u)
    BY DEF IInv, SleepersAreCovered
  <1>2. u # t
    BY <1>1 DEF Coming
  <1>3. pc'[u] = pc[u]
    BY <1>2 DEF IInv, TypeOK
  <1> QED  BY <1>1, <1>3 DEF Coming, fxVars

\* Every step keeps the inductive invariant.
LEMMA NextIInv == IInv /\ [Next]_vars => IInv'
  <1> SUFFICES ASSUME IInv, [Next]_vars PROVE IInv'
    OBVIOUS
  <1> USE WordsAssumption
  <1>1. ASSUME NEW t \in Tcs, TryLock(t) PROVE IInv'
    <2>1. TypeOK' /\ QueuedIsAsleep' /\ pc' = [pc EXCEPT ![t] = pc'[t]]
      BY <1>1, TakenIsTyped DEF TryLock
    <2>2. Exclusive'
      BY <1>1, TakenIsExclusive DEF TryLock
    <2>3. SleepersAreCovered'
      BY <1>1, <2>1, OthersCover DEF TryLock
    <2> QED  BY <2>1, <2>2, <2>3 DEF IInv
  <1>2. ASSUME NEW t \in Tcs, Lock(t) PROVE IInv'
    <2> SUFFICES ASSUME pc[t] = "idle", Goto(t, "spin"),
                        UNCHANGED <<fxVars, futex, state, held>>
                 PROVE  IInv'
      BY <1>1, <1>2 DEF Lock
    <2>1. TypeOK' /\ Exclusive' /\ QueuedIsAsleep'
      BY DEF IInv, TypeOK, FxTypeOK, Exclusive, QueuedIsAsleep, Goto, fxVars
    <2>2. SleepersAreCovered'
      BY OthersCover DEF IInv, TypeOK, SleepersAreCovered, Goto, fxVars
    <2> QED  BY <2>1, <2>2 DEF IInv
  <1>3. ASSUME NEW t \in Tcs, Spin(t) PROVE IInv'
    <2>1. TypeOK' /\ Exclusive' /\ QueuedIsAsleep'
      BY <1>3 DEF IInv, TypeOK, FxTypeOK, Exclusive, QueuedIsAsleep, Spin, Goto, fxVars
    <2>2. SleepersAreCovered'
      BY <1>3, OthersCover DEF IInv, TypeOK, SleepersAreCovered, Spin, Goto, fxVars
    <2> QED  BY <2>1, <2>2 DEF IInv
  <1>4. ASSUME NEW t \in Tcs, Cas(t) PROVE IInv'
    <2>1. TypeOK' /\ QueuedIsAsleep' /\ pc' = [pc EXCEPT ![t] = pc'[t]]
      <3>1. CASE futex = 0
        BY <1>4, <3>1, TakenIsTyped DEF Cas
      <3>2. CASE futex # 0
        BY <1>4, <3>2 DEF IInv, TypeOK, FxTypeOK, QueuedIsAsleep, Cas, Goto, fxVars
      <3> QED  BY <3>1, <3>2
    <2>2. Exclusive'
      BY <1>4, TakenIsExclusive DEF Cas, IInv, Exclusive
    <2>3. SleepersAreCovered'
      <3>1. CASE futex = 0
        BY <1>4, <2>1, <3>1, OthersCover DEF Cas
      <3>2. CASE futex # 0
        BY <1>4, <3>2, ComingCovers DEF Cas, Goto, IInv, TypeOK
      <3> QED  BY <3>1, <3>2
    <2> QED  BY <2>1, <2>2, <2>3 DEF IInv
  <1>5. ASSUME NEW t \in Tcs, Loop(t) PROVE IInv'
    <2>1. TypeOK' /\ QueuedIsAsleep'
      <3>1. CASE state[t] # 2 /\ futex = 0
        BY <1>5, <3>1, TakenIsTyped DEF Loop
      <3>2. CASE state[t] = 2 \/ futex # 0
        BY <1>5, <3>2 DEF IInv, TypeOK, FxTypeOK, QueuedIsAsleep, Loop, Goto, fxVars
      <3> QED  BY <3>1, <3>2
    <2>2. Exclusive'
      <3>1. CASE state[t] # 2 /\ futex = 0
        BY <1>5, <3>1, TakenIsExclusive DEF Loop
      <3>2. CASE state[t] = 2 \/ futex # 0
        BY <1>5, <3>2 DEF Loop, IInv, TypeOK, Exclusive
      <3> QED  BY <3>1, <3>2
    <2>3. SleepersAreCovered'
      <3>1. CASE state[t] = 2
        BY <1>5, <3>1, ComingCovers DEF Loop, Goto, IInv, TypeOK
      <3>2. CASE state[t] # 2
        BY <1>5, <3>2 DEF Loop, SleepersAreCovered
      <3> QED  BY <3>1, <3>2
    <2> QED  BY <2>1, <2>2, <2>3 DEF IInv
  <1>6. ASSUME NEW t \in Tcs, Wait(t) PROVE IInv'
    <2>1. TypeOK' /\ Exclusive' /\ QueuedIsAsleep'
      BY <1>6 DEF IInv, TypeOK, FxTypeOK, Exclusive, QueuedIsAsleep, Wait, FxWait, Goto, fxVars
    <2>2. SleepersAreCovered'
      <3>1. CASE futex = 2
        BY <1>6, <3>1 DEF Wait, SleepersAreCovered
      <3>2. CASE futex # 2
        BY <1>6, <3>2, ComingCovers DEF Wait, Goto, IInv, TypeOK
      <3> QED  BY <3>1, <3>2
    <2> QED  BY <2>1, <2>2 DEF IInv
  <1>7. ASSUME NEW t \in Tcs, Awake(t) PROVE IInv'
    <2>1. TypeOK' /\ Exclusive' /\ QueuedIsAsleep'
      BY <1>7 DEF IInv, TypeOK, FxTypeOK, Exclusive, QueuedIsAsleep, Awake, FxReturn,
                  IsQueued, Goto
    <2>2. SleepersAreCovered'
      BY <1>7, ComingCovers DEF Awake, Goto, IInv, TypeOK
    <2> QED  BY <2>1, <2>2 DEF IInv
  <1>8. ASSUME NEW t \in Tcs, GiveUp(t) PROVE IInv'
    <2>1. TypeOK' /\ Exclusive' /\ QueuedIsAsleep'
      BY <1>8 DEF IInv, TypeOK, FxTypeOK, Exclusive, QueuedIsAsleep, GiveUp, FxGiveUp, mtxVars
    <2>2. SleepersAreCovered'
      BY <1>8 DEF SleepersAreCovered, Coming, GiveUp, FxGiveUp, mtxVars
    <2> QED  BY <2>1, <2>2 DEF IInv
  <1>9. ASSUME NEW t \in Tcs, LeaveWait(t) PROVE IInv'
    <2>1. TypeOK' /\ Exclusive' /\ QueuedIsAsleep'
      BY <1>9 DEF IInv, TypeOK, FxTypeOK, Exclusive, QueuedIsAsleep, LeaveWait, FxLeave, Goto
    <2>2. SleepersAreCovered'
      BY <1>9, ComingCovers DEF LeaveWait, Goto, IInv, TypeOK
    <2> QED  BY <2>1, <2>2 DEF IInv
  <1>10. ASSUME NEW t \in Tcs, Respin(t) PROVE IInv'
    <2>1. TypeOK' /\ Exclusive' /\ QueuedIsAsleep'
      BY <1>10 DEF IInv, TypeOK, FxTypeOK, Exclusive, QueuedIsAsleep, Respin, Goto, fxVars
    <2>2. SleepersAreCovered'
      BY <1>10, ComingCovers DEF Respin, Goto, IInv, TypeOK
    <2> QED  BY <2>1, <2>2 DEF IInv
  <1>11. ASSUME NEW t \in Tcs, Unlock(t) PROVE IInv'
    <2>1. TypeOK' /\ QueuedIsAsleep'
      BY <1>11 DEF IInv, TypeOK, FxTypeOK, QueuedIsAsleep, Unlock, Goto, fxVars
    <2>2. Exclusive'
      BY <1>11 DEF IInv, TypeOK, Exclusive, Unlock
    <2>3. SleepersAreCovered'
      <3>1. CASE futex = 2
        BY <1>11, <3>1, ComingCovers DEF Unlock, Goto, IInv, TypeOK
      <3>2. CASE futex # 2
        BY <1>11, <3>2, OthersCover DEF Unlock, Goto, IInv, TypeOK
      <3> QED  BY <3>1, <3>2
    <2> QED  BY <2>1, <2>2, <2>3 DEF IInv
  <1>12. ASSUME NEW t \in Tcs, Wake(t) PROVE IInv'
    <2>1. TypeOK' /\ Exclusive' /\ QueuedIsAsleep'
      BY <1>12 DEF IInv, TypeOK, FxTypeOK, Exclusive, QueuedIsAsleep, Wake, FxWakeOne, FxWake,
                   Goto, fxVars
    <2>2. SleepersAreCovered'
      <3>1. CASE asleep["mutex"] = {}
        BY <1>12, <3>1 DEF Wake, FxWakeOne, FxWake, fxVars, SleepersAreCovered
      <3>2. ASSUME NEW u \in asleep["mutex"], FxWake("mutex", {u})
            PROVE  SleepersAreCovered'
        <4>1. u \in Tcs /\ pc[u] = "asleep" /\ u # t
          BY <1>12, <3>2 DEF IInv, TypeOK, FxTypeOK, QueuedIsAsleep, Wake
        <4>2. pc'[u] = "asleep" /\ u \notin asleep'["mutex"]
          BY <1>12, <3>2, <4>1 DEF IInv, TypeOK, FxTypeOK, Wake, Goto, FxWake
        <4> QED  BY <4>1, <4>2 DEF SleepersAreCovered, Coming
      <3> QED  BY <1>12, <3>1, <3>2 DEF Wake, FxWakeOne
    <2> QED  BY <2>1, <2>2 DEF IInv
  <1>13. CASE UNCHANGED vars
    BY <1>13 DEF IInv, TypeOK, FxTypeOK, Exclusive, QueuedIsAsleep, SleepersAreCovered,
                 Coming, vars, fxVars, mtxVars
  <1> QED
    BY <1>1, <1>2, <1>3, <1>4, <1>5, <1>6, <1>7, <1>8, <1>9, <1>10, <1>11, <1>12, <1>13
    DEF Next, Step

\* The inductive invariant holds of every reachable state of the mutex.
THEOREM InvariantHolds == Spec => []IInv
  BY InitIInv, NextIInv, PTL DEF Spec

\* One thread at most was told that it has the mutex, and the word is 0 exactly when
\* none was: exclusion of lock(), try_lock() and unlock(), for any threads.
THEOREM Exclusion == Spec => []Exclusive
  BY InvariantHolds, PTL DEF IInv

\* unlock() leaves no sleeper behind: while a thread sleeps the mutex is marked, or a
\* wake is due, or a thread is awake that will mark it, for any threads.
THEOREM SleepersCovered == Spec => []SleepersAreCovered
  BY InvariantHolds, PTL DEF IInv
-----------------------------------------------------------------------------
(* The mutex implements the abstract lock. *)

Wants == {t \in Tcs : pc[t] \notin {"idle", "wake"}}
Holds == [t \in Tcs |-> IF held[t] THEN 1 ELSE 0]

\* A thread that takes the free mutex acquires the abstract lock.
LEMMA TakenIsAcquired ==
  ASSUME IInv, NEW t \in Tcs, futex = 0, Locked(t)
  PROVE  AL!LockNext
  <1>1. \A u \in Tcs : ~held[u]
    BY DEF IInv, Exclusive
  <1>2. \A u \in Tcs \ {t} : Holds[u] = 0
    BY <1>1 DEF Holds
  <1>3. Wants' = Wants \ {t}
    BY DEF Wants, Locked, Goto, IInv, TypeOK
  <1>4. Holds' = [Holds EXCEPT ![t] = @ + 1]
    <2>1. held'[t] /\ \A u \in Tcs \ {t} : ~held'[u]
      BY <1>1, Zenon DEF Locked, IInv, TypeOK
    <2>2. Holds' = [u \in Tcs |-> IF u = t THEN 1 ELSE 0] /\ Holds = [u \in Tcs |-> 0]
      BY <1>1, <2>1, Zenon DEF Holds
    <2> QED  BY <2>2
  <1>5. AL!Acquire(t)
    BY <1>2, <1>3, <1>4 DEF AL!Acquire, Wants, Holds
  <1> QED  BY <1>5 DEF AL!LockNext

\* A step inside lock(), or one that ends unlock(), is none of the abstract lock.
LEMMA InsideIsStutter ==
  ASSUME IInv, NEW t \in Tcs, UNCHANGED held, pc' = [pc EXCEPT ![t] = pc'[t]],
         pc[t] \in {"idle", "wake"} <=> pc'[t] \in {"idle", "wake"}
  PROVE  UNCHANGED AL!lockVars
  <1>1. Wants' = Wants
    BY DEF Wants, IInv, TypeOK
  <1> QED  BY <1>1 DEF AL!lockVars, Wants

\* Every step of the mutex is a step of the abstract lock, or none.
LEMMA NextImplements == IInv /\ [Next]_vars => [AL!LockNext]_(AL!lockVars)
  <1> SUFFICES ASSUME IInv, [Next]_vars
               PROVE  AL!LockNext \/ UNCHANGED AL!lockVars
    OBVIOUS
  <1>1. ASSUME NEW t \in Tcs, TryLock(t) PROVE AL!LockNext
    BY <1>1, TakenIsAcquired DEF TryLock
  <1>2. ASSUME NEW t \in Tcs, Lock(t) PROVE AL!LockNext
    <2>1. CASE TryLock(t)
      BY <1>1, <2>1
    <2>2. CASE pc[t] = "idle" /\ Goto(t, "spin") /\ UNCHANGED held
      <3>1. t \notin Wants /\ Wants' = Wants \cup {t}
        BY <2>2 DEF Wants, Goto, IInv, TypeOK
      <3>2. AL!Request(t)
        BY <2>2, <3>1 DEF AL!Request, Wants
      <3> QED  BY <3>2 DEF AL!LockNext
    <2> QED  BY <1>2, <2>1, <2>2 DEF Lock
  <1>3. ASSUME NEW t \in Tcs, Cas(t) \/ Loop(t)
        PROVE  AL!LockNext \/ UNCHANGED AL!lockVars
    <2>1. CASE futex = 0 /\ Locked(t)
      BY <2>1, TakenIsAcquired
    <2>2. CASE ~(futex = 0 /\ Locked(t))
      BY <1>3, <2>2, InsideIsStutter DEF Cas, Loop, Goto, IInv, TypeOK
    <2> QED  BY <2>1, <2>2
  <1>4. ASSUME NEW t \in Tcs, Spin(t) \/ Wait(t) \/ Awake(t) \/ LeaveWait(t) \/ Respin(t) \/ Wake(t)
        PROVE  UNCHANGED AL!lockVars
    BY <1>4, InsideIsStutter DEF Spin, Wait, Awake, LeaveWait, Respin, Wake, Goto, IInv, TypeOK
  <1>5. ASSUME NEW t \in Tcs, GiveUp(t) PROVE UNCHANGED AL!lockVars
    BY <1>5 DEF GiveUp, mtxVars, AL!lockVars
  <1>6. ASSUME NEW t \in Tcs, Unlock(t) PROVE AL!LockNext
    <2>1. Wants' = Wants
      BY <1>6 DEF Wants, Unlock, Goto, IInv, TypeOK
    <2>2. Holds[t] > 0 /\ Holds' = [Holds EXCEPT ![t] = @ - 1]
      <3>1. held[t] /\ ~held'[t]
        BY <1>6, Zenon DEF Unlock, IInv, TypeOK
      <3>2. \A u \in Tcs \ {t} : ~held[u] /\ ~held'[u]
        BY <1>6, Zenon DEF Unlock, IInv, TypeOK, Exclusive
      <3>3. Holds = [u \in Tcs |-> IF u = t THEN 1 ELSE 0] /\ Holds' = [u \in Tcs |-> 0]
        BY <3>1, <3>2, Zenon DEF Holds
      <3> QED  BY <3>3
    <2>3. AL!Release(t)
      BY <2>1, <2>2 DEF AL!Release, Wants, Holds
    <2> QED  BY <2>3 DEF AL!LockNext
  <1>7. CASE UNCHANGED vars
    BY <1>7 DEF AL!lockVars, vars, mtxVars
  <1> QED
    BY <1>1, <1>2, <1>3, <1>4, <1>5, <1>6, <1>7 DEF Next, Step

\* The futex-based mutex implements the abstract lock, for any threads.
THEOREM MutexImplementsLock == Spec => ImplementsLock
  <1>1. Init => AL!LockInit
    BY DEF Init, AL!LockInit
  <1> QED
    BY <1>1, InvariantHolds, NextImplements, PTL DEF Spec, ImplementsLock, AL!LockSafety
=============================================================================
