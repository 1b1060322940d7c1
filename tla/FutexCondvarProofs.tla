------------------------- MODULE FutexCondvarProofs -------------------------
(***************************************************************************)
(* The futex-based condition variable composed with its mutex, for any set *)
(* of threads: the waits and wakes of the condition variable take nothing  *)
(* from what FutexMutexProofs shows of the mutex alone.                    *)
(***************************************************************************)
EXTENDS FutexCondvar, FutexMutexProofs

\* A thread inside the condition variable is not inside lock().
InCondvar == \A t \in Tcs : cpc[t] # "out" => pc[t] \in {"idle", "wake"}

\* The inductive invariant of the composition.
CvIInv == IInv /\ CvTypeOK /\ InCondvar

\* Every initial state satisfies it (Condvar::new, Mutex::new).
LEMMA CvInitIInv == CvInit => CvIInv
  BY InitIInv DEF CvInit, CvIInv, CvTypeOK, InCondvar, IInv

\* The steps of a thread that is inside the condition variable's own futex calls.
FutexStep(t) == CvSleep(t) \/ CvAwake(t) \/ CvGiveUp(t) \/ CvLeave(t) \/ NotifyWake(t)

\* The futex calls on the condition variable's word leave the queue of the mutex
\* and the threads in it as they are.
LEMMA FutexStepFrame ==
  ASSUME CvIInv, NEW t \in Tcs, FutexStep(t)
  PROVE  /\ UNCHANGED mtxVars
         /\ FxTypeOK' /\ asleep'["mutex"] = asleep["mutex"]
         /\ \A u \in Tcs : pc[u] = "asleep" /\ u \in leaving => u \in leaving'
  <1> USE WordsAssumption, CondvarAssumption
  <1>2. CASE CvSleep(t)
    BY <1>2 DEF CvSleep, FxWait, fxVars, CvIInv, IInv, TypeOK, FxTypeOK
  <1>3. CASE CvAwake(t)
    BY <1>3 DEF CvAwake, FxReturn, CvIInv, IInv, TypeOK, FxTypeOK
  <1>4. CASE CvGiveUp(t)
    BY <1>4 DEF CvGiveUp, FxGiveUp, CvIInv, IInv, TypeOK, FxTypeOK
  <1>5. CASE CvLeave(t)
    <2>1. t \notin asleep["mutex"] /\ pc[t] # "asleep"
      BY <1>5 DEF CvLeave, CvIInv, IInv, InCondvar, QueuedIsAsleep
    <2>2. UNCHANGED mtxVars /\ FxLeave(t)
      BY <1>5 DEF CvLeave
    <2> QED  BY <2>1, <2>2 DEF FxLeave, CvIInv, IInv, TypeOK, FxTypeOK
  <1>6. CASE NotifyWake(t)
    BY <1>6 DEF NotifyWake, FxWakeOne, FxWakeAll, FxWake, fxVars, CvIInv, IInv, TypeOK, FxTypeOK
  <1> QED  BY <1>2, <1>3, <1>4, <1>5, <1>6 DEF FutexStep

\* So they keep the invariant of the mutex.
LEMMA FutexStepIInv ==
  ASSUME CvIInv, NEW t \in Tcs, FutexStep(t)
  PROVE  IInv'
  <1>1. /\ UNCHANGED mtxVars
        /\ FxTypeOK' /\ asleep'["mutex"] = asleep["mutex"]
        /\ \A u \in Tcs : pc[u] = "asleep" /\ u \in leaving => u \in leaving'
    BY FutexStepFrame
  <1>2. TypeOK' /\ Exclusive' /\ QueuedIsAsleep'
    BY <1>1 DEF CvIInv, IInv, TypeOK, Exclusive, QueuedIsAsleep, mtxVars
  <1>3. \A u \in Tcs : Coming(u) => Coming(u)'
    BY <1>1 DEF Coming, mtxVars
  <1>4. SleepersAreCovered'
    BY <1>1, <1>3 DEF CvIInv, IInv, SleepersAreCovered, mtxVars
  <1> QED  BY <1>2, <1>4 DEF IInv

\* Every other step is one of the mutex, or leaves it alone.
LEMMA CvStepKinds ==
  ASSUME NEW t \in Tcs, MutexStep(t) \/ CvCall(t) \/ CvStep(t) \/ CvGiveUp(t)
  PROVE  FutexStep(t) \/ [Next]_vars
  BY DEF MutexStep, MutexCall, CvCall, CvWait, NotifyOne, NotifyAll, CvStep, CvUnlock, CvRelock,
         FutexStep, Next

\* Where a thread is in both changes together.
LEMMA CvStepLocal ==
  ASSUME CvIInv, IInv', NEW t \in Tcs, MutexStep(t) \/ CvCall(t) \/ CvStep(t) \/ CvGiveUp(t)
  PROVE  CvTypeOK' /\ InCondvar'
  <1>0. TypeOK' /\ pc \in [Tcs -> {"idle", "spin", "cas", "loop", "wait", "asleep", "respin", "wake"}]
    BY DEF CvIInv, IInv, TypeOK
  <1>1. CASE MutexStep(t)
    <2>1. CvTypeOK'
      BY <1>0, <1>1 DEF MutexStep, CvIInv, CvTypeOK, cvVars
    <2>2. UNCHANGED cpc
      BY <1>1 DEF MutexStep, cvVars
    <2>3. CASE MutexCall(t)
      <3>1. cpc[t] = "out" /\ \A u \in Tcs \ {t} : pc'[u] = pc[u]
        BY <1>0, <2>3 DEF MutexCall, TryLock, Lock, Unlock, Locked, Goto
      <3> QED  BY <2>1, <2>2, <3>1 DEF CvIInv, InCondvar
    <2>4. CASE GiveUp(t)
      BY <2>1, <2>2, <2>4 DEF GiveUp, mtxVars, CvIInv, InCondvar
    <2>5. CASE Step(t)
      <3>1. \A u \in Tcs \ {t} : pc'[u] = pc[u]
        BY <1>0, <2>5 DEF Step, Spin, Cas, Loop, Wait, Awake, LeaveWait, Respin, Wake, Locked, Goto
      <3>2. pc[t] # "idle" /\ (pc[t] = "wake" => pc'[t] = "idle")
        BY <1>0, <2>5 DEF Step, Spin, Cas, Loop, Wait, Awake, LeaveWait, Respin, Wake, Locked, Goto
      <3> QED  BY <2>1, <2>2, <3>1, <3>2 DEF CvIInv, InCondvar
    <2> QED  BY <1>1, <2>3, <2>4, <2>5 DEF MutexStep
  <1>2. CASE CvCall(t)
    BY <1>0, <1>2 DEF CvCall, CvWait, NotifyOne, NotifyAll, CvGoto, vars, mtxVars,
                      CvIInv, CvTypeOK, InCondvar
  <1>3. CASE CvUnlock(t)
    BY <1>0, <1>3 DEF CvUnlock, Unlock, Goto, CvGoto, CvIInv, CvTypeOK, InCondvar
  <1>4. CASE CvRelock(t)
    <2>1. \A u \in Tcs \ {t} : pc'[u] = pc[u]
      BY <1>0, <1>4 DEF CvRelock, Lock, TryLock, Locked, Goto
    <2> QED  BY <1>0, <1>4, <2>1 DEF CvRelock, CvGoto, CvIInv, CvTypeOK, InCondvar
  <1>5. CASE FutexStep(t)
    <2>1. UNCHANGED pc
      BY <1>5, FutexStepFrame DEF mtxVars
    <2>2. CvTypeOK'
      BY <1>0, <1>5 DEF FutexStep, CvSleep, CvAwake, CvGiveUp, CvLeave, NotifyWake, CvDone, CvGoto,
                        cvVars, CvIInv, CvTypeOK
    <2>3. InCondvar'
      BY <1>5, <2>1 DEF FutexStep, CvSleep, CvAwake, CvGiveUp, CvLeave, NotifyWake, CvDone, CvGoto,
                        cvVars, CvIInv, CvTypeOK, InCondvar
    <2> QED  BY <2>2, <2>3
  <1> QED  BY <1>1, <1>2, <1>3, <1>4, <1>5 DEF CvStep, FutexStep

\* Every step keeps the inductive invariant of the composition.
LEMMA CvNextIInv == CvIInv /\ [CvNext]_allVars => CvIInv'
  <1> SUFFICES ASSUME CvIInv, [CvNext]_allVars PROVE CvIInv'
    OBVIOUS
  <1>1. ASSUME NEW t \in Tcs, MutexStep(t) \/ CvCall(t) \/ CvStep(t) \/ CvGiveUp(t)
        PROVE  CvIInv'
    <2>1. IInv'
      BY <1>1, CvStepKinds, FutexStepIInv, NextIInv DEF CvIInv
    <2> QED  BY <1>1, <2>1, CvStepLocal DEF CvIInv
  <1>2. CASE UNCHANGED allVars
    <2>1. IInv'
      BY <1>2, NextIInv DEF allVars, CvIInv
    <2> QED  BY <1>2, <2>1 DEF allVars, vars, mtxVars, cvVars, CvIInv, CvTypeOK, InCondvar, IInv
  <1> QED  BY <1>1, <1>2 DEF CvNext

\* The inductive invariant holds of every reachable state of the composition.
THEOREM CvInvariantHolds == CvSpec => []CvIInv
  BY CvInitIInv, CvNextIInv, PTL DEF CvSpec

\* No sleeper of the mutex is left behind, also when waits of the condition variable
\* release and take the mutex and its notifications wake threads, for any threads.
THEOREM CvSleepersCovered == CvSpec => []SleepersAreCovered
  <1>1. CvIInv => SleepersAreCovered
    BY DEF CvIInv, IInv
  <1> QED  BY <1>1, CvInvariantHolds, PTL

\* Every step of the composition is a step of the abstract lock, or none.
LEMMA CvNextImplements == CvIInv /\ [CvNext]_allVars => [AL!LockNext]_(AL!lockVars)
  <1> SUFFICES ASSUME CvIInv, [CvNext]_allVars
               PROVE  AL!LockNext \/ UNCHANGED AL!lockVars
    OBVIOUS
  <1>1. ASSUME NEW t \in Tcs, FutexStep(t) PROVE UNCHANGED AL!lockVars
    BY <1>1, FutexStepFrame DEF mtxVars, AL!lockVars
  <1>2. CASE [Next]_vars
    BY <1>2, NextImplements DEF CvIInv
  <1>3. CASE UNCHANGED allVars
    BY <1>2, <1>3 DEF allVars
  <1> QED  BY <1>1, <1>2, <1>3, CvStepKinds DEF CvNext

\* The mutex implements the abstract lock also for the threads that wait on and
\* notify a condition variable with it, however many there are.
THEOREM CvImplementsLock == CvSpec => ImplementsLock
  <1>1. CvInit => AL!LockInit
    BY DEF CvInit, Init, AL!LockInit
  <1> QED
    BY <1>1, CvInvariantHolds, CvNextImplements, PTL DEF CvSpec, ImplementsLock, AL!LockSafety
=============================================================================
