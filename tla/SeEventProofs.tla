--------------------------- MODULE SeEventProofs ---------------------------
(***************************************************************************)
(* SeEvent for any set of threads: it loses no event and implements the    *)
(* counted event of HostEvent that the locks of the enclave rely on.       *)
(***************************************************************************)
EXTENDS SeEvent, TLAPS

\* A thread that is not returning from its futex syscall has no result of it.
ResultOK == \A t \in Tcs : pc[t] # "ret" => res[t] = "ok"

\* The inductive invariant.
IInv == TypeOK /\ NoLostEvent /\ EagainMeansEvent /\ ResultOK

\* A fresh event is 0 and nobody waits for it.
LEMMA InitIInv == Init => IInv
  BY MaxValAssumption
  DEF Init, IInv, TypeOK, NoLostEvent, EagainMeansEvent, ResultOK, InWait, Results

\* Every step of wait(), wake() and the kernel keeps the inductive invariant.
LEMMA NextIInv == IInv /\ [Next]_vars => IInv'
  <1> SUFFICES ASSUME IInv, [Next]_vars PROVE IInv'
    OBVIOUS
  <1> USE DEF IInv, TypeOK, NoLostEvent, EagainMeansEvent, ResultOK, InWait, Results, Goto
  <1>1. ASSUME NEW t \in Tcs, Wait(t) PROVE IInv'
    BY <1>1, MaxValAssumption DEF Wait
  <1>2. ASSUME NEW t \in Tcs, FutexWait(t) PROVE IInv'
    BY <1>2 DEF FutexWait
  <1>3. ASSUME NEW t \in Tcs, FutexInterrupted(t) PROVE IInv'
    BY <1>3 DEF FutexInterrupted
  <1>4. ASSUME NEW t \in Tcs, Settle(t) PROVE IInv'
    BY <1>4, MaxValAssumption DEF Settle
  <1>5. ASSUME NEW t \in Tcs, Return(t) PROVE IInv'
    BY <1>5 DEF Return
  <1>6. ASSUME NEW s \in Tcs, FutexWake(s) PROVE IInv'
    <2>1. Woken(s) \in [Tcs -> InWait \cup {"out", "wake"}]
      BY DEF Woken
    <2>2. TypeOK'
      BY <1>6, <2>1 DEF FutexWake
    <2>3. EagainMeansEvent' /\ ResultOK'
      BY <1>6 DEF FutexWake, Woken
    <2>4. NoLostEvent'
      BY <1>6 DEF FutexWake, Woken
    <2> QED  BY <2>2, <2>3, <2>4
  <1>7. ASSUME NEW s \in Tcs, NEW t \in Tcs, Wake(s, t) PROVE IInv'
    <2>1. TypeOK' /\ EagainMeansEvent' /\ ResultOK'
      BY <1>7, MaxValAssumption DEF Wake
    <2>2. NoLostEvent'
      BY <1>7 DEF Wake
    <2> QED  BY <2>1, <2>2
  <1>8. CASE UNCHANGED vars
    BY <1>8 DEF vars
  <1> QED
    BY <1>1, <1>2, <1>3, <1>4, <1>5, <1>6, <1>7, <1>8 DEF Next

\* The inductive invariant holds of every reachable state of the events.
THEOREM InvariantHolds == Spec => []IInv
  BY InitIInv, NextIInv, PTL DEF Spec

\* The counter of an event is never below -1: only its own thread waits for it,
\* and each wait puts back what it took.
THEOREM TypeCorrect == Spec => []TypeOK
  BY InvariantHolds, PTL DEF IInv

\* An event that finds its thread asleep has a FUTEX_WAKE on its way, for any
\* number of threads that set it: wake() and wait() lose no event.
THEOREM EventNotLost == Spec => []NoLostEvent
  BY InvariantHolds, PTL DEF IInv

\* EAGAIN is only reported for an event that was set during the wait.
THEOREM EagainIsAnEvent == Spec => []EagainMeansEvent
  BY InvariantHolds, PTL DEF IInv

\* Every step of the host's code is a step of the counted event, or none.
LEMMA NextImplements == IInv /\ [Next]_vars => [HE!EvNext]_(HE!evVars)
  <1> SUFFICES ASSUME IInv, [Next]_vars
               PROVE  HE!EvNext \/ UNCHANGED HE!evVars
    OBVIOUS
  <1> USE DEF IInv, TypeOK, NoLostEvent, InWait, Goto
  <1> DEFINE pendingOf == [u \in Tcs |-> IF pc[u] \in InWait THEN val[u] + 1 ELSE val[u]]
  <1>1. ASSUME NEW t \in Tcs, Wait(t) PROVE HE!EvBegin(t)
    BY <1>1 DEF Wait, HE!EvBegin, HE!BeginWait
  <1>2. ASSUME NEW t \in Tcs, FutexWait(t) \/ FutexInterrupted(t)
        PROVE  UNCHANGED HE!evVars
    BY <1>2 DEF FutexWait, FutexInterrupted, HE!evVars
  <1>3. ASSUME NEW t \in Tcs, Settle(t) \/ Return(t) PROVE HE!EndWait(t)
    <2>1. {u \in Tcs : pc'[u] \in InWait} = {u \in Tcs : pc[u] \in InWait} \ {t}
      BY <1>3 DEF Settle, Return
    <2>2. pendingOf[t] \in Nat
      BY <1>3 DEF Settle, Return
    <2>3. ASSUME NEW u \in Tcs
          PROVE  pendingOf[u]' = IF u = t THEN IF pendingOf[t] > 0 THEN pendingOf[t] - 1 ELSE 0
                                 ELSE pendingOf[u]
      BY <1>3, <2>2 DEF Settle, Return
    <2> HIDE DEF pendingOf
    <2>4. pendingOf' = [pendingOf EXCEPT ![t] = IF @ > 0 THEN @ - 1 ELSE 0]
      <3>1. pendingOf' = [u \in Tcs |-> pendingOf'[u]] /\ pendingOf = [u \in Tcs |-> pendingOf[u]]
        BY DEF pendingOf
      <3> QED  BY <2>3, <3>1
    <2> USE DEF pendingOf
    <2> QED  BY <1>3, <2>1, <2>4 DEF Settle, Return, HE!EndWait
  <1>4. ASSUME NEW s \in Tcs, FutexWake(s) PROVE UNCHANGED HE!evVars
    BY <1>4 DEF FutexWake, Woken, HE!evVars
  <1>5. ASSUME NEW s \in Tcs, NEW t \in Tcs, Wake(s, t) PROVE HE!EvSet(t)
    <2>1. {u \in Tcs : pc'[u] \in InWait} = {u \in Tcs : pc[u] \in InWait}
      BY <1>5 DEF Wake
    <2>2. ASSUME NEW u \in Tcs
          PROVE  pendingOf[u]' = IF u = t THEN pendingOf[t] + 1 ELSE pendingOf[u]
      BY <1>5 DEF Wake
    <2>3. pendingOf' = [pendingOf EXCEPT ![t] = @ + 1]
      BY <2>2
    <2> QED  BY <2>1, <2>3 DEF HE!EvSet, HE!SetEvent
  <1>6. CASE UNCHANGED vars
    BY <1>6 DEF vars, HE!evVars
  <1> QED
    BY <1>1, <1>2, <1>3, <1>4, <1>5, <1>6 DEF Next, HE!EvNext

\* The AtomicI32 with its futex implements the counted event, for any threads.
THEOREM EventImplementsHostEvent == Spec => ImplementsHostEvent
  <1>1. Init => HE!EvInit
    BY DEF Init, HE!EvInit, InWait
  <1> QED
    BY <1>1, InvariantHolds, NextImplements, PTL DEF Spec, ImplementsHostEvent, HE!EvSpec
=============================================================================
