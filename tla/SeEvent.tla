------------------------------- MODULE SeEvent -------------------------------
(***************************************************************************)
(* The host's event of a TCS (sgx_urts/src/ocall/sync.rs): an AtomicI32    *)
(* and the host kernel's futex on it.  Only the thread of a TCS waits for  *)
(* the TCS's event; any thread sets it.  An event is created with value 0  *)
(* under a mutex when it is first looked up, so it is 0 from the start.    *)
(***************************************************************************)
EXTENDS Integers

CONSTANTS
    Tcs,
    MaxVal   \* bound on unconsumed events

ASSUME MaxValAssumption == MaxVal \in Nat \ {0}

VARIABLES
    val,      \* val[t]: the AtomicI32 of t's SeEvent
    pc,       \* "out", in wait(): "fetched", "asleep", "ret", "done"; in wake(): "wake"
    res,      \* res[t]: the result of the futex syscall of t's wait
    target    \* target[t]: whose event t is setting

vars == <<val, pc, res, target>>

Results == {"ok", "EAGAIN", "EINTR", "ETIMEDOUT"}
InWait == {"fetched", "asleep", "ret", "done"}

TypeOK ==
    /\ val \in [Tcs -> -1..MaxVal]
    /\ pc \in [Tcs -> InWait \cup {"out", "wake"}]
    /\ res \in [Tcs -> Results]
    /\ target \in [Tcs -> Tcs]

Init ==
    /\ val = [t \in Tcs |-> 0]
    /\ pc = [t \in Tcs |-> "out"]
    /\ res = [t \in Tcs |-> "ok"]
    /\ target = [t \in Tcs |-> t]

Goto(t, label) == pc' = [pc EXCEPT ![t] = label]

\* wait() and wait_timeout(): the counter goes down; an event that was pending
\* ends the wait at once.
Wait(t) ==
    /\ pc[t] = "out"
    /\ val' = [val EXCEPT ![t] = @ - 1]
    /\ Goto(t, IF val[t] = 0 THEN "fetched" ELSE "done")
    /\ UNCHANGED <<res, target>>

\* FUTEX_WAIT(-1): the kernel compares and sleeps in one step.
FutexWait(t) ==
    /\ pc[t] = "fetched"
    /\ \/ val[t] = -1 /\ Goto(t, "asleep") /\ UNCHANGED res
       \/ /\ val[t] # -1
          /\ Goto(t, "ret")
          /\ res' = [res EXCEPT ![t] = "EAGAIN"]
    /\ UNCHANGED <<val, target>>

\* The sleep is cut short by a signal or by the timeout.
FutexInterrupted(t) ==
    /\ pc[t] = "asleep"
    /\ Goto(t, "ret")
    /\ \E r \in {"EINTR", "ETIMEDOUT"} : res' = [res EXCEPT ![t] = r]
    /\ UNCHANGED <<val, target>>

\* Mutant of Settle: the counter is restored whatever became of it.
SettleBlindly(t) ==
    /\ pc[t] = "ret"
    /\ val' = [val EXCEPT ![t] = 0]
    /\ Goto(t, "out")
    /\ res' = [res EXCEPT ![t] = "ok"]
    /\ UNCHANGED target

\* compare_exchange(-1, 0), and the return of wait().
Settle(t) ==
    /\ pc[t] = "ret"
    /\ val' = [val EXCEPT ![t] = IF @ = -1 THEN 0 ELSE @]
    /\ Goto(t, "out")
    /\ res' = [res EXCEPT ![t] = "ok"]
    /\ UNCHANGED target

Return(t) == pc[t] = "done" /\ Goto(t, "out") /\ UNCHANGED <<val, res, target>>

\* Mutant of Wake: the sleeper is woken only when events were already pending.
WakePositive(s, t) ==
    /\ pc[s] = "out" /\ val[t] < MaxVal
    /\ val' = [val EXCEPT ![t] = @ + 1]
    /\ IF val[t] > 0 THEN Goto(s, "wake") /\ target' = [target EXCEPT ![s] = t]
                  ELSE UNCHANGED <<pc, target>>
    /\ UNCHANGED res

\* wake(): FUTEX_WAKE follows unless the counter was 0 (nobody is waiting).
Wake(s, t) ==
    /\ pc[s] = "out" /\ val[t] < MaxVal
    /\ val' = [val EXCEPT ![t] = @ + 1]
    /\ IF val[t] # 0 THEN Goto(s, "wake") /\ target' = [target EXCEPT ![s] = t]
                  ELSE UNCHANGED <<pc, target>>
    /\ UNCHANGED res

\* The threads after a FUTEX_WAKE(1) by s: its target is woken if it sleeps by
\* then, even in a later wait than the one the counter was raised for.
Woken(s) == [t \in Tcs |-> IF t = s THEN "out"
                           ELSE IF t = target[s] /\ pc[t] = "asleep" THEN "ret"
                           ELSE pc[t]]

FutexWake(s) ==
    /\ pc[s] = "wake"
    /\ pc' = Woken(s)
    /\ target' = [target EXCEPT ![s] = s]
    /\ UNCHANGED <<val, res>>

Next == \E t \in Tcs :
    \/ Wait(t) \/ FutexWait(t) \/ FutexInterrupted(t) \/ Settle(t) \/ Return(t)
    \/ FutexWake(t)
    \/ \E u \in Tcs : Wake(t, u)

Spec == Init /\ [][Next]_vars

\* Host threads run and the kernel delivers wakes; signals and timeouts are
\* never counted on.
Fairness == \A t \in Tcs :
    /\ WF_vars(FutexWait(t))
    /\ WF_vars(Settle(t))
    /\ WF_vars(Return(t))
    /\ WF_vars(FutexWake(t))

FairSpec == Spec /\ Fairness
-----------------------------------------------------------------------------
(* Properties *)

\* An event set for a sleeping thread wakes it: while a thread sleeps although
\* its counter is no longer -1, the thread that raised it is about to call
\* FUTEX_WAKE.  The raise and the wake are two steps, and so are the drop of the
\* counter and the sleep.
NoLostEvent == \A t \in Tcs :
    /\ pc[t] = "asleep" /\ val[t] # -1 =>
         \E s \in Tcs : pc[s] = "wake" /\ target[s] = t
    /\ val[t] < 0 => val[t] = -1 /\ pc[t] \in InWait \ {"done"}

\* A wait reports EAGAIN only when an event was set during it, so the callers in
\* sgx_sync may take EAGAIN for an event received.
EagainMeansEvent == \A t \in Tcs :
    pc[t] = "ret" /\ res[t] = "EAGAIN" => val[t] >= 0

HE == INSTANCE HostEvent WITH
    pending <- [t \in Tcs |-> IF pc[t] \in InWait THEN val[t] + 1 ELSE val[t]],
    waiting <- {t \in Tcs : pc[t] \in InWait}

\* The event counts: whatever the interleaving of wait() and wake() with the
\* futex calls between, each set event ends exactly one wait.
ImplementsHostEvent == HE!EvSpec

\* A wait with an event pending returns, with no help from signals or timeouts.
PendingWaitReturns == \A t \in Tcs :
    pc[t] \in InWait /\ HE!Ready(t) ~> pc[t] = "out"
=============================================================================
