---------------------------- MODULE FutexCondvar ----------------------------
(***************************************************************************)
(* The futex-based condition variable of sgx_sync                          *)
(* (sys/locks/futex/condvar.rs), composed with the mutex its waiters       *)
(* unlock and lock again.                                                  *)
(*                                                                         *)
(* The counter is only ever compared with a value loaded from it earlier.  *)
(* So it is modelled by the set of threads whose value is still the        *)
(* counter's, which leaves out its wrap after 2^32 notifications.          *)
(***************************************************************************)
EXTENDS FutexMutex

ASSUME CondvarAssumption == "condvar" \in Words

VARIABLES
    fresh,   \* the threads that loaded the counter after its last increment
    cpc,     \* where each thread is in the condition variable, see CvTypeOK
    owed     \* the waits that were under way when a notify_all() began

cvVars == <<fresh, cpc, owed>>
allVars == <<vars, cvVars>>

\* cpc: "out"; "unlock", "wait", "asleep" and "relock" in wait(); "one" and "all"
\* in notify_one() and notify_all(), after the increment.
CvTypeOK ==
    /\ TypeOK
    /\ fresh \in SUBSET Tcs
    /\ cpc \in [Tcs -> {"out", "unlock", "wait", "asleep", "relock", "one", "all"}]
    /\ owed \in SUBSET Tcs

CvInit ==
    /\ Init
    /\ fresh = {}
    /\ cpc = [t \in Tcs |-> "out"]
    /\ owed = {}

CvGoto(t, label) == cpc' = [cpc EXCEPT ![t] = label]

\* The counter is loaded before the mutex is unlocked.  wait() is a wait_timeout()
\* whose time is never up, so it has no action of its own.
CvWait(t) ==
    /\ cpc[t] = "out" /\ pc[t] = "idle" /\ held[t]
    /\ fresh' = fresh \cup {t}
    /\ CvGoto(t, "unlock")
    /\ UNCHANGED <<vars, owed>>

\* mutex.unlock(), with its wake if it makes one.
CvUnlock(t) ==
    /\ cpc[t] = "unlock"
    /\ Unlock(t)
    /\ CvGoto(t, "wait")
    /\ UNCHANGED <<fresh, owed>>

\* The thread is done waiting, for whatever reason.
CvDone(t) ==
    /\ CvGoto(t, "relock")
    /\ fresh' = fresh \ {t}
    /\ owed' = owed \ {t}

\* Mutant of CvSleep: the thread sleeps without comparing the counter.
CvSleepBlindly(t) ==
    /\ cpc[t] = "wait" /\ pc[t] = "idle"
    /\ FxWait(t, "condvar") /\ CvGoto(t, "asleep") /\ UNCHANGED <<fresh, owed>>
    /\ UNCHANGED mtxVars

\* futex_wait: the thread sleeps unless there was a notification since its load.
CvSleep(t) ==
    /\ cpc[t] = "wait" /\ pc[t] = "idle"
    /\ \/ /\ t \in fresh
          /\ FxWait(t, "condvar") /\ CvGoto(t, "asleep") /\ UNCHANGED <<fresh, owed>>
       \/ t \notin fresh /\ CvDone(t) /\ UNCHANGED fxVars
    /\ UNCHANGED mtxVars

CvAwake(t) == cpc[t] = "asleep" /\ FxReturn(t) /\ CvDone(t) /\ UNCHANGED mtxVars

CvGiveUp(t) == cpc[t] = "asleep" /\ FxGiveUp(t) /\ UNCHANGED <<mtxVars, cvVars>>

\* EINTR: futex_wait tries again, with the whole timeout.  It returns when it
\* gets EAGAIN or ETIMEDOUT.
CvLeave(t) ==
    /\ cpc[t] = "asleep"
    /\ FxLeave(t)
    /\ \/ CvGoto(t, "wait") /\ UNCHANGED <<fresh, owed>>
       \/ CvDone(t)
    /\ UNCHANGED mtxVars

\* mutex.lock() begins; wait() returns when it has the mutex.
CvRelock(t) ==
    /\ cpc[t] = "relock"
    /\ Lock(t)
    /\ CvGoto(t, "out")
    /\ UNCHANGED <<fresh, owed>>

\* fetch_add(1), with or without the mutex.
NotifyOne(t) ==
    /\ cpc[t] = "out" /\ pc[t] = "idle"
    /\ fresh' = {}
    /\ CvGoto(t, "one")
    /\ UNCHANGED <<vars, owed>>

NotifyAll(t) ==
    /\ cpc[t] = "out" /\ pc[t] = "idle"
    /\ fresh' = {}
    /\ owed' = {u \in Tcs : cpc[u] \in {"unlock", "wait", "asleep"}}
    /\ CvGoto(t, "all")
    /\ UNCHANGED vars

\* futex_wake and futex_wake_all.
NotifyWake(t) ==
    /\ \/ cpc[t] = "one" /\ FxWakeOne("condvar")
       \/ cpc[t] = "all" /\ FxWakeAll("condvar")
    /\ CvGoto(t, "out")
    /\ UNCHANGED <<mtxVars, fresh, owed>>

\* The mutex's own steps: its clients', and those of a wait() that uses it.
MutexCall(t) == cpc[t] = "out" /\ (TryLock(t) \/ Lock(t) \/ Unlock(t))
MutexStep(t) == (MutexCall(t) \/ GiveUp(t) \/ Step(t)) /\ UNCHANGED cvVars

CvCall(t) == CvWait(t) \/ NotifyOne(t) \/ NotifyAll(t)
CvStep(t) == CvUnlock(t) \/ CvSleep(t) \/ CvAwake(t) \/ CvLeave(t) \/ CvRelock(t)
             \/ NotifyWake(t)

CvNext == \E t \in Tcs :
    MutexStep(t) \/ CvCall(t) \/ CvStep(t) \/ CvGiveUp(t)

CvSpec == CvInit /\ [][CvNext]_allVars

\* Threads inside an operation run; no timer and no signal is counted on.
CvFairness == \A t \in Tcs : WF_allVars(CvStep(t) \/ (Step(t) /\ UNCHANGED cvVars))

CvFairSpec == CvSpec /\ CvFairness
-----------------------------------------------------------------------------
(* Properties *)

\* A wait that a notify_all() found under way returns to its mutex, although
\* signals may send it back to sleep and notify_one() may spend itself on it.
NotifiedLeaves == \A t \in Tcs : t \in owed ~> t \notin owed
=============================================================================
