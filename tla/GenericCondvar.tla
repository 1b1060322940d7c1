--------------------------- MODULE GenericCondvar ---------------------------
(***************************************************************************)
(* The queue-based condition variable of sgx_sync                          *)
(* (sys/locks/generic/condvar.rs), composed with the mutex its waiters     *)
(* release and the host events both share.                                 *)
(***************************************************************************)
EXTENDS GenericMutex

VARIABLES
    cvqueue,    \* Inner.queue of the condition variable
    wakes,      \* wakes[t]: the threads t, in notify, has still to wake
    expired     \* expired[t]: t's last wait ocall reported ETIMEDOUT

cvVars == <<cvqueue, wakes, expired>>
allVars == <<vars, cvVars>>

CvQueued == {cvqueue[i] : i \in DOMAIN cvqueue}

\* pc adds "setwait" and "cwait" (in wait), "relock" (leaving it) and "notify".
CvTypeOK ==
    /\ EvTypeOK
    /\ refcount \in Nat
    /\ owner \in Tcs \cup {None}
    /\ queue \in Seq(Tcs)
    /\ pc \in [Tcs -> {"idle", "lock", "wake", "setwait", "cwait", "relock", "notify"}]
    /\ waiter \in [Tcs -> Tcs \cup {None}]
    /\ held \in [Tcs -> Nat]
    /\ cvqueue \in Seq(Tcs)
    /\ wakes \in [Tcs -> Seq(Tcs)]
    /\ expired \in [Tcs -> BOOLEAN]

CvInit ==
    /\ Init
    /\ cvqueue = <<>>
    /\ wakes = [t \in Tcs |-> <<>>]
    /\ expired = [t \in Tcs |-> FALSE]

\* wait_timeout(): the thread queues itself and releases the mutex under the spin
\* lock of the condition variable.  The error of a caller that does not own the
\* mutex leaves both queues as they were.  wait() does the same with no timeout,
\* which is a wait_timeout() whose time is never up, so it has no action of its own.
Wait(t) ==
    /\ pc[t] = "idle"
    /\ cvqueue' = Append(cvqueue, t)
    /\ UnlockLazy(t)
    /\ waiter' = [waiter EXCEPT ![t] = LazyWaiter]
    /\ IF LazyWaiter = None
       THEN Goto(t, "cwait") /\ BeginWait(t)
       ELSE Goto(t, "setwait") /\ UNCHANGED waiting
    /\ UNCHANGED <<pending, wakes, expired>>

\* Mutant of SetWait: the thread waits without waking the mutex's next owner.
SetWaitSilent(t) ==
    /\ pc[t] = "setwait"
    /\ waiter' = [waiter EXCEPT ![t] = None]
    /\ BeginWait(t)
    /\ Goto(t, "cwait")
    /\ UNCHANGED <<pending, control, refcount, owner, queue, held, cvVars>>

\* thread_setwait_events: the host sets the event of the mutex's next owner and
\* then waits for the caller's.
SetWait(t) ==
    /\ pc[t] = "setwait"
    /\ SetEvent(waiter[t])
    /\ waiter' = [waiter EXCEPT ![t] = None]
    /\ BeginWait(t)
    /\ Goto(t, "cwait")
    /\ UNCHANGED <<control, refcount, owner, queue, held, cvVars>>

\* The wait ocall returns: by an event, spuriously, or because time is up.
WaitWake(t) ==
    /\ pc[t] = "cwait"
    /\ EndWait(t)
    /\ \E e \in BOOLEAN : expired' = [expired EXCEPT ![t] = e]
    /\ UNCHANGED <<mutexVars, cvqueue, wakes>>

Leave(t) ==
    /\ Goto(t, "relock")
    /\ expired' = [expired EXCEPT ![t] = FALSE]
    /\ UNCHANGED waiting

\* Mutant of WaitCheck: a thread whose time is up stays in the queue.
WaitCheckStale(t) ==
    /\ pc[t] = "cwait"
    /\ t \notin waiting
    /\ \/ /\ t \notin CvQueued \/ expired[t]
          /\ Leave(t)
       \/ /\ t \in CvQueued /\ ~expired[t]
          /\ BeginWait(t)
          /\ UNCHANGED <<pc, expired>>
    /\ UNCHANGED <<pending, inner, waiter, held, cvqueue, wakes>>

\* The thread looks for itself in the queue: it was notified if it is gone, it
\* takes itself out if its time is up, and waits again otherwise.
WaitCheck(t) ==
    /\ pc[t] = "cwait"
    /\ t \notin waiting
    /\ \/ t \notin CvQueued /\ Leave(t) /\ UNCHANGED cvqueue
       \/ /\ t \in CvQueued /\ expired[t]
          /\ cvqueue' = SelectSeq(cvqueue, LAMBDA u : u # t)
          /\ Leave(t)
       \/ /\ t \in CvQueued /\ ~expired[t]
          /\ BeginWait(t)
          /\ UNCHANGED <<pc, cvqueue, expired>>
    /\ UNCHANGED <<pending, inner, waiter, held, wakes>>

\* wait() locks the mutex again before it returns.
Relock(t) == pc[t] = "relock" /\ LockPass(t) /\ UNCHANGED cvVars

\* Mutant of NotifyOne: the thread is taken out of the queue and not woken.
NotifyOneSilent(t) ==
    /\ pc[t] = "idle"
    /\ cvqueue # <<>>
    /\ cvqueue' = Tail(cvqueue)
    /\ UNCHANGED <<vars, wakes, expired>>

\* Notifying an empty queue changes nothing.
NotifyOne(t) ==
    /\ pc[t] = "idle"
    /\ cvqueue # <<>>
    /\ wakes' = [wakes EXCEPT ![t] = <<Head(cvqueue)>>]
    /\ cvqueue' = Tail(cvqueue)
    /\ Goto(t, "notify")
    /\ UNCHANGED <<evVars, inner, waiter, held, expired>>

NotifyAll(t) ==
    /\ pc[t] = "idle"
    /\ cvqueue # <<>>
    /\ wakes' = [wakes EXCEPT ![t] = [i \in 1..Len(cvqueue) |->
                                        cvqueue[Len(cvqueue) + 1 - i]]]
    /\ cvqueue' = <<>>
    /\ Goto(t, "notify")
    /\ UNCHANGED <<evVars, inner, waiter, held, expired>>

\* Mutant of SendWake: only the first of the notified threads is woken.
SendWakeFirst(t) ==
    /\ pc[t] = "notify"
    /\ SetEvent(Head(wakes[t]))
    /\ wakes' = [wakes EXCEPT ![t] = <<>>]
    /\ Goto(t, "idle")
    /\ UNCHANGED <<waiting, inner, waiter, held, cvqueue, expired>>

\* The events are set one by one, after the spin lock is released.
SendWake(t) ==
    /\ pc[t] = "notify"
    /\ SetEvent(Head(wakes[t]))
    /\ wakes' = [wakes EXCEPT ![t] = Tail(@)]
    /\ Goto(t, IF Tail(wakes[t]) = <<>> THEN "idle" ELSE "notify")
    /\ UNCHANGED <<waiting, inner, waiter, held, cvqueue, expired>>

CvStep(t) ==
    \/ Wait(t) \/ SetWait(t) \/ WaitWake(t) \/ WaitCheck(t) \/ Relock(t)
    \/ NotifyOne(t) \/ NotifyAll(t) \/ SendWake(t)

CvNext == (Next /\ UNCHANGED cvVars) \/ \E t \in Tcs : CvStep(t)

CvSpec == CvInit /\ [][CvNext]_allVars

\* A thread inside an operation runs, its wait ending when its event is set, and
\* holders unlock.  No timer and no signal is counted on.
Running(t) ==
    \/ ((LockWake(t) /\ Ready(t)) \/ LockRetry(t) \/ WakeWaiter(t)) /\ UNCHANGED cvVars
    \/ WaitWake(t) /\ Ready(t)
    \/ SetWait(t) \/ WaitCheck(t) \/ Relock(t) \/ SendWake(t)

CvFairness == \A t \in Tcs :
    WF_allVars(Running(t)) /\ WF_allVars(Unlock(t) /\ UNCHANGED cvVars)

CvFairSpec == CvSpec /\ CvFairness
-----------------------------------------------------------------------------
(* Properties *)

\* No lost notification: a thread that a notifier took out of the queue and that
\* is still parked has its event set, or the notifier is about to set it, even
\* though the events of the mutex and of the condition variable are the same.
NotifiedIsWoken == \A t \in Tcs :
    pc[t] = "cwait" /\ t \notin CvQueued /\ t \in waiting =>
        \/ pending[t] > 0
        \/ \E u \in Tcs : \E i \in DOMAIN wakes[u] : wakes[u][i] = t

\* The queue holds threads that are in wait(), each once: a thread that timed out
\* leaves no entry behind for a later notify_one() to spend itself on.
NoStaleWaiter ==
    /\ \A t \in CvQueued : pc[t] \in {"setwait", "cwait"}
    /\ \A i, j \in DOMAIN cvqueue : cvqueue[i] = cvqueue[j] => i = j

\* A notified wait() returns, and holds the mutex when it does.
NotifiedReturns == \A t \in Tcs :
    pc[t] = "cwait" /\ t \notin CvQueued ~> pc[t] = "idle" /\ held[t] > 0
=============================================================================
