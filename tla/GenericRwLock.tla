---------------------------- MODULE GenericRwLock ----------------------------
(***************************************************************************)
(* The queue-based reader-writer lock of sgx_sync                          *)
(* (sys/locks/generic/rwlock.rs).  Its fields are guarded by a spin lock;  *)
(* events are set after it is released.                                    *)
(***************************************************************************)
EXTENDS HostEvent, Sequences, FiniteSets, Functions

CONSTANTS
    None,       \* no thread
    MaxReads,   \* bound on the read locks a thread holds at once
    MaxEvents   \* bound on the undelivered events of a thread

ASSUME NoneAssumption == None \notin Tcs
ASSUME BoundsAssumption == MaxReads \in Nat \ {0} /\ MaxEvents \in Nat \ {0}

VARIABLES
    reader_count, owner, reader_queue, writer_queue,   \* the fields of Inner
    pc,        \* "idle", "read" (in read()), "write" (in write()), "wake"
    wakes,     \* wakes[t]: the threads that t, in an unlock, has still to wake
    reads,     \* reads[t]: the read locks t was granted and still holds: its view
    writers    \* the threads whose write() or try_write() succeeded

queues == <<reader_queue, writer_queue>>
vars == <<evVars, reader_count, owner, queues, pc, wakes, reads, writers>>

Elems(q) == {q[i] : i \in DOMAIN q}
Without(q, t) == SelectSeq(q, LAMBDA u : u # t)

TypeOK ==
    /\ EvTypeOK
    /\ reader_count \in Nat
    /\ owner \in Tcs \cup {None}
    /\ reader_queue \in Seq(Tcs) /\ writer_queue \in Seq(Tcs)
    /\ pc \in [Tcs -> {"idle", "read", "write", "wake"}]
    /\ wakes \in [Tcs -> Seq(Tcs)]
    /\ reads \in [Tcs -> Nat] /\ writers \in SUBSET Tcs

Init ==
    /\ EvInit
    /\ reader_count = 0 /\ owner = None
    /\ reader_queue = <<>> /\ writer_queue = <<>>
    /\ pc = [t \in Tcs |-> "idle"]
    /\ wakes = [t \in Tcs |-> <<>>]
    /\ reads = [t \in Tcs |-> 0] /\ writers = {}

Goto(t, label) == pc' = [pc EXCEPT ![t] = label]

\* The EDEADLK returns to the owner change nothing.  A thread that reads may read
\* again; it does not call write(), which would wait for itself.
MayCallRead(t) == pc[t] = "idle" /\ t \notin writers /\ reads[t] < MaxReads
MayCallWrite(t) == pc[t] = "idle" /\ t \notin writers /\ reads[t] = 0

TakeRead(t) ==
    /\ owner = None
    /\ reader_count' = reader_count + 1
    /\ reads' = [reads EXCEPT ![t] = @ + 1]
    /\ Goto(t, "idle")
    /\ UNCHANGED <<evVars, owner, writer_queue, wakes, writers>>

\* Mutant of MayWrite: a writer enters beside readers.
MayWriteBesideReaders == owner = None

MayWrite == owner = None /\ reader_count = 0

TakeWrite(t) ==
    /\ MayWrite
    /\ owner' = t
    /\ writers' = writers \cup {t}
    /\ Goto(t, "idle")
    /\ UNCHANGED <<evVars, reader_count, reader_queue, wakes, reads>>

\* The thread leaves the enclave until its event is set.
Sleep(t, label) ==
    /\ BeginWait(t)
    /\ Goto(t, label)
    /\ UNCHANGED <<pending, reader_count, owner, wakes, reads, writers>>

Read(t) ==
    /\ MayCallRead(t)
    /\ \/ TakeRead(t) /\ UNCHANGED reader_queue
       \/ /\ owner # None
          /\ reader_queue' = Append(reader_queue, t)
          /\ Sleep(t, "read") /\ UNCHANGED writer_queue

ReadRetry(t) ==
    /\ pc[t] = "read" /\ t \notin waiting
    /\ \/ TakeRead(t) /\ reader_queue' = Without(reader_queue, t)
       \/ owner # None /\ Sleep(t, "read") /\ UNCHANGED queues

TryRead(t) == MayCallRead(t) /\ TakeRead(t) /\ UNCHANGED reader_queue

Write(t) ==
    /\ MayCallWrite(t)
    /\ \/ TakeWrite(t) /\ UNCHANGED writer_queue
       \/ /\ ~MayWrite
          /\ writer_queue' = Append(writer_queue, t)
          /\ Sleep(t, "write") /\ UNCHANGED reader_queue

WriteRetry(t) ==
    /\ pc[t] = "write" /\ t \notin waiting
    /\ \/ TakeWrite(t) /\ writer_queue' = Without(writer_queue, t)
       \/ ~MayWrite /\ Sleep(t, "write") /\ UNCHANGED queues

TryWrite(t) == MayCallWrite(t) /\ TakeWrite(t) /\ UNCHANGED writer_queue

\* The wait ocall returns, for whatever reason: its result is ignored.
WaitReturns(t) ==
    /\ EndWait(t)
    /\ UNCHANGED <<reader_count, owner, queues, pc, wakes, reads, writers>>

FrontWriter == IF writer_queue = <<>> THEN <<>> ELSE <<Head(writer_queue)>>

\* The spin lock is released and then the events of the threads ts are set.
ThenWake(t, ts) ==
    /\ wakes' = [wakes EXCEPT ![t] = ts]
    /\ Goto(t, IF ts = <<>> THEN "idle" ELSE "wake")

\* Mutant of ReadUnlock: every reader that leaves, and only the last does not,
\* wakes a writer.
ReadUnlockEarly(t) ==
    /\ pc[t] = "idle" /\ reads[t] > 0
    /\ reader_count # 0
    /\ reader_count' = reader_count - 1
    /\ reads' = [reads EXCEPT ![t] = @ - 1]
    /\ ThenWake(t, IF reader_count # 1 THEN FrontWriter ELSE <<>>)
    /\ UNCHANGED <<evVars, owner, queues, writers>>

\* The last reader to leave wakes the first queued writer.
ReadUnlock(t) ==
    /\ pc[t] = "idle" /\ reads[t] > 0
    /\ reader_count # 0
    /\ reader_count' = reader_count - 1
    /\ reads' = [reads EXCEPT ![t] = @ - 1]
    /\ ThenWake(t, IF reader_count = 1 THEN FrontWriter ELSE <<>>)
    /\ UNCHANGED <<evVars, owner, queues, writers>>

\* Mutant of WriteUnlock: only the first queued reader is woken.
WriteUnlockFirst(t) ==
    /\ pc[t] = "idle" /\ owner = t
    /\ owner' = None
    /\ writers' = writers \ {t}
    /\ ThenWake(t, IF reader_queue # <<>> THEN <<Head(reader_queue)>> ELSE FrontWriter)
    /\ UNCHANGED <<evVars, reader_count, queues, reads>>

\* A writer that leaves wakes all queued readers, or else the first writer.
WriteUnlock(t) ==
    /\ pc[t] = "idle" /\ owner = t
    /\ owner' = None
    /\ writers' = writers \ {t}
    /\ ThenWake(t, IF reader_queue # <<>> THEN reader_queue ELSE FrontWriter)
    /\ UNCHANGED <<evVars, reader_count, queues, reads>>

\* The events are set one by one.  Those of a thread may add up, see MaxEvents.
SendWake(t) ==
    /\ pc[t] = "wake"
    /\ SetEventUpTo(Head(wakes[t]), MaxEvents)
    /\ ThenWake(t, Tail(wakes[t]))
    /\ UNCHANGED <<waiting, reader_count, owner, queues, reads, writers>>

Next == \E t \in Tcs :
    \/ Read(t) \/ ReadRetry(t) \/ TryRead(t)
    \/ Write(t) \/ WriteRetry(t) \/ TryWrite(t)
    \/ WaitReturns(t) \/ ReadUnlock(t) \/ WriteUnlock(t) \/ SendWake(t)

Spec == Init /\ [][Next]_vars

\* Threads run and events are delivered; nobody is made to unlock.
Fairness == \A t \in Tcs :
    /\ WF_vars(WaitReturns(t) /\ Ready(t))
    /\ WF_vars(ReadRetry(t) \/ WriteRetry(t))
    /\ WF_vars(SendWake(t))

FairSpec == Spec /\ Fairness
-----------------------------------------------------------------------------
(* Properties *)

\* Readers or one writer: what the threads were told agrees with reader_count and
\* owner, and nobody reads while somebody writes.
ReadersXorWriter ==
    /\ reader_count = FoldFunction(+, 0, reads)
    /\ writers = (IF owner = None THEN {} ELSE {owner})
    /\ reader_count = 0 \/ writers = {}

\* The event of t is set, or a thread in an unlock is about to set it, or t is
\* running and will look at the lock again.
Coming(t) ==
    \/ t \notin waiting
    \/ pending[t] > 0
    \/ \E u \in Tcs : t \in Elems(wakes[u])

\* Nobody is left behind.  Once no writer owns the lock, every queued reader is on
\* its way, although writers may overtake it; when the lock is free, the first
\* queued writer is, or a reader is whose read_unlock() will wake that writer.
NoLostWakeup ==
    /\ owner = None => \A t \in Elems(reader_queue) : Coming(t)
    /\ MayWrite /\ writer_queue # <<>> =>
           Coming(Head(writer_queue)) \/ reader_queue # <<>>

\* A free lock with blocked threads is taken again: whoever unlocked, somebody
\* gets it, whatever order the threads run in.
Progress ==
    MayWrite /\ (\E t \in Tcs : pc[t] \in {"read", "write"}) ~> ~MayWrite
=============================================================================
