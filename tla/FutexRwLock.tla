----------------------------- MODULE FutexRwLock -----------------------------
(***************************************************************************)
(* The futex-based reader-writer lock of sgx_sync                          *)
(* (sys/locks/futex/rwlock.rs).  One step per atomic access.               *)
(*                                                                         *)
(* The 32-bit state is the record of its three fields.  writer_notify is   *)
(* only compared with a value loaded from it earlier, so it is modelled by *)
(* the threads whose value is still current: its wrap is left out.         *)
(***************************************************************************)
EXTENDS AbstractFutex

CONSTANT MaxReaders   \* MAX_READERS, the most readers the counter can hold

ASSUME RwAssumption == {"state", "writer_notify"} \subseteq Words /\ MaxReaders \in Nat \ {0}

VARIABLES
    state,     \* [n |-> readers or WRITE_LOCKED, rw |-> READERS_WAITING, ww |-> WRITERS_WAITING]
    fresh,     \* the threads whose seq is the value of writer_notify
    pc,        \* where each thread is, see TypeOK
    local,     \* local[t]: the local copy of state
    others,    \* others[t]: other_writers_waiting
    readers,   \* the threads whose read() or try_read() succeeded: their view
    writers    \* the threads whose write() or try_write() succeeded

own == <<readers, writers>>
rwVars == <<state, fresh, pc, local, others, own>>
vars == <<fxVars, rwVars>>

WRITE_LOCKED == MaxReaders + 1
States == [n : 0..WRITE_LOCKED, rw : BOOLEAN, ww : BOOLEAN]
Bits(rw, ww) == [n |-> 0, rw |-> rw, ww |-> ww]

is_unlocked(s) == s.n = 0

\* Mutant of is_read_lockable: waiting readers do not hold readers back.
ReadLockableAnyway(s) == s.n < MaxReaders /\ ~s.ww

\* Mutant of is_read_lockable: one reader too many.
ReadLockableOver(s) == s.n <= MaxReaders /\ ~s.rw /\ ~s.ww

is_read_lockable(s) == s.n < MaxReaders /\ ~s.rw /\ ~s.ww

\* pc: "idle"; "rspin", "rloop", "rwait", "rasleep" in read(); "wspin", "wloop",
\* "wseq", "wcheck", "wwait", "wasleep" in write(); "writers", "both", "readers"
\* (the three parts of wake_writer_or_readers), "notify" and "notifyBoth" (its
\* wake_writer calls, before the increment), "wake1" and "wake1Both" (after it),
\* "wakeAll".
ReadLabels == {"rspin", "rloop", "rwait", "rasleep"}
WriteLabels == {"wspin", "wloop", "wseq", "wcheck", "wwait", "wasleep"}
WakeLabels == {"writers", "both", "readers", "notify", "notifyBoth", "wake1", "wake1Both", "wakeAll"}

TypeOK ==
    /\ FxTypeOK
    /\ state \in States
    /\ fresh \in SUBSET Tcs
    /\ pc \in [Tcs -> {"idle"} \cup ReadLabels \cup WriteLabels \cup WakeLabels]
    /\ local \in [Tcs -> States]
    /\ others \in [Tcs -> BOOLEAN]
    /\ readers \in SUBSET Tcs /\ writers \in SUBSET Tcs

Init ==
    /\ FxInit
    /\ state = Bits(FALSE, FALSE)
    /\ fresh = {}
    /\ pc = [t \in Tcs |-> "idle"]
    /\ local = [t \in Tcs |-> Bits(FALSE, FALSE)]
    /\ others = [t \in Tcs |-> FALSE]
    /\ readers = {} /\ writers = {}

Goto(t, label) == pc' = [pc EXCEPT ![t] = label]
SetLocal(t, s) == local' = [local EXCEPT ![t] = s]
Free(t) == pc[t] = "idle" /\ t \notin readers \cup writers

\* The thread's call returns; its locals are gone.
Return(t) ==
    /\ Goto(t, "idle")
    /\ SetLocal(t, Bits(FALSE, FALSE))
    /\ others' = [others EXCEPT ![t] = FALSE]
    /\ fresh' = fresh \ {t}

GotRead(t) == Return(t) /\ readers' = readers \cup {t} /\ UNCHANGED <<fxVars, writers>>
GotWrite(t) == Return(t) /\ writers' = writers \cup {t} /\ UNCHANGED <<fxVars, readers>>

\* compare_exchange(s, new) failed: the local becomes what was read.
CasFailed(t, s) ==
    /\ state # s
    /\ SetLocal(t, state)
    /\ UNCHANGED <<fxVars, state, fresh, pc, others, own>>
-----------------------------------------------------------------------------
(* Readers *)

TryRead(t) ==
    /\ Free(t)
    /\ is_read_lockable(state)
    /\ state' = [state EXCEPT !.n = @ + 1]
    /\ GotRead(t)

\* Failing, even for no reason, the weak compare_exchange leads to read_contended.
Read(t) ==
    \/ TryRead(t)
    \/ /\ Free(t)
       /\ Goto(t, "rspin")
       /\ UNCHANGED <<fxVars, state, fresh, local, others, own>>

\* spin_read returns what it loaded last.
ReadSpin(t) ==
    /\ pc[t] = "rspin"
    /\ SetLocal(t, state)
    /\ Goto(t, "rloop")
    /\ UNCHANGED <<fxVars, state, fresh, others, own>>

\* One pass of read_contended up to its futex_wait.  Too many readers: it panics.
ReadLoop(t) ==
    LET s == local[t] IN
    /\ pc[t] = "rloop"
    /\ \/ /\ is_read_lockable(s) /\ state = s
          /\ state' = [s EXCEPT !.n = @ + 1]
          /\ GotRead(t)
       \/ is_read_lockable(s) /\ CasFailed(t, s)
       \/ /\ s.n = MaxReaders
          /\ Return(t)
          /\ UNCHANGED <<fxVars, state, own>>
       \/ /\ ~is_read_lockable(s) /\ s.n # MaxReaders
          /\ ~s.rw /\ CasFailed(t, s)
       \/ /\ ~is_read_lockable(s) /\ s.n # MaxReaders
          /\ s.rw \/ state = s
          /\ state' = IF s.rw THEN state ELSE [s EXCEPT !.rw = TRUE]
          /\ SetLocal(t, [s EXCEPT !.rw = TRUE])
          /\ Goto(t, "rwait")
          /\ UNCHANGED <<fxVars, fresh, others, own>>

\* futex_wait(state | READERS_WAITING)
ReadWait(t) ==
    /\ pc[t] = "rwait"
    /\ \/ state = local[t] /\ FxWait(t, "state") /\ Goto(t, "rasleep")
       \/ state # local[t] /\ Goto(t, "rspin") /\ UNCHANGED fxVars
    /\ UNCHANGED <<state, fresh, local, others, own>>

\* The last reader out wakes a writer.  Returns go on in wake_writer_or_readers.
ReadUnlock(t) ==
    LET s == [state EXCEPT !.n = @ - 1] IN
    /\ pc[t] = "idle" /\ t \in readers
    /\ state' = s
    /\ readers' = readers \ {t}
    /\ IF is_unlocked(s) /\ s.ww
       THEN Goto(t, "writers") /\ SetLocal(t, s) ELSE UNCHANGED <<pc, local>>
    /\ UNCHANGED <<fxVars, fresh, others, writers>>
-----------------------------------------------------------------------------
(* Writers *)

\* fetch_update: writers take an unlocked lock whatever bits are set.
TryWrite(t) ==
    /\ Free(t)
    /\ is_unlocked(state)
    /\ state' = [state EXCEPT !.n = WRITE_LOCKED]
    /\ GotWrite(t)

Write(t) ==
    \/ /\ Free(t)
       /\ state = Bits(FALSE, FALSE)
       /\ state' = [state EXCEPT !.n = WRITE_LOCKED]
       /\ GotWrite(t)
    \/ /\ Free(t)
       /\ Goto(t, "wspin")
       /\ UNCHANGED <<fxVars, state, fresh, local, others, own>>

WriteSpin(t) ==
    /\ pc[t] = "wspin"
    /\ SetLocal(t, state)
    /\ Goto(t, "wloop")
    /\ UNCHANGED <<fxVars, state, fresh, others, own>>

\* Mutant of TakeWrite: the bit for other waiting writers is dropped.
TakeWriteAlone(t, s) == [s EXCEPT !.n = WRITE_LOCKED]

\* state | WRITE_LOCKED | other_writers_waiting
TakeWrite(t, s) == [s EXCEPT !.n = WRITE_LOCKED, !.ww = @ \/ others[t]]

\* One pass of write_contended up to the load of writer_notify.
WriteLoop(t) ==
    LET s == local[t] IN
    /\ pc[t] = "wloop"
    /\ \/ /\ is_unlocked(s) /\ state = s
          /\ state' = TakeWrite(t, s)
          /\ GotWrite(t)
       \/ (is_unlocked(s) \/ ~s.ww) /\ CasFailed(t, s)
       \/ /\ ~is_unlocked(s) /\ (s.ww \/ state = s)
          /\ state' = IF s.ww THEN state ELSE [s EXCEPT !.ww = TRUE]
          /\ others' = [others EXCEPT ![t] = TRUE]
          /\ Goto(t, "wseq")
          /\ UNCHANGED <<fxVars, fresh, local, own>>

\* seq = writer_notify.load()
WriteSeq(t) ==
    /\ pc[t] = "wseq"
    /\ fresh' = fresh \cup {t}
    /\ Goto(t, "wcheck")
    /\ UNCHANGED <<fxVars, state, local, others, own>>

\* Mutant of WriteCheck: the state is not looked at again.
WriteCheckNot(t) ==
    /\ pc[t] = "wcheck"
    /\ SetLocal(t, state)
    /\ Goto(t, "wwait")
    /\ UNCHANGED <<fxVars, state, fresh, others, own>>

\* "Don't go to sleep if the lock has become available, or if the writers waiting
\* bit is no longer set."
WriteCheck(t) ==
    /\ pc[t] = "wcheck"
    /\ SetLocal(t, state)
    /\ Goto(t, IF is_unlocked(state) \/ ~state.ww THEN "wloop" ELSE "wwait")
    /\ UNCHANGED <<fxVars, state, fresh, others, own>>

\* futex_wait(writer_notify, seq)
WriteWait(t) ==
    /\ pc[t] = "wwait"
    /\ \/ t \in fresh /\ FxWait(t, "writer_notify") /\ Goto(t, "wasleep")
       \/ t \notin fresh /\ Goto(t, "wspin") /\ UNCHANGED fxVars
    /\ UNCHANGED <<state, fresh, local, others, own>>

WriteUnlock(t) ==
    LET s == [state EXCEPT !.n = 0] IN
    /\ pc[t] = "idle" /\ t \in writers
    /\ state' = s
    /\ writers' = writers \ {t}
    /\ IF s.ww \/ s.rw THEN Goto(t, "writers") /\ SetLocal(t, s) ELSE UNCHANGED <<pc, local>>
    /\ UNCHANGED <<fxVars, fresh, others, readers>>
-----------------------------------------------------------------------------
(* futex_wait of both, and wake_writer_or_readers *)

\* The wait ends: woken, or by EINTR, which compares again, or by EAGAIN.
Awake(t) ==
    /\ \/ pc[t] = "rasleep" /\ Goto(t, "rspin")
       \/ pc[t] = "wasleep" /\ Goto(t, "wspin")
    /\ FxReturn(t)
    /\ UNCHANGED <<state, fresh, local, others, own>>

GiveUp(t) == FxGiveUp(t) /\ UNCHANGED rwVars

LeaveWait(t) ==
    /\ FxLeave(t)
    /\ \/ pc[t] = "rasleep" /\ \E label \in {"rwait", "rspin"} : Goto(t, label)
       \/ pc[t] = "wasleep" /\ \E label \in {"wwait", "wspin"} : Goto(t, label)
    /\ UNCHANGED <<state, fresh, local, others, own>>

\* "If only writers are waiting, wake one of them up."
WakeWriters(t) ==
    LET s == local[t] IN
    /\ pc[t] = "writers"
    /\ \/ /\ s = Bits(FALSE, TRUE) /\ state = s
          /\ state' = Bits(FALSE, FALSE)
          /\ Goto(t, "notify")
          /\ UNCHANGED local
       \/ /\ s = Bits(FALSE, TRUE) /\ state # s
          /\ SetLocal(t, state)
          /\ Goto(t, "both")
          /\ UNCHANGED state
       \/ s # Bits(FALSE, TRUE) /\ Goto(t, "both") /\ UNCHANGED <<state, local>>
    /\ UNCHANGED <<fxVars, fresh, others, own>>

\* "If both writers and readers are waiting, leave the readers waiting and only
\* wake up one writer."
WakeBoth(t) ==
    LET s == local[t] IN
    /\ pc[t] = "both"
    /\ \/ /\ s = Bits(TRUE, TRUE) /\ state = s
          /\ state' = Bits(TRUE, FALSE)
          /\ Goto(t, "notifyBoth")
          /\ UNCHANGED <<local, others, fresh>>
       \/ s = Bits(TRUE, TRUE) /\ state # s /\ Return(t) /\ UNCHANGED state
       \/ s # Bits(TRUE, TRUE) /\ Goto(t, "readers") /\ UNCHANGED <<state, local, others, fresh>>
    /\ UNCHANGED <<fxVars, own>>

\* "If readers are waiting, wake them all up."
WakeReaders(t) ==
    LET s == local[t] IN
    /\ pc[t] = "readers"
    /\ \/ /\ s = Bits(TRUE, FALSE) /\ state = s
          /\ state' = Bits(FALSE, FALSE)
          /\ Goto(t, "wakeAll")
          /\ UNCHANGED <<local, others, fresh>>
       \/ (s # Bits(TRUE, FALSE) \/ state # s) /\ Return(t) /\ UNCHANGED state
    /\ UNCHANGED <<fxVars, own>>

\* wake_writer: writer_notify.fetch_add(1) ...
Notify(t) ==
    /\ \/ pc[t] = "notify" /\ Goto(t, "wake1")
       \/ pc[t] = "notifyBoth" /\ Goto(t, "wake1Both")
    /\ fresh' = {}
    /\ UNCHANGED <<fxVars, state, local, others, own>>

\* ... and futex_wake.  With readers waiting too, they are woken when no writer was.
WakeOne(t) ==
    /\ pc[t] \in {"wake1", "wake1Both"}
    /\ FxWakeOne("writer_notify")
    /\ \/ pc[t] = "wake1Both" /\ asleep["writer_notify"] = {}
          /\ Goto(t, "readers") /\ SetLocal(t, Bits(TRUE, FALSE))
          /\ UNCHANGED <<others, fresh>>
       \/ (pc[t] = "wake1" \/ asleep["writer_notify"] # {}) /\ Return(t)
    /\ UNCHANGED <<state, own>>

WakeAll(t) ==
    /\ pc[t] = "wakeAll"
    /\ FxWakeAll("state")
    /\ Return(t)
    /\ UNCHANGED <<state, own>>
-----------------------------------------------------------------------------
Call(t) == TryRead(t) \/ Read(t) \/ ReadUnlock(t) \/ TryWrite(t) \/ Write(t) \/ WriteUnlock(t)

Step(t) ==
    \/ ReadSpin(t) \/ ReadLoop(t) \/ ReadWait(t)
    \/ WriteSpin(t) \/ WriteLoop(t) \/ WriteSeq(t) \/ WriteCheck(t) \/ WriteWait(t)
    \/ Awake(t) \/ LeaveWait(t)
    \/ WakeWriters(t) \/ WakeBoth(t) \/ WakeReaders(t) \/ Notify(t) \/ WakeOne(t) \/ WakeAll(t)

Next == \E t \in Tcs : Call(t) \/ GiveUp(t) \/ Step(t)

Spec == Init /\ [][Next]_vars

\* Threads inside an operation run; nobody is made to lock, unlock or give up.
Fairness == \A t \in Tcs : WF_vars(Step(t))

FairSpec == Spec /\ Fairness
-----------------------------------------------------------------------------
(* Properties *)

\* Readers or one writer: the counter is the number of readers, who never reach the
\* value that means write-locked, and WRITE_LOCKED is one writer alone.
ReadersXorWriter ==
    IF writers = {} THEN state.n = Cardinality(readers) /\ state.n <= MaxReaders
    ELSE state.n = WRITE_LOCKED /\ Cardinality(writers) = 1 /\ readers = {}

\* debug_assert of read_unlock: "It's impossible for a reader to be waiting on a
\* read-locked RwLock, except if there is also a writer waiting."
NoReaderWaitsForReaders == state.n \in 1..MaxReaders /\ state.rw => state.ww

\* Awake, inside the slow path of read() or write().
AwakeIn(t, labels) ==
    \/ pc[t] \in labels \ {"rasleep", "wasleep"}
    \/ pc[t] \in labels /\ (t \in leaving \/ ~IsQueued(t))

\* Sleepers are not forgotten.  While a reader sleeps, the readers-waiting bit is
\* set or a wake of all is due; while a writer sleeps, the writers-waiting bit is
\* set, or a writer's wake is due, or a writer is awake that sets the bit again.
SleepersAreMarked ==
    /\ asleep["state"] \ leaving # {} => state.rw \/ \E t \in Tcs : pc[t] = "wakeAll"
    /\ asleep["writer_notify"] \ leaving # {} =>
           \/ state.ww
           \/ \E t \in Tcs : pc[t] \in WakeLabels \/ AwakeIn(t, WriteLabels)

\* An unlocked lock with threads waiting for it is locked again, unless they panic:
\* no order of CASes, notifications and interrupted waits leaves it to sleepers.
UnlockedIsTaken ==
    LET InLock == \E t \in Tcs : pc[t] \in ReadLabels \cup WriteLabels
    IN is_unlocked(state) /\ InLock ~> ~is_unlocked(state) \/ ~InLock
=============================================================================
