-------------------------- MODULE FutexRwLockProofs --------------------------
(***************************************************************************)
(* FutexRwLock for any set of threads and any reader limit: readers or one *)
(* writer, and the assertion of read_unlock.                               *)
(***************************************************************************)
EXTENDS FutexRwLock, FiniteSetTheorems, TLAPS

Labels == {"idle"} \cup ReadLabels \cup WriteLabels \cup WakeLabels

\* What exclusion rests on, without the fields it does not: a thread inside an
\* operation holds nothing.
OwnOK ==
    /\ state \in States /\ local \in [Tcs -> States] /\ pc \in [Tcs -> Labels]
    /\ readers \in SUBSET Tcs /\ writers \in SUBSET Tcs
    /\ IsFiniteSet(readers)
    /\ \A t \in Tcs : pc[t] \in ReadLabels \cup WriteLabels => t \notin readers \cup writers

\* ReadersXorWriter with the writer named.
Counted ==
    \/ writers = {} /\ state.n = Cardinality(readers) /\ state.n <= MaxReaders
    \/ state.n = WRITE_LOCKED /\ readers = {} /\ \E w \in Tcs : writers = {w}

\* The inductive invariant.
IInv == OwnOK /\ Counted /\ NoReaderWaitsForReaders

\* Every initial state satisfies it (FutexRwLock::new).
LEMMA InitIInv == Init => IInv
  <1> SUFFICES ASSUME Init PROVE IInv
    OBVIOUS
  <1>1. IsFiniteSet({}) /\ Cardinality({}) = 0
    BY FS_EmptySet
  <1> QED
    BY <1>1, RwAssumption
    DEF Init, IInv, OwnOK, Counted, NoReaderWaitsForReaders, Bits, States, WRITE_LOCKED, Labels,
        ReadLabels, WriteLabels

\* The call of a thread returns.
LEMMA ReturnTyped ==
  ASSUME OwnOK, NEW t \in Tcs, Return(t)
  PROVE  /\ local' \in [Tcs -> States] /\ pc' \in [Tcs -> Labels]
         /\ pc'[t] = "idle" /\ \A u \in Tcs \ {t} : pc'[u] = pc[u]
  BY RwAssumption DEF OwnOK, Return, Goto, SetLocal, Bits, States, WRITE_LOCKED, Labels

\* One more reader of a lock that can be read-locked.
LEMMA GotReadIInv ==
  ASSUME IInv, NEW t \in Tcs, t \notin readers \cup writers, is_read_lockable(state),
         state' = [state EXCEPT !.n = @ + 1], GotRead(t)
  PROVE  IInv'
  <1>1. /\ local' \in [Tcs -> States] /\ pc' \in [Tcs -> Labels]
        /\ pc'[t] = "idle" /\ \A u \in Tcs \ {t} : pc'[u] = pc[u]
    BY ReturnTyped DEF IInv, GotRead
  <1>2. /\ state.n \in Nat /\ state.n < MaxReaders /\ ~state.rw
        /\ state' \in States /\ state'.n = state.n + 1 /\ state'.rw = state.rw
    BY RwAssumption DEF IInv, OwnOK, States, is_read_lockable, WRITE_LOCKED
  <1>3. writers = {} /\ state.n = Cardinality(readers)
    BY <1>2, RwAssumption DEF IInv, Counted, WRITE_LOCKED
  <1>4. IsFiniteSet(readers \cup {t}) /\ Cardinality(readers \cup {t}) = Cardinality(readers) + 1
    BY FS_AddElement DEF IInv, OwnOK
  <1>5. readers' = readers \cup {t} /\ writers' = {}
    BY <1>3 DEF GotRead
  <1>6. OwnOK'
    BY <1>1, <1>2, <1>4, <1>5 DEF IInv, OwnOK, ReadLabels, WriteLabels
  <1>7. Counted'
    BY <1>2, <1>3, <1>4, <1>5, RwAssumption DEF Counted
  <1>8. NoReaderWaitsForReaders'
    BY <1>2 DEF NoReaderWaitsForReaders
  <1> QED  BY <1>6, <1>7, <1>8 DEF IInv

\* The word of a writer.
LEMMA WriteLockedTyped ==
  ASSUME NEW s \in States
  PROVE  /\ [s EXCEPT !.n = WRITE_LOCKED] \in States /\ [s EXCEPT !.n = WRITE_LOCKED].n = WRITE_LOCKED
         /\ \A ww \in BOOLEAN : /\ [s EXCEPT !.n = WRITE_LOCKED, !.ww = ww] \in States
                               /\ [s EXCEPT !.n = WRITE_LOCKED, !.ww = ww].n = WRITE_LOCKED
  <1>1. WRITE_LOCKED \in 0..WRITE_LOCKED
    BY RwAssumption DEF WRITE_LOCKED
  <1> QED  BY <1>1 DEF States

\* The writer of an unlocked lock.
LEMMA GotWriteIInv ==
  ASSUME IInv, NEW t \in Tcs, is_unlocked(state), state' \in States, state'.n = WRITE_LOCKED,
         GotWrite(t)
  PROVE  IInv'
  <1>1. /\ local' \in [Tcs -> States] /\ pc' \in [Tcs -> Labels]
        /\ pc'[t] = "idle" /\ \A u \in Tcs \ {t} : pc'[u] = pc[u]
    BY ReturnTyped DEF IInv, GotWrite
  <1>2. writers = {} /\ Cardinality(readers) = 0
    BY RwAssumption DEF IInv, Counted, is_unlocked, WRITE_LOCKED
  <1>3. readers = {}
    BY <1>2, FS_EmptySet DEF IInv, OwnOK
  <1>4. writers' = {t} /\ readers' = {}
    BY <1>2, <1>3 DEF GotWrite
  <1>5. OwnOK'
    BY <1>1, <1>3, <1>4 DEF IInv, OwnOK, ReadLabels, WriteLabels
  <1>6. Counted'
    BY <1>4 DEF Counted
  <1>7. NoReaderWaitsForReaders'
    BY RwAssumption DEF NoReaderWaitsForReaders, WRITE_LOCKED
  <1> QED  BY <1>5, <1>6, <1>7 DEF IInv

\* A step that leaves the count and the holders alone, and sets the readers-waiting
\* bit of a read-locked lock only beside the writers-waiting bit.
LEMMA SameCountIInv ==
  ASSUME IInv, OwnOK', UNCHANGED own, state'.n = state.n, NoReaderWaitsForReaders'
  PROVE  IInv'
  BY DEF IInv, Counted, own

\* The same, if the lock is unlocked or no bit changes.
LEMMA SameStateIInv ==
  ASSUME IInv, UNCHANGED <<state, own>>, NEW t \in Tcs,
         local' \in [Tcs -> States], pc' \in [Tcs -> Labels],
         \A u \in Tcs \ {t} : pc'[u] = pc[u],
         pc'[t] \in ReadLabels \cup WriteLabels =>
             t \notin readers \cup writers
  PROVE  IInv'
  <1>1. OwnOK'
    BY DEF IInv, OwnOK, own
  <1>2. NoReaderWaitsForReaders'
    BY DEF IInv, NoReaderWaitsForReaders
  <1> QED  BY <1>1, <1>2, SameCountIInv DEF own

\* A step of t inside read() or write() that changes neither word nor holders.
LEMMA InsideIInv ==
  ASSUME IInv, UNCHANGED <<state, own>>, NEW t \in Tcs, pc[t] \in ReadLabels \cup WriteLabels,
         NEW label \in Labels, Goto(t, label), local' \in [Tcs -> States]
  PROVE  IInv'
  <1>1. pc' \in [Tcs -> Labels] /\ \A u \in Tcs \ {t} : pc'[u] = pc[u]
    BY DEF Goto, IInv, OwnOK
  <1>2. t \notin readers \cup writers
    BY DEF IInv, OwnOK
  <1> QED  BY <1>1, <1>2, SameStateIInv

\* A compare-and-exchange that fails.
LEMMA CasFailedIInv ==
  ASSUME IInv, NEW t \in Tcs, NEW s, CasFailed(t, s)
  PROVE  IInv'
  <1>1. /\ UNCHANGED <<state, own, pc>> /\ local' \in [Tcs -> States]
    BY DEF CasFailed, SetLocal, IInv, OwnOK
  <1>2. pc' \in [Tcs -> Labels]
        /\ (pc'[t] \in ReadLabels \cup WriteLabels => t \notin readers \cup writers)
    BY <1>1 DEF IInv, OwnOK
  <1> QED  BY <1>1, <1>2, SameStateIInv

\* The call of a thread that holds nothing new returns.
LEMMA ReturnIInv ==
  ASSUME IInv, NEW t \in Tcs, Return(t), UNCHANGED <<state, own>>
  PROVE  IInv'
  <1>1. /\ local' \in [Tcs -> States] /\ pc' \in [Tcs -> Labels]
        /\ pc'[t] = "idle" /\ \A u \in Tcs \ {t} : pc'[u] = pc[u]
    BY ReturnTyped DEF IInv
  <1> QED  BY <1>1, SameStateIInv DEF ReadLabels, WriteLabels

\* The calls of the clients keep the invariant.
LEMMA CallIInv ==
  ASSUME IInv, NEW t \in Tcs, Call(t)
  PROVE  IInv'
  <1> USE DEF Free
  <1>1. CASE TryRead(t)
    BY <1>1, GotReadIInv DEF TryRead
  <1>2. CASE Read(t)
    <2>1. CASE Free(t) /\ Goto(t, "rspin") /\ UNCHANGED <<state, local, own>>
      <3>1. pc' \in [Tcs -> Labels] /\ \A u \in Tcs \ {t} : pc'[u] = pc[u]
        BY <2>1 DEF Goto, IInv, OwnOK, Labels, ReadLabels
      <3>2. local' \in [Tcs -> States]
        BY <2>1 DEF IInv, OwnOK
      <3> QED  BY <2>1, <3>1, <3>2, SameStateIInv
    <2> QED  BY <1>1, <1>2, <2>1 DEF Read
  <1>3. CASE TryWrite(t)
    <2>1. state' \in States /\ state'.n = WRITE_LOCKED
      BY <1>3, RwAssumption DEF TryWrite, IInv, OwnOK, States, WRITE_LOCKED
    <2> QED  BY <1>3, <2>1, GotWriteIInv DEF TryWrite
  <1>4. CASE Write(t)
    <2>1. CASE state = Bits(FALSE, FALSE) /\ state' = [state EXCEPT !.n = WRITE_LOCKED] /\ GotWrite(t)
      <3>1. state' \in States /\ state'.n = WRITE_LOCKED /\ is_unlocked(state)
        <4>1. is_unlocked(state)
          BY <2>1 DEF Bits, is_unlocked
        <4>2. state' \in States /\ state'.n = WRITE_LOCKED
          BY <2>1, WriteLockedTyped DEF IInv, OwnOK
        <4> QED  BY <4>1, <4>2
      <3> QED  BY <2>1, <3>1, GotWriteIInv
    <2>2. CASE Free(t) /\ Goto(t, "wspin") /\ UNCHANGED <<state, local, own>>
      <3>1. pc' \in [Tcs -> Labels] /\ \A u \in Tcs \ {t} : pc'[u] = pc[u]
        BY <2>2 DEF Goto, IInv, OwnOK, Labels, WriteLabels
      <3>2. local' \in [Tcs -> States]
        BY <2>2 DEF IInv, OwnOK
      <3> QED  BY <2>2, <3>1, <3>2, SameStateIInv
    <2> QED  BY <1>4, <2>1, <2>2 DEF Write
  <1>5. CASE ReadUnlock(t)
    <2>1. writers = {} /\ state.n = Cardinality(readers) /\ state.n \in 0..MaxReaders
      BY <1>5, RwAssumption DEF ReadUnlock, IInv, Counted, OwnOK, States, WRITE_LOCKED
    <2>2. /\ IsFiniteSet(readers \ {t}) /\ Cardinality(readers \ {t}) = state.n - 1
          /\ state.n >= 1
      <3>1. IsFiniteSet(readers \ {t}) /\ Cardinality(readers \ {t}) = Cardinality(readers) - 1
        BY <1>5, FS_RemoveElement DEF ReadUnlock, IInv, OwnOK
      <3>2. Cardinality(readers \ {t}) \in Nat
        BY <3>1, FS_CardinalityType
      <3> QED  BY <2>1, <3>1, <3>2
    <2>3. /\ state' \in States /\ state'.n = state.n - 1
          /\ state'.rw = state.rw /\ state'.ww = state.ww
      BY <1>5, <2>1, <2>2, RwAssumption DEF ReadUnlock, IInv, OwnOK, States, WRITE_LOCKED
    <2>4. readers' = readers \ {t} /\ writers' = {}
      BY <1>5, <2>1 DEF ReadUnlock
    <2>5. local' \in [Tcs -> States] /\ pc' \in [Tcs -> Labels]
      BY <1>5, <2>3 DEF ReadUnlock, SetLocal, Goto, IInv, OwnOK, Labels, WakeLabels
    <2>6. \A u \in Tcs : pc'[u] \in ReadLabels \cup WriteLabels => u \notin readers'
      BY <1>5, <2>4 DEF ReadUnlock, Goto, IInv, OwnOK, ReadLabels, WriteLabels
    <2>7. OwnOK'
      BY <2>2, <2>3, <2>4, <2>5, <2>6 DEF IInv, OwnOK
    <2>8. Counted'
      BY <2>1, <2>2, <2>3, <2>4, RwAssumption DEF Counted
    <2>9. NoReaderWaitsForReaders'
      BY <2>1, <2>2, <2>3, RwAssumption DEF IInv, NoReaderWaitsForReaders
    <2> QED  BY <2>7, <2>8, <2>9 DEF IInv
  <1>6. CASE WriteUnlock(t)
    <2>1. writers = {t} /\ readers = {}
      BY <1>6 DEF WriteUnlock, IInv, Counted
    <2>2. state' \in States /\ state'.n = 0 /\ writers' = {} /\ readers' = {}
      BY <1>6, <2>1, RwAssumption DEF WriteUnlock, IInv, OwnOK, States, WRITE_LOCKED
    <2>3. local' \in [Tcs -> States] /\ pc' \in [Tcs -> Labels]
      BY <1>6, <2>2 DEF WriteUnlock, SetLocal, Goto, IInv, OwnOK, Labels, WakeLabels
    <2>4. OwnOK'
      BY <2>1, <2>2, <2>3 DEF IInv, OwnOK
    <2>5. Counted'
      BY <2>2, FS_EmptySet, RwAssumption DEF Counted
    <2>6. NoReaderWaitsForReaders'
      BY <2>2 DEF NoReaderWaitsForReaders
    <2> QED  BY <2>4, <2>5, <2>6 DEF IInv
  <1> QED  BY <1>1, <1>2, <1>3, <1>4, <1>5, <1>6 DEF Call

\* The slow path of read() keeps the invariant.
LEMMA ReadStepIInv ==
  ASSUME IInv, NEW t \in Tcs, ReadSpin(t) \/ ReadLoop(t) \/ ReadWait(t)
  PROVE  IInv'
  <1> USE DEF Labels, ReadLabels
  <1>1. CASE ReadSpin(t)
    <2>1. local' \in [Tcs -> States]
      BY <1>1 DEF ReadSpin, SetLocal, IInv, OwnOK
    <2> QED  BY <1>1, <2>1, InsideIInv DEF ReadSpin
  <1>2. CASE ReadWait(t)
    <2>1. local' \in [Tcs -> States]
      BY <1>2 DEF ReadWait, IInv, OwnOK
    <2> QED  BY <1>2, <2>1, InsideIInv DEF ReadWait
  <1>3. CASE ReadLoop(t)
    <2> DEFINE s == local[t]
    <2>0. t \notin readers \cup writers /\ s \in States /\ state \in States
      BY <1>3 DEF ReadLoop, IInv, OwnOK
    <2>1. CASE is_read_lockable(s) /\ state = s /\ state' = [s EXCEPT !.n = @ + 1] /\ GotRead(t)
      BY <2>0, <2>1, GotReadIInv
    <2>2. CASE CasFailed(t, s)
      BY <2>2, CasFailedIInv
    <2>3. CASE Return(t) /\ UNCHANGED <<state, own>>
      BY <2>3, ReturnIInv
    <2>4. CASE /\ ~is_read_lockable(s) /\ s.n # MaxReaders
               /\ s.rw \/ state = s
               /\ state' = IF s.rw THEN state ELSE [s EXCEPT !.rw = TRUE]
               /\ SetLocal(t, [s EXCEPT !.rw = TRUE])
               /\ Goto(t, "rwait") /\ UNCHANGED own
      <3>1. local' \in [Tcs -> States] /\ pc' \in [Tcs -> Labels]
        BY <2>0, <2>4 DEF SetLocal, Goto, IInv, OwnOK, States
      <3>2. \A u \in Tcs : pc'[u] \in ReadLabels \cup WriteLabels => u \notin readers \cup writers
        BY <2>0, <2>4 DEF Goto, IInv, OwnOK
      <3>3. CASE s.rw
        BY <2>0, <2>4, <3>1, <3>3, InsideIInv, <1>3 DEF ReadLoop
      <3>4. CASE ~s.rw
        <4>1. /\ state = s /\ state' \in States /\ state'.n = s.n /\ state'.ww = s.ww
          BY <2>0, <2>4, <3>4 DEF States
        <4>2. s.n \in 1..MaxReaders => s.ww
          BY <2>0, <2>4, <3>4, RwAssumption DEF is_read_lockable, States, WRITE_LOCKED
        <4>3. OwnOK'
          BY <2>4, <3>1, <3>2, <4>1 DEF IInv, OwnOK, own
        <4>4. NoReaderWaitsForReaders'
          BY <4>1, <4>2 DEF NoReaderWaitsForReaders
        <4> QED  BY <2>4, <4>1, <4>3, <4>4, SameCountIInv
      <3> QED  BY <3>3, <3>4
    <2> QED  BY <1>3, <2>1, <2>2, <2>3, <2>4 DEF ReadLoop
  <1> QED  BY <1>1, <1>2, <1>3

\* The slow path of write() keeps the invariant.
LEMMA WriteStepIInv ==
  ASSUME IInv, NEW t \in Tcs,
         WriteSpin(t) \/ WriteLoop(t) \/ WriteSeq(t) \/ WriteCheck(t) \/ WriteWait(t)
  PROVE  IInv'
  <1> USE DEF Labels, WriteLabels
  <1>1. CASE WriteSpin(t)
    <2>1. local' \in [Tcs -> States]
      BY <1>1 DEF WriteSpin, SetLocal, IInv, OwnOK
    <2> QED  BY <1>1, <2>1, InsideIInv DEF WriteSpin
  <1>2. CASE WriteSeq(t)
    <2>1. local' \in [Tcs -> States]
      BY <1>2 DEF WriteSeq, IInv, OwnOK
    <2> QED  BY <1>2, <2>1, InsideIInv DEF WriteSeq
  <1>3. CASE WriteCheck(t)
    <2>1. local' \in [Tcs -> States]
      BY <1>3 DEF WriteCheck, SetLocal, IInv, OwnOK
    <2> QED  BY <1>3, <2>1, InsideIInv DEF WriteCheck
  <1>4. CASE WriteWait(t)
    <2>1. local' \in [Tcs -> States]
      BY <1>4 DEF WriteWait, IInv, OwnOK
    <2> QED  BY <1>4, <2>1, InsideIInv DEF WriteWait
  <1>5. CASE WriteLoop(t)
    <2> DEFINE s == local[t]
    <2>0. s \in States /\ state \in States
      BY DEF IInv, OwnOK
    <2>1. CASE is_unlocked(s) /\ state = s /\ state' = TakeWrite(t, s) /\ GotWrite(t)
      <3>1. \A ww \in BOOLEAN : /\ [s EXCEPT !.n = WRITE_LOCKED, !.ww = ww] \in States
                               /\ [s EXCEPT !.n = WRITE_LOCKED, !.ww = ww].n = WRITE_LOCKED
        BY <2>0, WriteLockedTyped
      <3>2. \E ww \in BOOLEAN : TakeWrite(t, s) = [s EXCEPT !.n = WRITE_LOCKED, !.ww = ww]
        <4>1. (s.ww \/ others[t]) \in BOOLEAN
          OBVIOUS
        <4>2. TakeWrite(t, s) = [s EXCEPT !.n = WRITE_LOCKED, !.ww = s.ww \/ others[t]]
          BY DEF TakeWrite
        <4> QED  BY <4>1, <4>2, Zenon
      <3>3. state' \in States /\ state'.n = WRITE_LOCKED
        BY <2>1, <3>1, <3>2
      <3> QED  BY <2>1, <3>3, GotWriteIInv
    <2>2. CASE CasFailed(t, s)
      BY <2>2, CasFailedIInv
    <2>3. CASE /\ ~is_unlocked(s) /\ (s.ww \/ state = s)
               /\ state' = IF s.ww THEN state ELSE [s EXCEPT !.ww = TRUE]
               /\ Goto(t, "wseq") /\ UNCHANGED <<local, own>>
      <3>1. local' \in [Tcs -> States] /\ pc' \in [Tcs -> Labels]
        BY <2>3 DEF Goto, IInv, OwnOK
      <3>2. \A u \in Tcs : pc'[u] \in ReadLabels \cup WriteLabels => u \notin readers \cup writers
        BY <1>5, <2>3 DEF WriteLoop, Goto, IInv, OwnOK
      <3>3. CASE s.ww
        BY <1>5, <2>3, <3>1, <3>3, InsideIInv DEF WriteLoop
      <3>4. CASE ~s.ww
        <4>1. state = s /\ state' \in States /\ state'.n = s.n /\ state'.ww
          BY <2>0, <2>3, <3>4 DEF States
        <4>2. OwnOK'
          BY <2>3, <3>1, <3>2, <4>1 DEF IInv, OwnOK, own
        <4>3. NoReaderWaitsForReaders'
          BY <4>1 DEF NoReaderWaitsForReaders
        <4> QED  BY <2>3, <4>1, <4>2, <4>3, SameCountIInv
      <3> QED  BY <3>3, <3>4
    <2> QED  BY <1>5, <2>1, <2>2, <2>3 DEF WriteLoop
  <1> QED  BY <1>1, <1>2, <1>3, <1>4, <1>5

\* A wake that clears bits of an unlocked word.
LEMMA ClearIInv ==
  ASSUME IInv, NEW t \in Tcs, NEW rw \in BOOLEAN, state.n = 0, state' = Bits(rw, FALSE),
         NEW label \in WakeLabels, Goto(t, label), UNCHANGED <<local, own>>
  PROVE  IInv'
  <1>1. state' \in States /\ state'.n = 0
    BY RwAssumption DEF Bits, States, WRITE_LOCKED
  <1>2. pc' \in [Tcs -> Labels]
    BY DEF Goto, IInv, OwnOK, Labels
  <1>3. \A u \in Tcs : pc'[u] \in ReadLabels \cup WriteLabels => u \notin readers \cup writers
    BY DEF Goto, IInv, OwnOK, WakeLabels, ReadLabels, WriteLabels
  <1>4. OwnOK'
    BY <1>1, <1>2, <1>3 DEF IInv, OwnOK, own
  <1>5. NoReaderWaitsForReaders'
    <2>1. 0 \notin 1..MaxReaders
      BY RwAssumption
    <2> QED  BY <1>1, <2>1, Zenon DEF NoReaderWaitsForReaders
  <1> QED  BY <1>1, <1>4, <1>5, SameCountIInv

\* A wake that goes on without changing the word.
LEMMA WakeGoIInv ==
  ASSUME IInv, NEW t \in Tcs, UNCHANGED <<state, own>>, local' \in [Tcs -> States],
         NEW label \in WakeLabels, Goto(t, label)
  PROVE  IInv'
  <1>1. pc' \in [Tcs -> Labels] /\ \A u \in Tcs \ {t} : pc'[u] = pc[u]
    BY DEF Goto, IInv, OwnOK, Labels
  <1>2. pc'[t] \notin ReadLabels \cup WriteLabels
    BY DEF Goto, IInv, OwnOK, WakeLabels, ReadLabels, WriteLabels
  <1> QED  BY <1>1, <1>2, SameStateIInv

\* wake_writer_or_readers keeps the invariant.
LEMMA WakeStepIInv ==
  ASSUME IInv, NEW t \in Tcs,
         \/ WakeWriters(t) \/ WakeBoth(t) \/ WakeReaders(t)
         \/ Notify(t) \/ WakeOne(t) \/ WakeAll(t)
  PROVE  IInv'
  <1> USE DEF WakeLabels
  <1>0. local \in [Tcs -> States] /\ state \in States
        /\ \A rw, ww \in BOOLEAN : Bits(rw, ww) \in States /\ Bits(rw, ww).n = 0
    BY RwAssumption DEF IInv, OwnOK, Bits, States, WRITE_LOCKED
  <1>1. CASE WakeWriters(t)
    <2>1. CASE state = Bits(FALSE, TRUE) /\ state' = Bits(FALSE, FALSE) /\ Goto(t, "notify")
               /\ UNCHANGED <<local, own>>
      BY <1>0, <2>1, ClearIInv
    <2>2. CASE SetLocal(t, state) /\ Goto(t, "both") /\ UNCHANGED <<state, own>>
      <3>1. local' \in [Tcs -> States]
        BY <1>0, <2>2 DEF SetLocal
      <3> QED  BY <2>2, <3>1, WakeGoIInv
    <2>3. CASE Goto(t, "both") /\ UNCHANGED <<state, local, own>>
      BY <1>0, <2>3, WakeGoIInv
    <2> QED  BY <1>1, <2>1, <2>2, <2>3 DEF WakeWriters
  <1>2. CASE WakeBoth(t)
    <2>1. CASE state = Bits(TRUE, TRUE) /\ state' = Bits(TRUE, FALSE) /\ Goto(t, "notifyBoth")
               /\ UNCHANGED <<local, own>>
      BY <1>0, <2>1, ClearIInv
    <2>2. CASE Return(t) /\ UNCHANGED <<state, own>>
      BY <2>2, ReturnIInv
    <2>3. CASE Goto(t, "readers") /\ UNCHANGED <<state, local, own>>
      BY <1>0, <2>3, WakeGoIInv
    <2> QED  BY <1>2, <2>1, <2>2, <2>3 DEF WakeBoth
  <1>3. CASE WakeReaders(t)
    <2>1. CASE state = Bits(TRUE, FALSE) /\ state' = Bits(FALSE, FALSE) /\ Goto(t, "wakeAll")
               /\ UNCHANGED <<local, own>>
      BY <1>0, <2>1, ClearIInv
    <2>2. CASE Return(t) /\ UNCHANGED <<state, own>>
      BY <2>2, ReturnIInv
    <2> QED  BY <1>3, <2>1, <2>2 DEF WakeReaders
  <1>4. CASE Notify(t)
    BY <1>0, <1>4, WakeGoIInv DEF Notify
  <1>5. CASE WakeOne(t)
    <2>1. CASE Return(t) /\ UNCHANGED <<state, own>>
      BY <2>1, ReturnIInv
    <2>2. CASE Goto(t, "readers") /\ SetLocal(t, Bits(TRUE, FALSE)) /\ UNCHANGED <<state, own>>
      <3>1. local' \in [Tcs -> States]
        BY <1>0, <2>2 DEF SetLocal
      <3> QED  BY <2>2, <3>1, WakeGoIInv
    <2> QED  BY <1>5, <2>1, <2>2 DEF WakeOne
  <1>6. CASE WakeAll(t)
    BY <1>6, ReturnIInv DEF WakeAll
  <1> QED  BY <1>1, <1>2, <1>3, <1>4, <1>5, <1>6

\* The end of a sleep keeps the invariant.
LEMMA SleepStepIInv ==
  ASSUME IInv, NEW t \in Tcs, Awake(t) \/ LeaveWait(t) \/ GiveUp(t)
  PROVE  IInv'
  <1>1. local \in [Tcs -> States]
    BY DEF IInv, OwnOK
  <1>2. CASE Awake(t)
    BY <1>1, <1>2, InsideIInv DEF Awake, Labels, ReadLabels, WriteLabels
  <1>3. CASE LeaveWait(t)
    BY <1>1, <1>3, InsideIInv DEF LeaveWait, Labels, ReadLabels, WriteLabels
  <1>4. CASE GiveUp(t)
    BY <1>4 DEF GiveUp, rwVars, own, IInv, OwnOK, Counted, NoReaderWaitsForReaders
  <1> QED  BY <1>2, <1>3, <1>4

\* Every step keeps the inductive invariant.
LEMMA NextIInv == IInv /\ [Next]_vars => IInv'
  <1> SUFFICES ASSUME IInv, [Next]_vars PROVE IInv'
    OBVIOUS
  <1>1. ASSUME NEW t \in Tcs, Step(t) PROVE IInv'
    BY <1>1, ReadStepIInv, WriteStepIInv, WakeStepIInv, SleepStepIInv DEF Step
  <1>2. CASE UNCHANGED vars
    BY <1>2 DEF vars, rwVars, own, IInv, OwnOK, Counted, NoReaderWaitsForReaders
  <1> QED  BY <1>1, <1>2, CallIInv, SleepStepIInv DEF Next

\* The inductive invariant holds of every reachable state of the lock.
THEOREM InvariantHolds == Spec => []IInv
  BY InitIInv, NextIInv, PTL DEF Spec

\* Readers or one writer, for any threads and any limit: the counter is the number of
\* readers and never reaches the value that means write-locked.
THEOREM Exclusion == Spec => []ReadersXorWriter
  <1>1. IInv => ReadersXorWriter
    <2>1. \A w \in Tcs : Cardinality({w}) = 1
      BY FS_Singleton
    <2> QED  BY <2>1 DEF IInv, Counted, ReadersXorWriter
  <1> QED  BY <1>1, InvariantHolds, PTL

\* The assertion of read_unlock holds: readers wait for readers only behind a writer.
THEOREM ReadersWaitBehindWriters == Spec => []NoReaderWaitsForReaders
  <1>1. IInv => NoReaderWaitsForReaders
    BY DEF IInv
  <1> QED  BY <1>1, InvariantHolds, PTL
=============================================================================
