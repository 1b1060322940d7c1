---------------------------- MODULE AtExitProofs ----------------------------
(***************************************************************************)
(* The functions of at_exit, for any set of TCSs, any depth of nested      *)
(* calls, any functions and any number of rounds: each runs once, and all  *)
(* that were accepted have run when the destructors do.                    *)
(***************************************************************************)
EXTENDS EnclaveProofs

Queued(f) == \E i \in 1..Len(exits.queue) : exits.queue[i] = f
Taken(f) == \E i \in 1..Len(cleanup.todo) : cleanup.todo[i] = f

\* Each accepted function is in the queue, in the list of the round or has run: in one
\* of them only, and once.
EachOnce ==
    /\ \A i, j \in 1..Len(exits.queue) : exits.queue[i] = exits.queue[j] => i = j
    /\ \A i, j \in 1..Len(cleanup.todo) : cleanup.todo[i] = cleanup.todo[j] => i = j
    /\ \A f \in ExitFns : ~(Queued(f) /\ Taken(f))
    /\ \A f \in ExitFns : Queued(f) \/ Taken(f) => hist.ran[f] = 0
    /\ \A f \in ExitFns : hist.ran[f] <= 1
    /\ \A f \in ExitFns :
          f \in hist.accepted <=> Queued(f) \/ Taken(f) \/ hist.ran[f] = 1

\* The places of rtuninit at which the lists are known to be empty.
EmptyAt(fr) ==
    /\ fr.pc = "ulock" => cleanup.todo = <<>>
    /\ fr.pc = "cleanup" /\ cleanup.round > Iters => exits.done
    /\ fr.pc = "dtors" => cleanup.todo = <<>> /\ exits.done

ExitInv ==
    /\ EachOnce
    /\ exits.done => exits.queue = <<>>
    /\ ~uninit => cleanup.todo = <<>>
    /\ \A t \in Tcs : \A i \in 1..Len(stack[t]) : EmptyAt(stack[t][i])
-----------------------------------------------------------------------------
(* Which calls get to the end of rtuninit *)

Late == {"ulock", "cleanup", "dtors"}

\* Every call at a late place was there before the step of t or got there by it.
Arrived(t) ==
    \A u \in Tcs : \A i \in 1..Len(stack'[u]) : stack'[u][i].pc \in Late =>
        \/ i \in 1..Len(stack[u]) /\ stack[u][i].pc = stack'[u][i].pc
        \/ StoreFlag(t) /\ stack'[u][i].pc = "ulock"
        \/ UninitLock(t) /\ stack'[u][i].pc = "cleanup"
        \/ CleanupDone(t) /\ stack'[u][i].pc = "dtors"

\* A step that moves the innermost call elsewhere brings none there.
LEMMA GotoArrives ==
  ASSUME StackOK, NEW t \in Tcs, Depth(t) > 0, NEW pc \in Pcs, Goto(t, pc),
         \/ pc \notin Late
         \/ StoreFlag(t) /\ pc = "ulock"
         \/ UninitLock(t) /\ pc = "cleanup"
         \/ CleanupDone(t) /\ pc = "dtors"
  PROVE  Arrived(t)
  <1>1. PICK fr \in FrameSet : Moved(t, Depth(t), fr) /\ fr.pc = pc
    BY GotoMoves
  <1>2. \A u \in Tcs : \A i \in 1..Len(stack'[u]) :
           \/ stack'[u][i] = fr
           \/ i \in 1..Len(stack[u]) /\ stack'[u][i] = stack[u][i]
    BY <1>1, MovedFrames
  <1> QED  BY <1>1, <1>2 DEF Arrived

\* Nor does one that ends it.
LEMMA ReturnArrives ==
  ASSUME StackOK, NEW t \in Tcs, Depth(t) > 0, Return(t)
  PROVE  Arrived(t)
  BY CutFrames DEF Arrived

\* Nor does an ocall or the return from one.
LEMMA MarkArrives ==
  ASSUME StackOK, NEW t \in Tcs, Depth(t) > 0, NEW b \in BOOLEAN,
         stack' = [stack EXCEPT ![t][Depth(t)].out = b]
  PROVE  Arrived(t)
  <1>1. PICK fr \in FrameSet : Moved(t, Depth(t), fr) /\ fr.pc = Top(t).pc
    BY OutMoves
  <1>2. \A u \in Tcs : \A i \in 1..Len(stack'[u]) :
           \/ u = t /\ i = Depth(t) /\ stack'[u][i] = fr
           \/ i \in 1..Len(stack[u]) /\ stack'[u][i] = stack[u][i]
    BY <1>1, MovedFrames
  <1>3. Depth(t) \in 1..Len(stack[t]) /\ Top(t) = stack[t][Depth(t)]
    BY TopIsFrame DEF Top
  <1> QED  BY <1>1, <1>2, <1>3 DEF Arrived

\* Nor does a new call.
LEMMA EnterArrives ==
  ASSUME StackOK, NEW t \in Tcs, NEW call \in HostCalls, Enter(t, call)
  PROVE  Arrived(t)
  <1>1. PICK pc \in {"fail", "dispatch"} : stack' = [stack EXCEPT ![t] = Append(@, Frame(call, pc))]
    BY DEF Enter
  <1> DEFINE fr == Frame(call, pc)
  <1>2. fr \in FrameSet /\ fr.pc \notin Late
    BY EnclaveAssumption DEF Frame, FrameSet, Calls, Pcs, Late
  <1> HIDE DEF fr
  <1>3. Moved(t, Depth(t) + 1, fr)
    BY <1>1, <1>2, AppendMoves DEF fr
  <1>4. \A u \in Tcs : \A i \in 1..Len(stack'[u]) :
           \/ stack'[u][i] = fr
           \/ i \in 1..Len(stack[u]) /\ stack'[u][i] = stack[u][i]
    BY <1>3, MovedFrames
  <1> QED  BY <1>2, <1>4 DEF Arrived

\* So it is for every step.
LEMMA StepArrives ==
  ASSUME IInv, NEW t \in Tcs, EnclaveStep(t)
  PROVE  Arrived(t)
  <1>1. StackOK
    BY DEF IInv
  <1>2. ASSUME NEW call \in HostCalls, Enter(t, call)  PROVE Arrived(t)
    BY <1>1, <1>2, EnterArrives
  <1>3. CASE Fail(t) \/ RtInitDone(t)
    <2>1. Depth(t) > 0 /\ Return(t)
      BY <1>3 DEF Fail, RtInitDone, At
    <2> QED  BY <1>1, <2>1, ReturnArrives
  <1>4. CASE \/ LockState(t) \/ RtInitFail(t) \/ ECall(t) \/ Once(t) \/ CtorsDone(t)
             \/ GlobalInit(t) \/ BodyEnd(t) \/ UninitCall(t) \/ Uninit(t) \/ Dtors(t)
    <2>1. Depth(t) > 0
      BY <1>4 DEF LockState, RtInitFail, ECall, Once, CtorsDone, GlobalInit, BodyEnd,
                  UninitCall, Uninit, Dtors, At
    <2>2. Return(t) \/ \E pc \in Pcs \ Late : Goto(t, pc)
      BY <1>4 DEF LockState, RtInitFail, ECall, Once, CtorsDone, GlobalInit, BodyEnd,
                  UninitCall, Uninit, Dtors, Entry, Pcs, Late
    <2> QED  BY <1>1, <2>1, <2>2, ReturnArrives, GotoArrives
  <1>5. CASE AtExit(t) \/ Cleanup(t) \/ RunExit(t)
    <2>1. stack' = stack
      BY <1>5 DEF AtExit, Cleanup, RunExit
    <2> QED  BY <2>1 DEF Arrived
  <1>6. CASE OCall(t) \/ ORet(t)
    <2>1. Depth(t) > 0
      BY <1>6 DEF OCall, ORet, UserCode, At
    <2>2. Return(t) \/ \E b \in BOOLEAN : stack' = [stack EXCEPT ![t][Depth(t)].out = b]
      BY <1>6 DEF OCall, ORet
    <2> QED  BY <1>1, <2>1, <2>2, ReturnArrives, MarkArrives
  <1>7. CASE StoreFlag(t)
    <2>1. Depth(t) > 0 /\ Goto(t, "ulock") /\ "ulock" \in Pcs
      BY <1>7 DEF StoreFlag, At, Pcs
    <2> QED  BY <1>1, <1>7, <2>1, GotoArrives
  <1>8. CASE UninitLock(t)
    <2>1. Depth(t) > 0 /\ "cleanup" \in Pcs /\ "fail" \in Pcs \ Late
          /\ (Goto(t, "cleanup") \/ Goto(t, "fail"))
      BY <1>8 DEF UninitLock, At, Pcs, Late
    <2> QED  BY <1>1, <1>8, <2>1, GotoArrives
  <1>9. CASE CleanupDone(t)
    <2>1. Depth(t) > 0 /\ Goto(t, "dtors") /\ "dtors" \in Pcs
      BY <1>9 DEF CleanupDone, At, Pcs
    <2> QED  BY <1>1, <1>9, <2>1, GotoArrives
  <1> QED
    BY <1>2, <1>3, <1>4, <1>5, <1>6, <1>7, <1>8, <1>9 DEF EnclaveStep
-----------------------------------------------------------------------------
(* The lists *)

\* A step that leaves the lists alone.
LEMMA ListsKept ==
  ASSUME IInv, ExitInv, NEW t \in Tcs, Arrived(t),
         ~StoreFlag(t), ~UninitLock(t), ~CleanupDone(t),
         UNCHANGED <<exits, cleanup, uninit>>,
         hist'.ran = hist.ran, hist'.accepted = hist.accepted
  PROVE  ExitInv'
  <1>1. EachOnce'
    BY DEF ExitInv, EachOnce, Queued, Taken
  <1>2. ASSUME NEW u \in Tcs, NEW i \in 1..Len(stack'[u])
        PROVE  EmptyAt(stack[u][i])'
    <2>1. CASE stack'[u][i].pc \in Late
      <3>1. i \in 1..Len(stack[u]) /\ stack[u][i].pc = stack'[u][i].pc
        BY <2>1 DEF Arrived
      <3>2. EmptyAt(stack[u][i])
        BY <3>1 DEF ExitInv
      <3> QED  BY <3>1, <3>2 DEF EmptyAt
    <2>2. CASE stack'[u][i].pc \notin Late
      BY <2>2 DEF EmptyAt, Late
    <2> QED  BY <2>1, <2>2
  <1> QED  BY <1>1, <1>2 DEF ExitInv

\* rtuninit sets UNINIT_FLAG, takes the lock or is done with the cleanup.
LEMMA UninitLists ==
  ASSUME IInv, ExitInv, NEW t \in Tcs, Arrived(t),
         StoreFlag(t) \/ UninitLock(t) \/ CleanupDone(t)
  PROVE  ExitInv'
  <1>1. Depth(t) > 0 /\ Top(t).pc \in {"store", "ulock", "cleanup"}
        /\ UNCHANGED <<exits, hist>> /\ (uninit' \/ uninit' = uninit)
    BY DEF StoreFlag, UninitLock, CleanupDone, At, enclaveVars
  <1>2. FrameOK(t, Top(t)) /\ EmptyAt(Top(t))
    BY <1>1, TopFacts, TopIsFrame DEF IInv, ExitInv, Top
  <1>3. cleanup.todo = <<>>
    <2>1. CASE StoreFlag(t)
      BY <1>2, <2>1 DEF StoreFlag, At, FrameOK, ExitInv
    <2>2. CASE UninitLock(t)
      BY <1>2, <2>2 DEF UninitLock, At, EmptyAt
    <2>3. CASE CleanupDone(t)
      BY <2>3 DEF CleanupDone
    <2> QED  BY <2>1, <2>2, <2>3
  <1>4. cleanup'.todo = <<>> /\ (cleanup' = cleanup \/ cleanup'.round = 1)
    BY <1>3 DEF StoreFlag, UninitLock, CleanupDone, enclaveVars
  <1>5. EachOnce'
    BY <1>1, <1>3, <1>4 DEF ExitInv, EachOnce, Queued, Taken
  <1>6. ASSUME NEW u \in Tcs, NEW i \in 1..Len(stack'[u])
        PROVE  EmptyAt(stack[u][i])'
    <2>1. CASE i \in 1..Len(stack[u]) /\ stack[u][i].pc = stack'[u][i].pc
      <3>1. EmptyAt(stack[u][i])
        BY <2>1 DEF ExitInv
      <3>2. cleanup'.round > Iters => cleanup' = cleanup
        BY <1>4, EnclaveAssumption
      <3> QED  BY <1>1, <1>4, <2>1, <3>1, <3>2 DEF EmptyAt
    <2>2. CASE StoreFlag(t) /\ stack'[u][i].pc = "ulock"
      BY <1>4, <2>2 DEF EmptyAt
    <2>3. CASE UninitLock(t) /\ stack'[u][i].pc = "cleanup"
      <3>1. CASE cleanup'.round = 1
        BY <2>3, <3>1, EnclaveAssumption DEF EmptyAt
      <3>2. CASE cleanup'.round # 1
        <4>1. ~first.done /\ Goto(t, "fail") /\ "fail" \in Pcs
          BY <2>3, <3>2 DEF UninitLock, Pcs
        <4>2. PICK fr \in FrameSet : Moved(t, Depth(t), fr) /\ fr.pc = "fail"
          BY <1>1, <4>1, GotoMoves DEF IInv
        <4>3. i \in 1..Len(stack[u]) /\ stack'[u][i] = stack[u][i]
          BY <2>3, <4>2, MovedFrames DEF IInv
        <4> QED  BY <2>1, <4>3
      <3> QED  BY <3>1, <3>2
    <2>4. CASE CleanupDone(t) /\ stack'[u][i].pc = "dtors"
      <3>1. Top(t).pc = "cleanup" /\ cleanup.round > Iters
        BY <2>4 DEF CleanupDone, At
      <3> QED  BY <1>1, <1>2, <1>4, <2>4, <3>1 DEF EmptyAt
    <2>5. CASE stack'[u][i].pc \notin Late
      BY <2>5 DEF EmptyAt, Late
    <2> QED  BY <2>1, <2>2, <2>3, <2>4, <2>5 DEF Arrived
  <1> QED  BY <1>1, <1>4, <1>5, <1>6 DEF ExitInv

\* at_exit appends a function that was not accepted before.
LEMMA AtExitLists ==
  ASSUME IInv, ExitInv, NEW t \in Tcs, AtExit(t)
  PROVE  ExitInv'
  <1>1. PICK f \in ExitFns \ hist.accepted :
           /\ exits' = [exits EXCEPT !.queue = Append(@, f)]
           /\ hist' = [hist EXCEPT !.accepted = @ \cup {f}]
    BY DEF AtExit
  <1>2. ~exits.done /\ UNCHANGED <<uninit, cleanup, stack>>
    BY DEF AtExit
  <1>3. exits \in [queue : Seq(ExitFns), done : BOOLEAN] /\ hist \in HistSet
        /\ exits.queue \in Seq(ExitFns) /\ Len(exits.queue) \in Nat
    BY DEF IInv, GlobalOK
  <1> DEFINE n == Len(exits.queue)
             q == Append(exits.queue, f)
  <1>4. Len(q) = n + 1 /\ q[n + 1] = f /\ \A i \in 1..n : q[i] = exits.queue[i]
    BY <1>3
  <1>5. exits'.queue = q /\ exits'.done = exits.done
        /\ hist'.ran = hist.ran /\ hist'.accepted = hist.accepted \cup {f}
    BY <1>1, <1>3 DEF HistSet
  <1> HIDE DEF q
  <1>6. ~Queued(f) /\ ~Taken(f) /\ hist.ran[f] = 0
    <2>1. hist.ran[f] \in Nat /\ hist.ran[f] <= 1 /\ hist.ran[f] # 1
      BY <1>1, <1>3 DEF ExitInv, EachOnce, HistSet
    <2> QED  BY <1>1, <2>1 DEF ExitInv, EachOnce
  <1>7. \A g : Queued(g)' <=> Queued(g) \/ g = f
    BY <1>3, <1>4, <1>5 DEF Queued
  <1>8. \A g : Taken(g)' <=> Taken(g)
    BY <1>2 DEF Taken
  <1>9. \A i, j \in 1..Len(exits'.queue) : exits'.queue[i] = exits'.queue[j] => i = j
    <2>1. \A i \in 1..n : exits.queue[i] # f
      BY <1>6 DEF Queued
    <2>2. \A i \in 1..(n + 1) : i \in 1..n \/ i = n + 1
      BY <1>3
    <2> QED  BY <1>3, <1>4, <1>5, <2>1, <2>2 DEF ExitInv, EachOnce
  <1>10. EachOnce'
    <2>1. \A i, j \in 1..Len(cleanup'.todo) : cleanup'.todo[i] = cleanup'.todo[j] => i = j
      BY <1>2 DEF ExitInv, EachOnce
    <2>2. \A g \in ExitFns : ~(Queued(g)' /\ Taken(g)')
      BY <1>6, <1>7, <1>8 DEF ExitInv, EachOnce
    <2>3. \A g \in ExitFns : Queued(g)' \/ Taken(g)' => hist'.ran[g] = 0
      BY <1>5, <1>6, <1>7, <1>8 DEF ExitInv, EachOnce
    <2>4. \A g \in ExitFns : hist'.ran[g] <= 1
      BY <1>5 DEF ExitInv, EachOnce
    <2>5. \A g \in ExitFns :
             g \in hist'.accepted <=> Queued(g)' \/ Taken(g)' \/ hist'.ran[g] = 1
      BY <1>5, <1>6, <1>7, <1>8 DEF ExitInv, EachOnce
    <2> QED  BY <1>9, <2>1, <2>2, <2>3, <2>4, <2>5 DEF EachOnce
  <1>11. \A u \in Tcs : \A i \in 1..Len(stack'[u]) : EmptyAt(stack[u][i])'
    BY <1>2, <1>5 DEF ExitInv, EmptyAt
  <1> QED  BY <1>2, <1>5, <1>10, <1>11 DEF ExitInv

\* While the innermost call of t is in the cleanup, no call is at the lock or at the
\* destructors.
LEMMA CleanupAlone ==
  ASSUME IInv, NEW t \in Tcs, At(t, "cleanup")
  PROVE  \A u \in Tcs : \A i \in 1..Len(stack[u]) : stack[u][i].pc \notin {"ulock", "dtors"}
  <1> SUFFICES ASSUME NEW u \in Tcs, NEW i \in 1..Len(stack[u]),
                      stack[u][i].pc \in {"ulock", "dtors"}
               PROVE  FALSE
    OBVIOUS
  <1>1. Depth(t) > 0 /\ Top(t).pc = "cleanup"
    BY DEF At
  <1>2. u = t /\ i = Depth(t)
    BY <1>1, TopFacts DEF Ending
  <1> QED  BY <1>1, <1>2 DEF Top

\* A round takes the queue over.
LEMMA CleanupLists ==
  ASSUME IInv, ExitInv, NEW t \in Tcs, Cleanup(t)
  PROVE  ExitInv'
  <1>1. At(t, "cleanup") /\ cleanup.todo = <<>> /\ cleanup.round <= Iters
        /\ exits' = [queue |-> <<>>, done |-> cleanup.round = Iters]
        /\ cleanup' = [round |-> cleanup.round + 1, todo |-> exits.queue]
        /\ UNCHANGED <<uninit, stack, hist>>
    BY DEF Cleanup
  <1>2. uninit /\ cleanup.round \in Nat
    BY <1>1, TopFacts DEF At, FrameOK, IInv, GlobalOK
  <1>3. exits'.queue = <<>> /\ cleanup'.todo = exits.queue /\ cleanup'.round = cleanup.round + 1
    BY <1>1
  <1>4. \A g : ~Queued(g)' /\ ~Taken(g)
    BY <1>1, <1>3 DEF Queued, Taken
  <1>5. \A g : Taken(g)' <=> Queued(g)
    BY <1>3 DEF Taken, Queued
  <1>6. EachOnce'
    BY <1>1, <1>3, <1>4, <1>5 DEF ExitInv, EachOnce
  <1>7. cleanup'.round > Iters => exits'.done
    <2>1. cleanup'.round > Iters => cleanup.round = Iters
      BY <1>1, <1>2, <1>3, EnclaveAssumption
    <2> QED  BY <1>1, <2>1
  <1>8. \A u \in Tcs : \A i \in 1..Len(stack'[u]) : EmptyAt(stack[u][i])'
    BY <1>1, <1>7, CleanupAlone DEF EmptyAt
  <1> QED  BY <1>1, <1>2, <1>3, <1>6, <1>8 DEF ExitInv

\* The last function of the round runs.
LEMMA RunExitLists ==
  ASSUME IInv, ExitInv, NEW t \in Tcs, RunExit(t)
  PROVE  ExitInv'
  <1>1. At(t, "cleanup") /\ cleanup.todo # <<>> /\ UNCHANGED <<uninit, exits, stack>>
    BY DEF RunExit
  <1>2. cleanup \in [round : Nat, todo : Seq(ExitFns)] /\ cleanup.todo \in Seq(ExitFns)
        /\ hist \in HistSet /\ hist.ran \in [ExitFns -> Nat] /\ uninit
    BY <1>1, TopFacts DEF At, FrameOK, IInv, GlobalOK, HistSet
  <1> DEFINE n == Len(cleanup.todo)
             f == cleanup.todo[n]
             rest == SubSeq(cleanup.todo, 1, n - 1)
             ran == [hist.ran EXCEPT ![f] = hist.ran[f] + 1]
  <1>3. n \in Nat /\ n > 0 /\ n \in 1..n /\ f \in ExitFns
    BY <1>1, <1>2
  <1>4. Len(rest) = n - 1 /\ \A i \in 1..(n - 1) : rest[i] = cleanup.todo[i]
    <2>1. n - 1 \in Int /\ \A i \in 1..(n - 1) : cleanup.todo[i] \in ExitFns
      BY <1>2, <1>3
    <2>2. /\ Len(rest) = IF 1 <= n - 1 THEN (n - 1) - 1 + 1 ELSE 0
          /\ \A i \in 1..((n - 1) - 1 + 1) : rest[i] = cleanup.todo[1 + i - 1]
      BY <2>1, SubSeqProperties
    <2> HIDE DEF n, rest
    <2> QED  BY <1>3, <2>2
  <1>5. hist' = [hist EXCEPT !.ran = ran] /\ cleanup' = [cleanup EXCEPT !.todo = rest]
    BY DEF RunExit
  <1>6. ran[f] = hist.ran[f] + 1 /\ \A g \in ExitFns \ {f} : ran[g] = hist.ran[g]
    BY <1>2, <1>3
  <1>7. Taken(f) /\ hist.ran[f] = 0 /\ ~Queued(f)
    <2>1. Taken(f)
      BY <1>3 DEF Taken
    <2> QED  BY <1>3, <2>1 DEF ExitInv, EachOnce
  <1>8. \A g \in ExitFns : g # f /\ Taken(g) => \E i \in 1..(n - 1) : cleanup.todo[i] = g
    <2>1. \A i \in 1..n : i \in 1..(n - 1) \/ i = n
      BY <1>3
    <2> QED  BY <2>1 DEF Taken
  <1>9. \A i \in 1..(n - 1) : i \in 1..n /\ cleanup.todo[i] # f
    <2>1. \A i \in 1..(n - 1) : i \in 1..n /\ i # n
      BY <1>3
    <2> QED  BY <1>3, <2>1 DEF ExitInv, EachOnce
  <1> HIDE DEF ran, rest, f
  <1>10. cleanup'.todo = rest /\ cleanup'.round = cleanup.round
         /\ hist'.ran = ran /\ hist'.accepted = hist.accepted
    BY <1>2, <1>5 DEF HistSet
  <1>11. \A g \in ExitFns : Taken(g)' <=> Taken(g) /\ g # f
    <2>1. \A g \in ExitFns : Taken(g)' => Taken(g) /\ g # f
      BY <1>4, <1>9, <1>10 DEF Taken
    <2>2. \A g \in ExitFns : Taken(g) /\ g # f => Taken(g)'
      BY <1>4, <1>8, <1>10 DEF Taken
    <2> QED  BY <2>1, <2>2
  <1>12. \A g : Queued(g)' <=> Queued(g)
    BY <1>1 DEF Queued
  <1>13. EachOnce'
    <2>1. \A i, j \in 1..Len(cleanup'.todo) : cleanup'.todo[i] = cleanup'.todo[j] => i = j
      BY <1>4, <1>9, <1>10 DEF ExitInv, EachOnce
    <2>2. \A i, j \in 1..Len(exits'.queue) : exits'.queue[i] = exits'.queue[j] => i = j
      BY <1>1 DEF ExitInv, EachOnce
    <2>3. \A g \in ExitFns : ~(Queued(g)' /\ Taken(g)')
      BY <1>11, <1>12 DEF ExitInv, EachOnce
    <2>4. \A g \in ExitFns : Queued(g)' \/ Taken(g)' => hist'.ran[g] = 0
      BY <1>6, <1>7, <1>10, <1>11, <1>12 DEF ExitInv, EachOnce
    <2>5. \A g \in ExitFns : hist'.ran[g] <= 1
      BY <1>6, <1>7, <1>10 DEF ExitInv, EachOnce
    <2>6. \A g \in ExitFns :
             g \in hist'.accepted <=> Queued(g)' \/ Taken(g)' \/ hist'.ran[g] = 1
      BY <1>3, <1>6, <1>7, <1>10, <1>11, <1>12 DEF ExitInv, EachOnce
    <2> QED  BY <2>1, <2>2, <2>3, <2>4, <2>5, <2>6 DEF EachOnce
  <1>14. \A u \in Tcs : \A i \in 1..Len(stack'[u]) : EmptyAt(stack[u][i])'
    BY <1>1, <1>10, CleanupAlone DEF EmptyAt, ExitInv
  <1> QED  BY <1>1, <1>2, <1>13, <1>14 DEF ExitInv
-----------------------------------------------------------------------------
\* Every step preserves ExitInv.
LEMMA ExitStep ==
  ASSUME IInv, ExitInv, [EnclaveNext]_<<enclaveVars, stack>>
  PROVE  ExitInv'
  <1>1. CASE UNCHANGED <<enclaveVars, stack>>
    <2>1. EachOnce'
      BY <1>1 DEF ExitInv, EachOnce, Queued, Taken, enclaveVars
    <2> QED  BY <1>1, <2>1 DEF ExitInv, EmptyAt, enclaveVars
  <1>2. ASSUME NEW t \in Tcs, EnclaveStep(t)
        PROVE  ExitInv'
    <2>1. Arrived(t)
      BY <1>2, StepArrives
    <2>2. CASE StoreFlag(t) \/ UninitLock(t) \/ CleanupDone(t)
      BY <2>1, <2>2, UninitLists
    <2>3. CASE AtExit(t)
      BY <2>3, AtExitLists
    <2>4. CASE Cleanup(t)
      BY <2>4, CleanupLists
    <2>5. CASE RunExit(t)
      BY <2>5, RunExitLists
    <2>6. CASE /\ ~StoreFlag(t) /\ ~UninitLock(t) /\ ~CleanupDone(t)
               /\ ~AtExit(t) /\ ~Cleanup(t) /\ ~RunExit(t)
      <3>1. UNCHANGED <<exits, cleanup, uninit>>
        BY <1>2, <2>6 DEF EnclaveStep, Enter, Fail, LockState, RtInitDone, RtInitFail, ECall,
           Once, CtorsDone, GlobalInit, BodyEnd, OCall, ORet, UninitCall, Uninit, Dtors,
           enclaveVars
      <3>2. \/ hist' = hist
            \/ hist' = [hist EXCEPT !.ctors = @ + 1]
            \/ hist' = [hist EXCEPT !.dtors = @ + 1]
        BY <1>2, <2>6 DEF EnclaveStep, Enter, Fail, LockState, RtInitDone, RtInitFail, ECall,
           Once, CtorsDone, GlobalInit, BodyEnd, OCall, ORet, UninitCall, Uninit, Dtors,
           enclaveVars
      <3>3. hist'.ran = hist.ran /\ hist'.accepted = hist.accepted
        BY <3>2 DEF IInv, GlobalOK, HistSet
      <3> QED  BY <2>1, <2>6, <3>1, <3>3, ListsKept
    <2> QED  BY <2>2, <2>3, <2>4, <2>5, <2>6
  <1> QED  BY <1>1, <1>2 DEF EnclaveNext

\* Every function that at_exit accepted, from whatever thread and also during the
\* cleanup, runs once, and has run when the destructors do (atexit::cleanup).
THEOREM ExitFunctions == EnclaveSpec => []ExitFunctionsRun
  <1>1. EnclaveInit => ExitInv
    <2> SUFFICES ASSUME EnclaveInit  PROVE ExitInv
      OBVIOUS
    <2>1. \A t \in Tcs : Len(stack[t]) = 0
      BY DEF EnclaveInit
    <2>2. \A f : ~Queued(f) /\ ~Taken(f)
      BY DEF EnclaveInit, Queued, Taken
    <2>3. EachOnce
      BY <2>2 DEF EnclaveInit, EachOnce
    <2> QED  BY <2>1, <2>3 DEF EnclaveInit, ExitInv
  <1>2. IInv /\ ExitInv /\ [EnclaveNext]_<<enclaveVars, stack>> => ExitInv'
    BY ExitStep
  <1>3. IInv /\ ExitInv => ExitFunctionsRun
    <2> SUFFICES ASSUME IInv, ExitInv  PROVE ExitFunctionsRun
      OBVIOUS
    <2>1. \A f \in ExitFns : hist.ran[f] <= 1
      BY DEF ExitInv, EachOnce
    <2>2. ASSUME NEW t \in Tcs, At(t, "dtors"), NEW f \in hist.accepted
          PROVE  hist.ran[f] = 1
      <3>1. EmptyAt(Top(t)) /\ Top(t).pc = "dtors"
        BY <2>2, TopIsFrame DEF At, IInv, ExitInv, Top
      <3>2. exits.queue = <<>> /\ cleanup.todo = <<>>
        BY <3>1 DEF EmptyAt, ExitInv
      <3>3. ~Queued(f) /\ ~Taken(f)
        BY <3>2 DEF Queued, Taken
      <3>4. f \in ExitFns
        BY DEF IInv, GlobalOK, HistSet
      <3> QED  BY <3>3, <3>4 DEF ExitInv, EachOnce
    <2> QED  BY <2>1, <2>2 DEF ExitFunctionsRun
  <1> QED  BY <1>1, <1>2, <1>3, InvariantHolds, PTL DEF EnclaveSpec
=============================================================================
