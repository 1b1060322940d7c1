---------------------------- MODULE EnclaveProofs ----------------------------
(***************************************************************************)
(* Enclave for any set of TCSs, any depth of nested calls and any exit     *)
(* functions: the constructors run once and first, the enclave is          *)
(* destroyed once, and the lock of FIRST_ECALL has a holder.               *)
(***************************************************************************)
EXTENDS Enclave, SequenceTheorems, TLAPS

Pcs == {"fail", "dispatch", "rtinit", "once", "ctors", "body", "run", "cleanup", "dtors",
        "uninit", "store", "ulock"}
Calls == {"RtInit", "ECall", "GlobalInit", "GlobalExit", "RtUninit", "Thread"}
FrameSet == [call : Calls, pc : Pcs, out : BOOLEAN, obj : {None}]

\* The stacks: a call that is not the innermost one has made an ocall.
StackOK ==
    /\ stack \in [Tcs -> Seq(FrameSet)]
    /\ \A t \in Tcs : Len(stack[t]) <= MaxDepth
    /\ \A t \in Tcs : \A i \in 1..Len(stack[t]) : i < Len(stack[t]) => stack[t][i].out

\* The stack of t is cut to n calls, of which all but the last are as before, and the
\* last one is fr.
Moved(t, n, fr) ==
    /\ n \in 1..(Len(stack[t]) + 1)
    /\ stack' \in [Tcs -> Seq(FrameSet)]
    /\ \A u \in Tcs \ {t} : stack'[u] = stack[u]
    /\ Len(stack'[t]) = n
    /\ \A i \in 1..(n - 1) : i <= Len(stack[t]) /\ stack'[t][i] = stack[t][i]
    /\ stack'[t][n] = fr

\* A step that puts fr in the place of the innermost call.
LEMMA ReplaceMoves ==
  ASSUME StackOK, NEW t \in Tcs, Depth(t) > 0, NEW fr \in FrameSet,
         stack' = [stack EXCEPT ![t] = [stack[t] EXCEPT ![Depth(t)] = fr]]
  PROVE  Moved(t, Depth(t), fr)
  <1>1. stack[t] \in Seq(FrameSet) /\ Depth(t) \in 1..Len(stack[t])
    BY DEF StackOK, Depth
  <1> DEFINE new == [stack[t] EXCEPT ![Depth(t)] = fr]
  <1>2. new \in Seq(FrameSet) /\ Len(new) = Len(stack[t])
    BY <1>1
  <1>3. \A i \in 1..(Depth(t) - 1) : new[i] = stack[t][i]
    BY <1>1 DEF Depth
  <1>4. new[Depth(t)] = fr
    BY <1>1
  <1>5. stack'[t] = new /\ stack' \in [Tcs -> Seq(FrameSet)]
        /\ \A u \in Tcs \ {t} : stack'[u] = stack[u]
    BY <1>2 DEF StackOK
  <1> HIDE DEF new
  <1> QED  BY <1>1, <1>2, <1>3, <1>4, <1>5 DEF Moved, Depth

\* The innermost call of a TCS that is in the enclave.
LEMMA TopIsFrame ==
  ASSUME StackOK, NEW t \in Tcs, Depth(t) > 0
  PROVE  Top(t) \in FrameSet /\ Depth(t) \in 1..Len(stack[t]) /\ Len(stack[t]) \in Nat
  BY DEF StackOK, Depth, Top

\* Goto changes the place of the innermost call.
LEMMA GotoMoves ==
  ASSUME StackOK, NEW t \in Tcs, Depth(t) > 0, NEW pc \in Pcs, Goto(t, pc)
  PROVE  \E fr \in FrameSet : /\ Moved(t, Depth(t), fr)
                              /\ fr.pc = pc /\ fr.call = Top(t).call /\ fr.out = Top(t).out
  <1> DEFINE fr == [Top(t) EXCEPT !.pc = pc]
  <1>1. fr \in FrameSet /\ fr.pc = pc /\ fr.call = Top(t).call /\ fr.out = Top(t).out
    BY TopIsFrame DEF FrameSet
  <1>2. stack' = [stack EXCEPT ![t] = [stack[t] EXCEPT ![Depth(t)] = fr]]
    BY DEF Goto, Top
  <1> HIDE DEF fr
  <1>3. Moved(t, Depth(t), fr)
    BY Zenon, <1>1, <1>2, ReplaceMoves
  <1> QED  BY <1>1, <1>3

\* An ocall and its return change its mark.
LEMMA OutMoves ==
  ASSUME StackOK, NEW t \in Tcs, Depth(t) > 0, NEW b \in BOOLEAN,
         stack' = [stack EXCEPT ![t][Depth(t)].out = b]
  PROVE  \E fr \in FrameSet : /\ Moved(t, Depth(t), fr)
                              /\ fr.pc = Top(t).pc /\ fr.call = Top(t).call /\ fr.out = b
  <1> DEFINE fr == [Top(t) EXCEPT !.out = b]
  <1>1. fr \in FrameSet /\ fr.pc = Top(t).pc /\ fr.call = Top(t).call /\ fr.out = b
    BY TopIsFrame DEF FrameSet
  <1>2. stack' = [stack EXCEPT ![t] = [stack[t] EXCEPT ![Depth(t)] = fr]]
    BY DEF Top
  <1> HIDE DEF fr
  <1>3. Moved(t, Depth(t), fr)
    BY Zenon, <1>1, <1>2, ReplaceMoves
  <1> QED  BY <1>1, <1>3

\* Entering appends a call.
LEMMA AppendMoves ==
  ASSUME StackOK, NEW t \in Tcs, NEW fr \in FrameSet, stack' = [stack EXCEPT ![t] = Append(@, fr)]
  PROVE  Moved(t, Depth(t) + 1, fr)
  BY DEF StackOK, Moved, Depth

\* Returning takes the innermost call away.
LEMMA ReturnCuts ==
  ASSUME StackOK, NEW t \in Tcs, Depth(t) > 0, Return(t)
  PROVE  /\ stack' \in [Tcs -> Seq(FrameSet)]
         /\ \A u \in Tcs \ {t} : stack'[u] = stack[u]
         /\ Len(stack'[t]) = Len(stack[t]) - 1
         /\ \A i \in 1..(Len(stack[t]) - 1) : stack'[t][i] = stack[t][i]
  <1> DEFINE new == SubSeq(stack[t], 1, Len(stack[t]) - 1)
  <1>1. stack[t] \in Seq(FrameSet) /\ Len(stack[t]) \in Nat /\ Len(stack[t]) > 0
    BY DEF StackOK, Depth
  <1>2. new \in Seq(FrameSet) /\ Len(new) = Len(stack[t]) - 1
        /\ \A i \in 1..(Len(stack[t]) - 1) : new[i] = stack[t][i]
    BY <1>1, SubSeqProperties
  <1>3. stack' = [stack EXCEPT ![t] = new]
    BY DEF Return, Depth
  <1> HIDE DEF new
  <1> QED  BY <1>1, <1>2, <1>3 DEF StackOK
-----------------------------------------------------------------------------
(* The inductive invariant *)

Ending == {"store", "ulock", "cleanup", "dtors"}  \* has passed the check of rtuninit

\* What is true while t is in the call fr.
FrameOK(t, fr) ==
    /\ fr.out => fr.pc \in {"body", "ctors", "dtors", "cleanup"}
    /\ fr.pc = "rtinit" => state # "NotStarted" /\ initTcs = {}
    /\ fr.pc \in Holding => first.lock = t
    /\ fr.pc = "ctors" => ~first.done
    /\ fr.pc \in {"run", "cleanup", "dtors"} => first.done
    /\ fr.pc = "body" /\ fr.call \in {"ECall", "Thread"} => first.done
    /\ fr.pc \in Ending => initTcs = {t} /\ hist.dtors = 0
    /\ fr.pc = "store" => ~uninit
    /\ fr.pc \in {"ulock", "cleanup", "dtors"} => uninit
    /\ fr.pc \in {"store", "ulock"} => ~exits.done
    /\ fr.pc = "cleanup" => cleanup.round >= 1
    /\ fr.pc = "cleanup" /\ cleanup.round = 1 => ~exits.done

\* One call at most, of all TCSs, is at a place of S.
Alone(S) ==
    \A t, u \in Tcs : \A i \in 1..Len(stack[t]), j \in 1..Len(stack[u]) :
        stack[t][i].pc \in S /\ stack[u][j].pc \in S => t = u /\ i = j

HistSet == [ctors : Nat, dtors : Nat, ran : [ExitFns -> Nat], accepted : SUBSET ExitFns]

\* What is true whoever runs.
GlobalOK ==
    /\ first \in [done : BOOLEAN, lock : Tcs \cup {None}]
    /\ cleanup \in [round : Nat, todo : Seq(ExitFns)]
    /\ exits \in [queue : Seq(ExitFns), done : BOOLEAN]
    /\ hist \in HistSet
    /\ first.done => hist.ctors = 1
    /\ ~first.done => hist.ctors = 0
    /\ hist.dtors <= 1
    /\ ~uninit => hist.dtors = 0 /\ ~exits.done
    /\ initTcs = {} \/ \E t \in Tcs : initTcs = {t}
    /\ state = "NotStarted" => initTcs = {}

FramesOK == \A t \in Tcs : \A i \in 1..Len(stack[t]) : FrameOK(t, stack[t][i])
AllAlone == Alone({"rtinit"}) /\ Alone(Holding) /\ Alone(Ending)

IInv == StackOK /\ GlobalOK /\ FramesOK /\ AllAlone
-----------------------------------------------------------------------------
(* What a step of t leaves alone *)

\* Every call after the step is the new one or one from before it.
LEMMA MovedFrames ==
  ASSUME StackOK, NEW t \in Tcs, NEW n \in {Depth(t), Depth(t) + 1}, NEW fr, Moved(t, n, fr),
         NEW u \in Tcs, NEW i \in 1..Len(stack'[u])
  PROVE  \/ u = t /\ i = n /\ stack'[u][i] = fr
         \/ /\ i \in 1..Len(stack[u]) /\ stack'[u][i] = stack[u][i]
            /\ u = t => i < n
  BY DEF StackOK, Moved, Depth

\* The stacks stay well formed when the innermost call is replaced or a call is nested.
LEMMA MovedStack ==
  ASSUME StackOK, NEW t \in Tcs, NEW n \in {Depth(t), Depth(t) + 1}, NEW fr, Moved(t, n, fr),
         n = Depth(t) \/ (n <= MaxDepth /\ (Depth(t) > 0 => Top(t).out))
  PROVE  StackOK'
  <1>1. \A u \in Tcs : Len(stack[u]) \in Nat
    BY DEF StackOK
  <1>2. \A u \in Tcs : Len(stack'[u]) <= MaxDepth
    BY Zenon, <1>1 DEF StackOK, Moved, Depth
  <1>3. ASSUME NEW u \in Tcs, NEW i \in 1..Len(stack'[u]), i < Len(stack'[u])
        PROVE  stack'[u][i].out
    <2>1. i \in 1..Len(stack[u]) /\ stack'[u][i] = stack[u][i]
      BY <1>1, <1>3 DEF Moved
    <2>2. CASE i < Len(stack[u])
      BY <2>1, <2>2 DEF StackOK
    <2>3. CASE i = Len(stack[u])
      <3>1. u = t /\ i = Depth(t) /\ n # Depth(t) /\ Depth(t) > 0
        BY <1>1, <1>3, <2>1, <2>3 DEF Moved, Depth
      <3> QED  BY <2>1, <3>1 DEF Top
    <2> QED  BY <1>1, <2>1, <2>2, <2>3
  <1> QED  BY <1>2, <1>3 DEF StackOK, Moved

\* A call that moves joins no other at a place for one.
LEMMA MovedAlone ==
  ASSUME StackOK, NEW t \in Tcs, NEW n \in {Depth(t), Depth(t) + 1}, NEW fr, Moved(t, n, fr),
         NEW S, Alone(S),
         \/ fr.pc \notin S
         \/ n = Depth(t) /\ Depth(t) > 0 /\ Top(t).pc \in S
         \/ \A u \in Tcs : \A i \in 1..Len(stack[u]) :
               stack[u][i].pc \in S => u = t /\ i = n
  PROVE  Alone(S)'
  <1> SUFFICES ASSUME NEW u \in Tcs, NEW v \in Tcs,
                      NEW i \in 1..Len(stack'[u]), NEW j \in 1..Len(stack'[v]),
                      stack'[u][i].pc \in S, stack'[v][j].pc \in S
               PROVE  u = v /\ i = j
    BY DEF Alone
  <1>1. \/ u = t /\ i = n /\ stack'[u][i] = fr
        \/ i \in 1..Len(stack[u]) /\ stack'[u][i] = stack[u][i] /\ (u = t => i < n)
    BY MovedFrames
  <1>2. \/ v = t /\ j = n /\ stack'[v][j] = fr
        \/ j \in 1..Len(stack[v]) /\ stack'[v][j] = stack[v][j] /\ (v = t => j < n)
    BY MovedFrames
  <1>3. n = Depth(t) /\ Depth(t) > 0 => n \in 1..Len(stack[t]) /\ stack[t][n] = Top(t)
    BY TopIsFrame DEF Top
  <1>4. n \in Nat
    BY DEF StackOK, Depth
  <1>5. CASE fr.pc \notin S
    BY <1>1, <1>2, <1>5 DEF Alone
  <1>6. CASE n = Depth(t) /\ Depth(t) > 0 /\ Top(t).pc \in S
    <2>1. \A w \in Tcs : \A k \in 1..Len(stack[w]) :
             stack[w][k].pc \in S => w = t /\ k = n
      BY <1>3, <1>6 DEF Alone
    <2> QED  BY <1>1, <1>2, <1>4, <2>1
  <1>7. CASE \A w \in Tcs : \A k \in 1..Len(stack[w]) :
                stack[w][k].pc \in S => w = t /\ k = n
    BY <1>1, <1>2, <1>4, <1>7
  <1> QED  BY <1>5, <1>6, <1>7

\* When a call returns, the others stay.
LEMMA CutFrames ==
  ASSUME StackOK, NEW t \in Tcs, Depth(t) > 0, Return(t),
         NEW u \in Tcs, NEW i \in 1..Len(stack'[u])
  PROVE  /\ i \in 1..Len(stack[u]) /\ stack'[u][i] = stack[u][i]
         /\ u = t => i < Depth(t)
  <1>1. Len(stack[u]) \in Nat /\ Len(stack[t]) \in Nat
    BY DEF StackOK
  <1> QED  BY <1>1, ReturnCuts DEF Depth

\* The stacks stay well formed when a call returns.
LEMMA CutStack ==
  ASSUME StackOK, NEW t \in Tcs, Depth(t) > 0, Return(t)
  PROVE  StackOK'
  <1>1. \A u \in Tcs : Len(stack[u]) \in Nat /\ Len(stack[u]) <= MaxDepth
    BY DEF StackOK
  <1>2. \A u \in Tcs : Len(stack'[u]) <= MaxDepth /\ Len(stack'[u]) <= Len(stack[u])
    BY <1>1, ReturnCuts, EnclaveAssumption
  <1>3. ASSUME NEW u \in Tcs, NEW i \in 1..Len(stack'[u]), i < Len(stack'[u])
        PROVE  stack'[u][i].out
    <2>1. i \in 1..Len(stack[u]) /\ stack'[u][i] = stack[u][i]
      BY CutFrames
    <2>2. Len(stack'[u]) \in Nat
      BY ReturnCuts
    <2> QED  BY <1>1, <1>2, <1>3, <2>1, <2>2 DEF StackOK
  <1> QED  BY <1>2, <1>3, ReturnCuts DEF StackOK

\* A call that returns joins no other.
LEMMA CutAlone ==
  ASSUME StackOK, NEW t \in Tcs, Depth(t) > 0, Return(t), NEW S, Alone(S)
  PROVE  Alone(S)'
  <1> SUFFICES ASSUME NEW u \in Tcs, NEW v \in Tcs,
                      NEW i \in 1..Len(stack'[u]), NEW j \in 1..Len(stack'[v]),
                      stack'[u][i].pc \in S, stack'[v][j].pc \in S
               PROVE  u = v /\ i = j
    BY DEF Alone
  <1>1. i \in 1..Len(stack[u]) /\ stack'[u][i] = stack[u][i]
    BY CutFrames
  <1>2. j \in 1..Len(stack[v]) /\ stack'[v][j] = stack[v][j]
    BY CutFrames
  <1> QED  BY <1>1, <1>2 DEF Alone
-----------------------------------------------------------------------------
(* Every step preserves the invariant *)

StateKept == state' = state \/ state' # "NotStarted"

\* A step that only moves the innermost call to a place that asks for nothing.
LEMMA QuietGoto ==
  ASSUME IInv, NEW t \in Tcs, Depth(t) > 0, ~Top(t).out,
         NEW pc \in {"fail", "once", "body", "run", "uninit"}, Goto(t, pc),
         pc = "run" => first.done,
         pc = "body" /\ Top(t).call \in {"ECall", "Thread"} => first.done,
         StateKept, UNCHANGED <<uninit, initTcs, first, exits, cleanup, hist>>
  PROVE  IInv'
  <1>1. PICK fr \in FrameSet : /\ Moved(t, Depth(t), fr)
                               /\ fr.pc = pc /\ fr.call = Top(t).call /\ fr.out = Top(t).out
    BY GotoMoves DEF IInv, Pcs
  <1>2. StackOK'
    BY <1>1, MovedStack DEF IInv
  <1>3. GlobalOK'
    BY DEF IInv, GlobalOK, StateKept
  <1>4. ASSUME NEW u \in Tcs, NEW i \in 1..Len(stack'[u])
        PROVE  FrameOK(u, stack[u][i])'
    <2>1. CASE stack'[u][i] = fr
      BY <1>1, <2>1 DEF FrameOK, Holding, Ending
    <2>2. CASE i \in 1..Len(stack[u]) /\ stack'[u][i] = stack[u][i]
      <3>1. FrameOK(u, stack[u][i])
        BY <2>2 DEF IInv, FramesOK
      <3> QED  BY <2>2, <3>1 DEF FrameOK, StateKept
    <2> QED  BY <1>1, <2>1, <2>2, MovedFrames DEF IInv
  <1>5. AllAlone'
    BY <1>1, MovedAlone DEF IInv, AllAlone, Holding, Ending
  <1> QED  BY <1>2, <1>3, <1>4, <1>5 DEF IInv, FramesOK

\* A step that ends the innermost call.
LEMMA QuietReturn ==
  ASSUME IInv, NEW t \in Tcs, Depth(t) > 0, Return(t),
         StateKept, UNCHANGED <<uninit, initTcs, first, exits, cleanup, hist>>
  PROVE  IInv'
  <1>1. StackOK'
    BY CutStack DEF IInv
  <1>2. GlobalOK'
    BY DEF IInv, GlobalOK, StateKept
  <1>3. ASSUME NEW u \in Tcs, NEW i \in 1..Len(stack'[u])
        PROVE  FrameOK(u, stack[u][i])'
    <2>1. i \in 1..Len(stack[u]) /\ stack'[u][i] = stack[u][i]
      BY CutFrames DEF IInv
    <2>2. FrameOK(u, stack[u][i])
      BY <2>1 DEF IInv, FramesOK
    <2> QED  BY <2>1, <2>2 DEF FrameOK, StateKept
  <1>4. AllAlone'
    BY CutAlone DEF IInv, AllAlone
  <1> QED  BY <1>1, <1>2, <1>3, <1>4 DEF IInv, FramesOK

\* The host enters: a new call, with nothing done yet.
LEMMA EnterKeeps ==
  ASSUME IInv, NEW t \in Tcs, NEW call \in HostCalls, Enter(t, call)
  PROVE  IInv'
  <1>1. PICK pc \in {"fail", "dispatch"} : stack' = [stack EXCEPT ![t] = Append(@, Frame(call, pc))]
    BY Zenon DEF Enter
  <1> DEFINE fr == Frame(call, pc)
  <1>2. fr \in FrameSet /\ fr.pc = pc /\ ~fr.out
    BY EnclaveAssumption DEF Frame, FrameSet, Calls, Pcs
  <1> HIDE DEF fr
  <1>3. Moved(t, Depth(t) + 1, fr)
    BY Zenon, <1>1, <1>2, AppendMoves DEF IInv, fr
  <1>4. Depth(t) \in Nat /\ Depth(t) + 1 <= MaxDepth /\ (Depth(t) > 0 => Top(t).out)
    BY EnclaveAssumption DEF Enter, IInv, StackOK, Depth
  <1>5. StackOK'
    BY <1>3, <1>4, MovedStack DEF IInv
  <1>6. UNCHANGED enclaveVars
    BY DEF Enter
  <1>7. GlobalOK'
    BY <1>6 DEF IInv, GlobalOK, enclaveVars
  <1>8. ASSUME NEW u \in Tcs, NEW i \in 1..Len(stack'[u])
        PROVE  FrameOK(u, stack[u][i])'
    <2>1. CASE stack'[u][i] = fr
      BY <1>2, <2>1 DEF FrameOK, Holding, Ending
    <2>2. CASE i \in 1..Len(stack[u]) /\ stack'[u][i] = stack[u][i]
      <3>1. FrameOK(u, stack[u][i])
        BY <2>2 DEF IInv, FramesOK
      <3> QED  BY <1>6, <2>2, <3>1 DEF FrameOK, enclaveVars
    <2> QED  BY <1>3, <2>1, <2>2, MovedFrames DEF IInv
  <1>9. AllAlone'
    BY <1>2, <1>3, MovedAlone DEF IInv, AllAlone, Holding, Ending
  <1> QED  BY <1>5, <1>7, <1>8, <1>9 DEF IInv, FramesOK

\* What the invariant says of the innermost call of t and of all others.
LEMMA TopFacts ==
  ASSUME IInv, NEW t \in Tcs, Depth(t) > 0
  PROVE  /\ FrameOK(t, Top(t))
         /\ \A S \in {{"rtinit"}, Holding, Ending} : Top(t).pc \in S =>
              \A u \in Tcs : \A i \in 1..Len(stack[u]) :
                stack[u][i].pc \in S => u = t /\ i = Depth(t)
  <1>1. Depth(t) \in 1..Len(stack[t]) /\ Top(t) = stack[t][Depth(t)]
    BY TopIsFrame DEF IInv, Top
  <1>2. FrameOK(t, Top(t))
    BY <1>1 DEF IInv, FramesOK
  <1> QED  BY <1>1, <1>2 DEF IInv, AllAlone, Alone

\* A step that moves the innermost call: what is left to show of the others and of it.
LEMMA GotoKeeps ==
  ASSUME IInv, NEW t \in Tcs, Depth(t) > 0, ~Top(t).out, NEW pc \in Pcs, Goto(t, pc),
         GlobalOK',
         \A fr \in FrameSet : fr.pc = pc /\ fr.call = Top(t).call /\ ~fr.out => FrameOK(t, fr)',
         \A u \in Tcs : \A i \in 1..Len(stack[u]) :
            (u = t => i < Depth(t)) /\ FrameOK(u, stack[u][i])
              => \A fr \in FrameSet : fr = stack[u][i] => FrameOK(u, fr)',
         \A S \in {{"rtinit"}, Holding, Ending} :
            \/ pc \notin S
            \/ Top(t).pc \in S
            \/ \A u \in Tcs : \A i \in 1..Len(stack[u]) :
                  stack[u][i].pc \in S => u = t /\ i = Depth(t)
  PROVE  IInv'
  <1>1. PICK fr \in FrameSet : /\ Moved(t, Depth(t), fr)
                               /\ fr.pc = pc /\ fr.call = Top(t).call /\ fr.out = Top(t).out
    BY GotoMoves DEF IInv
  <1>2. StackOK'
    BY <1>1, MovedStack DEF IInv
  <1>3. ASSUME NEW u \in Tcs, NEW i \in 1..Len(stack'[u])
        PROVE  FrameOK(u, stack[u][i])'
    <2>1. CASE u = t /\ stack'[u][i] = fr
      <3>1. FrameOK(t, fr)'
        BY <1>1
      <3> QED  BY <2>1, <3>1
    <2>2. CASE i \in 1..Len(stack[u]) /\ stack'[u][i] = stack[u][i] /\ (u = t => i < Depth(t))
      <3>1. FrameOK(u, stack[u][i]) /\ stack[u][i] \in FrameSet
        BY <2>2 DEF IInv, FramesOK, StackOK
      <3>2. PICK g \in FrameSet : g = stack[u][i]
        BY <3>1
      <3>3. FrameOK(u, g)'
        BY <2>2, <3>1, <3>2
      <3>4. stack'[u][i] = g
        BY <2>2, <3>2
      <3> QED  BY <3>3, <3>4
    <2> QED  BY <1>1, <2>1, <2>2, MovedFrames DEF IInv
  <1>4. AllAlone'
    <2>1. Alone({"rtinit"})'
      BY <1>1, MovedAlone DEF IInv, AllAlone
    <2>2. Alone(Holding)'
      BY <1>1, MovedAlone DEF IInv, AllAlone
    <2>3. Alone(Ending)'
      BY <1>1, MovedAlone DEF IInv, AllAlone
    <2> QED  BY <2>1, <2>2, <2>3 DEF AllAlone
  <1> QED  BY <1>2, <1>3, <1>4 DEF IInv, FramesOK

\* The first rtinit finds no other, and no TCS that may uninitialise.
LEMMA LockStateKeeps ==
  ASSUME IInv, NEW t \in Tcs, LockState(t)
  PROVE  IInv'
  <1>1. Depth(t) > 0 /\ ~Top(t).out
        /\ UNCHANGED <<uninit, initTcs, first, exits, cleanup, hist>>
    BY DEF LockState, At
  <1>2. CASE state # "NotStarted"
    <2>1. Goto(t, "fail") /\ StateKept
      BY <1>2 DEF LockState, StateKept
    <2> QED  BY <1>1, <2>1, QuietGoto
  <1>3. CASE state = "NotStarted"
    <2>1. Goto(t, "rtinit") /\ state' = "InProgress" /\ initTcs = {} /\ "rtinit" \in Pcs
      BY <1>3 DEF LockState, IInv, GlobalOK, Pcs
    <2>2. GlobalOK'
      BY <1>1, <2>1 DEF IInv, GlobalOK
    <2>3. \A fr \in FrameSet : fr.pc = "rtinit" /\ ~fr.out => FrameOK(t, fr)'
      BY <1>1, <2>1 DEF FrameOK, Holding, Ending
    <2>4. \A u \in Tcs : \A i \in 1..Len(stack[u]) : FrameOK(u, stack[u][i])
             => \A fr \in FrameSet : fr = stack[u][i] => FrameOK(u, fr)'
      BY <1>1, <2>1 DEF FrameOK
    <2>5. \A u \in Tcs : \A i \in 1..Len(stack[u]) : stack[u][i].pc \notin {"rtinit"}
      BY <1>3 DEF IInv, FramesOK, FrameOK
    <2>6. "rtinit" \notin Holding /\ "rtinit" \notin Ending
      BY DEF Holding, Ending
    <2> QED  BY <1>1, <2>1, <2>2, <2>3, <2>4, <2>5, <2>6, GotoKeeps
  <1> QED  BY <1>2, <1>3

\* The one rtinit makes its TCS the only one that may uninitialise.
LEMMA RtInitDoneKeeps ==
  ASSUME IInv, NEW t \in Tcs, RtInitDone(t)
  PROVE  IInv'
  <1>1. Depth(t) > 0 /\ Top(t).pc = "rtinit" /\ Return(t) /\ state' = "InitDone"
        /\ initTcs' = initTcs \cup {t} /\ UNCHANGED <<uninit, first, exits, cleanup, hist>>
    BY DEF RtInitDone, At
  <1>2. initTcs = {} /\ initTcs' = {t}
    BY <1>1, TopFacts DEF FrameOK
  <1>3. \A u \in Tcs : \A i \in 1..Len(stack[u]) :
           stack[u][i].pc = "rtinit" => u = t /\ i = Depth(t)
    BY <1>1, TopFacts
  <1>4. StackOK' /\ AllAlone'
    BY <1>1, CutStack, CutAlone DEF IInv, AllAlone
  <1>5. GlobalOK'
    BY <1>1, <1>2 DEF IInv, GlobalOK
  <1>6. ASSUME NEW u \in Tcs, NEW i \in 1..Len(stack'[u])
        PROVE  FrameOK(u, stack[u][i])'
    <2>1. i \in 1..Len(stack[u]) /\ stack'[u][i] = stack[u][i] /\ (u = t => i < Depth(t))
      BY <1>1, CutFrames DEF IInv
    <2>2. FrameOK(u, stack[u][i])
      BY <2>1 DEF IInv, FramesOK
    <2>3. Depth(t) \in Nat
      BY <1>1, TopIsFrame DEF IInv
    <2>4. stack[u][i].pc # "rtinit"
      BY <1>3, <2>1, <2>3
    <2>5. stack[u][i].pc \notin Ending
      BY <1>2, <2>2 DEF FrameOK
    <2> QED  BY <1>1, <2>1, <2>2, <2>4, <2>5 DEF FrameOK, Ending
  <1> QED  BY <1>4, <1>5, <1>6 DEF IInv, FramesOK

\* The lock of FIRST_ECALL is free: no other call is in the constructors or the cleanup.
LEMMA OnceKeeps ==
  ASSUME IInv, NEW t \in Tcs, Once(t)
  PROVE  IInv'
  <1>1. Depth(t) > 0 /\ ~Top(t).out /\ first.lock = None
        /\ UNCHANGED <<state, uninit, initTcs, exits, cleanup, hist>>
    BY DEF Once, At
  <1>2. CASE first.done
    <2>1. Goto(t, Entry(t)) /\ UNCHANGED first /\ StateKept /\ Entry(t) \in {"run", "body"}
      BY <1>1, <1>2 DEF Once, StateKept, Entry
    <2> QED  BY <1>1, <1>2, <2>1, QuietGoto
  <1>3. CASE ~first.done
    <2>1. Goto(t, "ctors") /\ first' = [first EXCEPT !.lock = t] /\ "ctors" \in Pcs
      BY <1>3 DEF Once, Pcs
    <2>2. /\ first' \in [done : BOOLEAN, lock : Tcs \cup {None}]
          /\ first'.lock = t /\ first'.done = first.done
      BY <2>1 DEF IInv, GlobalOK
    <2>3. GlobalOK'
      BY <1>1, <2>2 DEF IInv, GlobalOK
    <2>4. \A fr \in FrameSet : fr.pc = "ctors" /\ ~fr.out => FrameOK(t, fr)'
      BY <1>3, <2>2 DEF FrameOK, Holding, Ending
    <2>5. \A u \in Tcs : \A i \in 1..Len(stack[u]) : stack[u][i].pc \notin Holding
      BY <1>1, EnclaveAssumption DEF IInv, FramesOK, FrameOK
    <2>6. \A u \in Tcs : \A i \in 1..Len(stack[u]) : FrameOK(u, stack[u][i])
             => \A fr \in FrameSet : fr = stack[u][i] => FrameOK(u, fr)'
      BY <1>1, <2>2, <2>5 DEF FrameOK
    <2>7. "ctors" \notin {"rtinit"} /\ "ctors" \notin Ending
      BY DEF Ending
    <2> QED  BY <1>1, <2>1, <2>3, <2>4, <2>5, <2>6, <2>7, GotoKeeps
  <1> QED  BY <1>2, <1>3

\* The constructors ran once, and the call that ran them held the lock alone.
LEMMA CtorsDoneKeeps ==
  ASSUME IInv, NEW t \in Tcs, CtorsDone(t)
  PROVE  IInv'
  <1>1. Depth(t) > 0 /\ ~Top(t).out /\ Top(t).pc = "ctors" /\ Goto(t, Entry(t))
        /\ Entry(t) \in {"run", "body"} /\ Entry(t) \in Pcs
        /\ UNCHANGED <<state, uninit, initTcs, exits, cleanup>>
    BY DEF CtorsDone, At, Entry, Pcs
  <1>2. ~first.done /\ \A u \in Tcs : \A i \in 1..Len(stack[u]) :
           stack[u][i].pc \in Holding => u = t /\ i = Depth(t)
    BY <1>1, TopFacts DEF FrameOK, Holding
  <1>3. /\ first' \in [done : BOOLEAN, lock : Tcs \cup {None}] /\ first'.done
        /\ hist' \in HistSet
        /\ hist'.ctors = hist.ctors + 1 /\ hist'.dtors = hist.dtors
    BY DEF CtorsDone, IInv, GlobalOK, HistSet
  <1>4. hist.ctors = 0
    BY <1>2 DEF IInv, GlobalOK
  <1>5. GlobalOK'
    BY <1>1, <1>3, <1>4 DEF IInv, GlobalOK, HistSet
  <1>6. \A fr \in FrameSet : fr.pc = Entry(t) /\ ~fr.out => FrameOK(t, fr)'
    BY <1>1, <1>3 DEF FrameOK, Holding, Ending
  <1>7. Depth(t) \in Nat
    BY <1>1, TopIsFrame DEF IInv
  <1>8. \A u \in Tcs : \A i \in 1..Len(stack[u]) :
           (u = t => i < Depth(t)) => stack[u][i].pc \notin Holding
    BY <1>2, <1>7
  <1>9. \A u \in Tcs : \A i \in 1..Len(stack[u]) :
           (u = t => i < Depth(t)) /\ FrameOK(u, stack[u][i])
             => \A fr \in FrameSet : fr = stack[u][i] => FrameOK(u, fr)'
    BY <1>1, <1>3, <1>8 DEF FrameOK, Holding
  <1>10. \A S \in {{"rtinit"}, Holding, Ending} : Entry(t) \notin S
    BY <1>1 DEF Holding, Ending
  <1> QED  BY <1>1, <1>5, <1>6, <1>9, <1>10, GotoKeeps

\* A step that moves no call.
LEMMA StackKept ==
  ASSUME IInv, UNCHANGED stack, GlobalOK',
         \A u \in Tcs : \A i \in 1..Len(stack[u]) : FrameOK(u, stack[u][i])
           => \A fr \in FrameSet : fr = stack[u][i] => FrameOK(u, fr)'
  PROVE  IInv'
  <1>1. StackOK' /\ AllAlone'
    <2>1. StackOK'
      BY DEF IInv, StackOK
    <2>2. ASSUME NEW S, Alone(S)
          PROVE  Alone(S)'
      BY <2>2 DEF Alone
    <2> QED  BY <2>1, <2>2 DEF IInv, AllAlone
  <1>2. ASSUME NEW u \in Tcs, NEW i \in 1..Len(stack'[u])
        PROVE  FrameOK(u, stack[u][i])'
    <2>1. i \in 1..Len(stack[u]) /\ FrameOK(u, stack[u][i]) /\ stack[u][i] \in FrameSet
      BY DEF IInv, FramesOK, StackOK
    <2>2. PICK g \in FrameSet : g = stack[u][i]
      BY <2>1
    <2>3. FrameOK(u, g)' /\ stack'[u][i] = g
      BY <2>1, <2>2
    <2> QED  BY <2>3
  <1> QED  BY <1>1, <1>2 DEF IInv, FramesOK

\* at_exit changes the queue and not whether it is closed.
LEMMA AtExitKeeps ==
  ASSUME IInv, NEW t \in Tcs, AtExit(t)
  PROVE  IInv'
  <1>1. /\ exits' \in [queue : Seq(ExitFns), done : BOOLEAN] /\ exits'.done = exits.done
        /\ hist' \in HistSet
        /\ hist'.ctors = hist.ctors /\ hist'.dtors = hist.dtors
    <2>1. PICK f \in ExitFns : /\ exits' = [exits EXCEPT !.queue = Append(@, f)]
                               /\ hist' = [hist EXCEPT !.accepted = @ \cup {f}]
      BY Zenon DEF AtExit
    <2>2. exits' \in [queue : Seq(ExitFns), done : BOOLEAN] /\ exits'.done = exits.done
      <3>1. exits \in [queue : Seq(ExitFns), done : BOOLEAN]
        BY DEF IInv, GlobalOK
      <3> DEFINE q == Append(exits.queue, f)
      <3>2. exits.queue \in Seq(ExitFns)
        BY <3>1
      <3>3. q \in Seq(ExitFns)
        BY <3>2
      <3>4. exits' = [exits EXCEPT !.queue = q]
        BY <2>1
      <3> HIDE DEF q
      <3> QED  BY <3>1, <3>3, <3>4
    <2>3. hist \in HistSet /\ hist.accepted \cup {f} \in SUBSET ExitFns
      BY DEF IInv, GlobalOK, HistSet
    <2>4. hist' \in HistSet /\ hist'.ctors = hist.ctors /\ hist'.dtors = hist.dtors
      BY <2>1, <2>3 DEF HistSet
    <2> QED  BY <2>2, <2>4
  <1>2. UNCHANGED <<state, uninit, initTcs, first, cleanup, stack>>
    BY DEF AtExit
  <1>3. GlobalOK'
    BY <1>1, <1>2 DEF IInv, GlobalOK
  <1>4. \A u \in Tcs : \A i \in 1..Len(stack[u]) : FrameOK(u, stack[u][i])
          => \A fr \in FrameSet : fr = stack[u][i] => FrameOK(u, fr)'
    BY <1>1, <1>2 DEF FrameOK
  <1> QED  BY <1>2, <1>3, <1>4, StackKept

\* The innermost call leaves for the host or comes back.
LEMMA MarkKeeps ==
  ASSUME IInv, NEW t \in Tcs, Depth(t) > 0, NEW b \in BOOLEAN,
         stack' = [stack EXCEPT ![t][Depth(t)].out = b], UNCHANGED enclaveVars,
         b => Top(t).pc \in {"body", "ctors", "dtors", "cleanup"}
  PROVE  IInv'
  <1>1. PICK fr \in FrameSet : /\ Moved(t, Depth(t), fr)
                               /\ fr.pc = Top(t).pc /\ fr.call = Top(t).call /\ fr.out = b
    BY Zenon, OutMoves DEF IInv
  <1>2. StackOK'
    BY <1>1, MovedStack DEF IInv
  <1>3. GlobalOK'
    BY DEF IInv, GlobalOK, enclaveVars
  <1>4. ASSUME NEW u \in Tcs, NEW i \in 1..Len(stack'[u])
        PROVE  FrameOK(u, stack[u][i])'
    <2>1. CASE u = t /\ stack'[u][i] = fr
      <3>1. FrameOK(t, Top(t))
        BY TopFacts
      <3> QED  BY Zenon, <1>1, <2>1, <3>1 DEF FrameOK, enclaveVars
    <2>2. CASE i \in 1..Len(stack[u]) /\ stack'[u][i] = stack[u][i]
      <3>1. FrameOK(u, stack[u][i])
        BY <2>2 DEF IInv, FramesOK
      <3> QED  BY Zenon, <2>2, <3>1 DEF FrameOK, enclaveVars
    <2> QED  BY <1>1, <2>1, <2>2, MovedFrames DEF IInv
  <1>5. AllAlone'
    <2>1. Alone({"rtinit"})'
      BY <1>1, MovedAlone DEF IInv, AllAlone
    <2>2. Alone(Holding)'
      BY <1>1, MovedAlone DEF IInv, AllAlone
    <2>3. Alone(Ending)'
      BY <1>1, MovedAlone DEF IInv, AllAlone
    <2> QED  BY <2>1, <2>2, <2>3 DEF AllAlone
  <1> QED  BY <1>2, <1>3, <1>4, <1>5 DEF IInv, FramesOK

\* The call that passes the check of rtuninit is alone: another would be on the same TCS,
\* in an ocall, and so have set the flag.
LEMMA UninitKeeps ==
  ASSUME IInv, NEW t \in Tcs, Uninit(t)
  PROVE  IInv'
  <1>1. Depth(t) > 0 /\ ~Top(t).out /\ Top(t).pc = "uninit"
        /\ UNCHANGED <<uninit, initTcs, first, exits, cleanup, hist>>
    BY DEF Uninit, At
  <1>2. CASE uninit \/ t \notin initTcs
    <2>1. Return(t) /\ StateKept
      BY <1>2 DEF Uninit, StateKept
    <2> QED  BY <1>1, <2>1, QuietReturn
  <1>3. CASE ~uninit /\ t \in initTcs
    <2>1. Goto(t, "store") /\ UNCHANGED state /\ "store" \in Pcs
      BY <1>3 DEF Uninit, Pcs
    <2>2. initTcs = {t} /\ hist.dtors = 0 /\ ~exits.done
      BY <1>3 DEF IInv, GlobalOK
    <2>3. GlobalOK'
      BY <1>1, <2>1 DEF IInv, GlobalOK
    <2>4. \A fr \in FrameSet : fr.pc = "store" /\ ~fr.out => FrameOK(t, fr)'
      BY <1>1, <1>3, <2>2 DEF FrameOK, Holding, Ending
    <2>5. \A u \in Tcs : \A i \in 1..Len(stack[u]) : FrameOK(u, stack[u][i])
             => \A fr \in FrameSet : fr = stack[u][i] => FrameOK(u, fr)'
      BY <1>1, <2>1 DEF FrameOK
    <2>6. ASSUME NEW u \in Tcs, NEW i \in 1..Len(stack[u]), stack[u][i].pc \in Ending
          PROVE  u = t /\ i = Depth(t)
      <3>1. FrameOK(u, stack[u][i])
        BY DEF IInv, FramesOK
      <3>2. u = t /\ stack[u][i].pc = "store" /\ ~stack[u][i].out
        BY <1>3, <2>2, <2>6, <3>1 DEF FrameOK, Ending
      <3> QED  BY <3>2 DEF IInv, StackOK, Depth
    <2>7. "store" \notin {"rtinit"} /\ "store" \notin Holding
      BY DEF Holding
    <2> QED  BY <1>1, <2>1, <2>3, <2>4, <2>5, <2>6, <2>7, GotoKeeps
  <1> QED  BY <1>2, <1>3

\* No other call has passed the check of rtuninit while the innermost one of t has.
LEMMA EndsAlone ==
  ASSUME IInv, NEW t \in Tcs, Depth(t) > 0, Top(t).pc \in Ending
  PROVE  \A u \in Tcs : \A i \in 1..Len(stack[u]) :
            (u = t => i < Depth(t)) => stack[u][i].pc \notin Ending
  BY TopFacts, TopIsFrame DEF IInv

\* The flag is set by the only call that passed the check.
LEMMA StoreFlagKeeps ==
  ASSUME IInv, NEW t \in Tcs, StoreFlag(t)
  PROVE  IInv'
  <1>1. Depth(t) > 0 /\ ~Top(t).out /\ Top(t).pc = "store" /\ Goto(t, "ulock") /\ uninit'
        /\ UNCHANGED <<state, initTcs, first, exits, cleanup, hist>> /\ "ulock" \in Pcs
    BY DEF StoreFlag, At, Pcs
  <1>2. initTcs = {t} /\ hist.dtors = 0 /\ ~exits.done
    BY <1>1, TopFacts DEF FrameOK, Ending
  <1>3. GlobalOK'
    BY <1>1 DEF IInv, GlobalOK
  <1>4. \A fr \in FrameSet : fr.pc = "ulock" /\ ~fr.out => FrameOK(t, fr)'
    BY <1>1, <1>2 DEF FrameOK, Holding, Ending
  <1>5. \A u \in Tcs : \A i \in 1..Len(stack[u]) :
           (u = t => i < Depth(t)) => stack[u][i].pc \notin Ending
    BY <1>1, EndsAlone DEF Ending
  <1>6. \A u \in Tcs : \A i \in 1..Len(stack[u]) :
           (u = t => i < Depth(t)) /\ FrameOK(u, stack[u][i])
             => \A fr \in FrameSet : fr = stack[u][i] => FrameOK(u, fr)'
    BY <1>1, <1>5 DEF FrameOK, Ending
  <1>7. "ulock" \notin {"rtinit"} /\ "ulock" \notin Holding /\ Top(t).pc \in Ending
    BY <1>1 DEF Holding, Ending
  <1> QED  BY <1>1, <1>3, <1>4, <1>6, <1>7, GotoKeeps

\* rtuninit takes the lock, if there is something to destroy.
LEMMA UninitLockKeeps ==
  ASSUME IInv, NEW t \in Tcs, UninitLock(t)
  PROVE  IInv'
  <1>1. Depth(t) > 0 /\ ~Top(t).out /\ Top(t).pc = "ulock" /\ first.lock = None
        /\ UNCHANGED <<state, uninit, initTcs, exits, hist>>
    BY DEF UninitLock, At
  <1>2. CASE ~first.done
    <2>1. Goto(t, "fail") /\ UNCHANGED <<first, cleanup>> /\ StateKept
      BY <1>1, <1>2 DEF UninitLock, StateKept
    <2> QED  BY <1>1, <2>1, QuietGoto
  <1>3. CASE first.done
    <2>1. Goto(t, "cleanup") /\ "cleanup" \in Pcs
          /\ first' = [first EXCEPT !.lock = t] /\ cleanup' = [round |-> 1, todo |-> <<>>]
      BY <1>3 DEF UninitLock, Pcs
    <2>2. /\ first' \in [done : BOOLEAN, lock : Tcs \cup {None}]
          /\ first'.lock = t /\ first'.done = first.done
          /\ cleanup' \in [round : Nat, todo : Seq(ExitFns)] /\ cleanup'.round = 1
      BY <2>1 DEF IInv, GlobalOK
    <2>3. uninit /\ initTcs = {t} /\ hist.dtors = 0 /\ ~exits.done
      BY <1>1, TopFacts DEF FrameOK, Ending
    <2>4. GlobalOK'
      BY <1>1, <2>2 DEF IInv, GlobalOK
    <2>5. \A fr \in FrameSet : fr.pc = "cleanup" /\ ~fr.out => FrameOK(t, fr)'
      BY <1>1, <1>3, <2>2, <2>3 DEF FrameOK, Holding, Ending
    <2>6. \A u \in Tcs : \A i \in 1..Len(stack[u]) : stack[u][i].pc \notin Holding
      BY <1>1, EnclaveAssumption DEF IInv, FramesOK, FrameOK
    <2>7. \A u \in Tcs : \A i \in 1..Len(stack[u]) : FrameOK(u, stack[u][i])
             => \A fr \in FrameSet : fr = stack[u][i] => FrameOK(u, fr)'
      BY <1>1, <2>2, <2>6 DEF FrameOK, Holding
    <2>8. "cleanup" \notin {"rtinit"} /\ Top(t).pc \in Ending
      BY <1>1 DEF Ending
    <2> QED  BY <1>1, <2>1, <2>4, <2>5, <2>6, <2>7, <2>8, GotoKeeps
  <1> QED  BY <1>2, <1>3

\* A round of the cleanup; only a later one than the first can find the queue closed.
LEMMA CleanupKeeps ==
  ASSUME IInv, NEW t \in Tcs, Cleanup(t)
  PROVE  IInv'
  <1>1. Depth(t) > 0 /\ Top(t).pc = "cleanup"
        /\ UNCHANGED <<state, uninit, initTcs, first, stack, hist>>
    BY DEF Cleanup, At
  <1>2. /\ exits' \in [queue : Seq(ExitFns), done : BOOLEAN]
        /\ cleanup' \in [round : Nat, todo : Seq(ExitFns)]
        /\ cleanup'.round = cleanup.round + 1 /\ cleanup.round \in Nat
    BY DEF Cleanup, IInv, GlobalOK
  <1>3. uninit /\ cleanup.round >= 1
    BY <1>1, TopFacts DEF FrameOK
  <1>4. GlobalOK'
    BY <1>1, <1>2, <1>3 DEF IInv, GlobalOK, HistSet
  <1>5. \A u \in Tcs : \A i \in 1..Len(stack[u]) : stack[u][i].pc \notin {"store", "ulock"}
    <2>1. SUFFICES ASSUME NEW u \in Tcs, NEW i \in 1..Len(stack[u]),
                          stack[u][i].pc \in {"store", "ulock"}
                   PROVE  FALSE
      OBVIOUS
    <2>2. u = t /\ i = Depth(t)
      BY <1>1, <2>1, TopFacts DEF Ending
    <2> QED  BY <1>1, <2>1, <2>2 DEF Top
  <1>6. \A u \in Tcs : \A i \in 1..Len(stack[u]) : FrameOK(u, stack[u][i])
          => \A fr \in FrameSet : fr = stack[u][i] => FrameOK(u, fr)'
    BY <1>1, <1>2, <1>3, <1>5 DEF FrameOK
  <1> QED  BY <1>1, <1>4, <1>6, StackKept

\* An exit function runs.
LEMMA RunExitKeeps ==
  ASSUME IInv, NEW t \in Tcs, RunExit(t)
  PROVE  IInv'
  <1>1. UNCHANGED <<state, uninit, initTcs, first, exits, stack>>
    BY DEF RunExit
  <1>2. cleanup.todo \in Seq(ExitFns) /\ cleanup.todo # <<>> /\ cleanup.round \in Nat
        /\ cleanup \in [round : Nat, todo : Seq(ExitFns)]
        /\ hist \in HistSet
    BY DEF RunExit, IInv, GlobalOK
  <1> DEFINE n == Len(cleanup.todo)
             f == cleanup.todo[n]
             rest == SubSeq(cleanup.todo, 1, n - 1)
  <1>3. n \in Nat /\ n > 0 /\ f \in ExitFns
    BY <1>2
  <1>4. rest \in Seq(ExitFns)
    BY <1>2, <1>3, SubSeqProperties
  <1>5. hist' = [hist EXCEPT !.ran[f] = @ + 1] /\ cleanup' = [cleanup EXCEPT !.todo = rest]
    BY DEF RunExit
  <1> HIDE DEF n, f, rest
  <1>6. cleanup' \in [round : Nat, todo : Seq(ExitFns)] /\ cleanup'.round = cleanup.round
    BY <1>2, <1>4, <1>5
  <1>7. hist' \in HistSet
        /\ hist'.ctors = hist.ctors /\ hist'.dtors = hist.dtors
    <2> DEFINE ran == [hist.ran EXCEPT ![f] = hist.ran[f] + 1]
    <2>1. hist.ran \in [ExitFns -> Nat]
      BY <1>2 DEF HistSet
    <2>2. ran \in [ExitFns -> Nat]
      BY <1>3, <2>1
    <2>3. hist' = [hist EXCEPT !.ran = ran]
      BY <1>5
    <2> HIDE DEF ran
    <2> QED  BY Zenon, <1>2, <2>2, <2>3 DEF HistSet
  <1>8. GlobalOK'
    BY <1>1, <1>6, <1>7 DEF IInv, GlobalOK
  <1>9. \A u \in Tcs : \A i \in 1..Len(stack[u]) : FrameOK(u, stack[u][i])
          => \A fr \in FrameSet : fr = stack[u][i] => FrameOK(u, fr)'
    BY <1>1, <1>6, <1>7 DEF FrameOK
  <1> QED  BY <1>1, <1>8, <1>9, StackKept

\* After the last round the destructors are next.
LEMMA CleanupDoneKeeps ==
  ASSUME IInv, NEW t \in Tcs, CleanupDone(t)
  PROVE  IInv'
  <1>1. Depth(t) > 0 /\ ~Top(t).out /\ Top(t).pc = "cleanup" /\ Goto(t, "dtors")
        /\ UNCHANGED <<state, uninit, initTcs, first, exits, cleanup, hist>> /\ "dtors" \in Pcs
    BY DEF CleanupDone, At, Pcs, enclaveVars
  <1>2. first.lock = t /\ first.done /\ uninit /\ initTcs = {t} /\ hist.dtors = 0
    BY <1>1, TopFacts DEF FrameOK, Holding, Ending
  <1>3. GlobalOK'
    BY <1>1 DEF IInv, GlobalOK
  <1>4. \A fr \in FrameSet : fr.pc = "dtors" /\ ~fr.out => FrameOK(t, fr)'
    BY <1>1, <1>2 DEF FrameOK
  <1>5. \A u \in Tcs : \A i \in 1..Len(stack[u]) : FrameOK(u, stack[u][i])
          => \A fr \in FrameSet : fr = stack[u][i] => FrameOK(u, fr)'
    BY <1>1 DEF FrameOK
  <1>6. "dtors" \notin {"rtinit"} /\ Top(t).pc \in Holding /\ Top(t).pc \in Ending
    BY <1>1 DEF Holding, Ending
  <1> QED  BY <1>1, <1>3, <1>4, <1>5, <1>6, GotoKeeps

\* The destructors run once, and no call is left that could run them again.
LEMMA DtorsKeeps ==
  ASSUME IInv, NEW t \in Tcs, Dtors(t)
  PROVE  IInv'
  <1>1. Depth(t) > 0 /\ ~Top(t).out /\ Top(t).pc = "dtors" /\ Goto(t, "fail") /\ "fail" \in Pcs
        /\ UNCHANGED <<state, uninit, initTcs, exits, cleanup>>
    BY DEF Dtors, At, Pcs
  <1>2. /\ first' \in [done : BOOLEAN, lock : Tcs \cup {None}] /\ first'.done = first.done
        /\ hist' \in HistSet
        /\ hist'.ctors = hist.ctors /\ hist'.dtors = hist.dtors + 1
    <2>1. first' \in [done : BOOLEAN, lock : Tcs \cup {None}] /\ first'.done = first.done
      BY DEF Dtors, IInv, GlobalOK
    <2>2. hist \in HistSet /\ hist' = [hist EXCEPT !.dtors = @ + 1]
      BY DEF Dtors, IInv, GlobalOK
    <2>3. hist' \in HistSet /\ hist'.ctors = hist.ctors /\ hist'.dtors = hist.dtors + 1
      BY <2>2 DEF HistSet
    <2> QED  BY <2>1, <2>3
  <1>3. uninit /\ hist.dtors = 0
    BY <1>1, TopFacts DEF FrameOK, Ending
  <1>4. GlobalOK'
    BY <1>1, <1>2, <1>3 DEF IInv, GlobalOK, HistSet
  <1>5. \A fr \in FrameSet : fr.pc = "fail" /\ ~fr.out => FrameOK(t, fr)'
    BY DEF FrameOK, Holding, Ending
  <1>6. \A u \in Tcs : \A i \in 1..Len(stack[u]) :
           (u = t => i < Depth(t)) => stack[u][i].pc \notin Ending
    BY <1>1, EndsAlone DEF Ending
  <1>7. \A u \in Tcs : \A i \in 1..Len(stack[u]) :
           (u = t => i < Depth(t)) => stack[u][i].pc \notin Holding
    BY <1>1, TopFacts, TopIsFrame DEF IInv, Holding
  <1>8. \A u \in Tcs : \A i \in 1..Len(stack[u]) :
           (u = t => i < Depth(t)) /\ FrameOK(u, stack[u][i])
             => \A fr \in FrameSet : fr = stack[u][i] => FrameOK(u, fr)'
    BY <1>1, <1>2, <1>6, <1>7 DEF FrameOK, Ending, Holding
  <1>9. \A S \in {{"rtinit"}, Holding, Ending} : "fail" \notin S
    BY DEF Holding, Ending
  <1> QED  BY <1>1, <1>4, <1>5, <1>8, <1>9, GotoKeeps
-----------------------------------------------------------------------------
(* The theorems *)

\* Before the first call nothing has happened.
LEMMA InitInv ==
  ASSUME EnclaveInit
  PROVE  IInv
  <1>1. \A t \in Tcs : stack[t] = <<>> /\ Len(stack[t]) = 0
    BY DEF EnclaveInit
  <1>2. StackOK
    BY <1>1, EnclaveAssumption DEF EnclaveInit, StackOK
  <1>3. GlobalOK
    BY DEF EnclaveInit, GlobalOK, HistSet
  <1>4. FramesOK /\ AllAlone
    BY <1>1 DEF FramesOK, AllAlone, Alone
  <1> QED  BY <1>2, <1>3, <1>4 DEF IInv

\* One case for each action.
LEMMA StepInv ==
  ASSUME IInv, [EnclaveNext]_<<enclaveVars, stack>>
  PROVE  IInv'
  <1>1. CASE UNCHANGED <<enclaveVars, stack>>
    <2>1. GlobalOK'
      BY <1>1 DEF IInv, GlobalOK, enclaveVars
    <2>2. \A u \in Tcs : \A i \in 1..Len(stack[u]) : FrameOK(u, stack[u][i])
            => \A fr \in FrameSet : fr = stack[u][i] => FrameOK(u, fr)'
      BY <1>1 DEF FrameOK, enclaveVars
    <2> QED  BY <1>1, <2>1, <2>2, StackKept
  <1>2. ASSUME NEW t \in Tcs, EnclaveStep(t)
        PROVE  IInv'
    <2>1. ASSUME NEW call \in HostCalls, Enter(t, call)  PROVE IInv'
      BY <2>1, EnterKeeps
    <2>2. CASE Fail(t)
      <3>1. Depth(t) > 0 /\ Return(t) /\ StateKept
            /\ UNCHANGED <<uninit, initTcs, first, exits, cleanup, hist>>
        BY <2>2 DEF Fail, At, StateKept
      <3> QED  BY <3>1, QuietReturn
    <2>3. CASE LockState(t)
      BY <2>3, LockStateKeeps
    <2>4. CASE RtInitDone(t)
      BY <2>4, RtInitDoneKeeps
    <2>5. CASE RtInitFail(t)
      <3>1. Depth(t) > 0 /\ ~Top(t).out /\ StateKept
            /\ UNCHANGED <<uninit, initTcs, first, exits, cleanup, hist>>
        BY <2>5 DEF RtInitFail, At, StateKept, enclaveVars
      <3>2. Goto(t, "fail") \/ Return(t)
        BY <2>5 DEF RtInitFail
      <3> QED  BY <3>1, <3>2, QuietGoto, QuietReturn
    <2>6. CASE ECall(t)
      <3>1. Depth(t) > 0 /\ ~Top(t).out /\ StateKept
            /\ UNCHANGED <<uninit, initTcs, first, exits, cleanup, hist>>
        BY <2>6 DEF ECall, At, StateKept, enclaveVars
      <3>2. \/ Goto(t, "fail") \/ Return(t) \/ Goto(t, "once")
            \/ first.done /\ Goto(t, "run")
            \/ first.done /\ Goto(t, "body")
        BY <2>6 DEF ECall, Entry
      <3> QED  BY <3>1, <3>2, QuietGoto, QuietReturn
    <2>7. CASE Once(t)
      BY <2>7, OnceKeeps
    <2>8. CASE CtorsDone(t)
      BY <2>8, CtorsDoneKeeps
    <2>9. CASE GlobalInit(t)
      <3>1. Depth(t) > 0 /\ ~Top(t).out /\ Top(t).call = "GlobalInit" /\ StateKept
            /\ UNCHANGED <<uninit, initTcs, first, exits, cleanup, hist>>
        BY <2>9 DEF GlobalInit, At, In, StateKept, enclaveVars
      <3>2. Goto(t, "body") \/ Goto(t, "fail")
        BY <2>9 DEF GlobalInit
      <3> QED  BY <3>1, <3>2, QuietGoto
    <2>10. CASE BodyEnd(t)
      <3>1. Depth(t) > 0 /\ ~Top(t).out /\ StateKept
            /\ UNCHANGED <<uninit, initTcs, first, exits, cleanup, hist>>
        BY <2>10 DEF BodyEnd, At, StateKept, enclaveVars
      <3>2. Return(t) \/ Goto(t, "fail") \/ Goto(t, "uninit")
        BY <2>10 DEF BodyEnd
      <3> QED  BY <3>1, <3>2, QuietGoto, QuietReturn
    <2>11. CASE AtExit(t)
      BY <2>11, AtExitKeeps
    <2>12. CASE OCall(t)
      <3>1. Depth(t) > 0 /\ UNCHANGED enclaveVars
            /\ stack' = [stack EXCEPT ![t][Depth(t)].out = TRUE]
            /\ Top(t).pc \in {"body", "ctors", "dtors", "cleanup"}
        BY <2>12 DEF OCall, UserCode, At
      <3> QED  BY Zenon, <3>1, MarkKeeps
    <2>13. CASE ORet(t)
      <3>1. Depth(t) > 0 /\ UNCHANGED enclaveVars /\ StateKept
            /\ UNCHANGED <<uninit, initTcs, first, exits, cleanup, hist>>
        BY <2>13 DEF ORet, StateKept, enclaveVars
      <3>2. Return(t) \/ stack' = [stack EXCEPT ![t][Depth(t)].out = FALSE]
        BY <2>13 DEF ORet
      <3> QED  BY Zenon, <3>1, <3>2, MarkKeeps, QuietReturn
    <2>14. CASE UninitCall(t)
      <3>1. Depth(t) > 0 /\ ~Top(t).out /\ Top(t).call \in {"GlobalExit", "RtUninit"} /\ StateKept
            /\ UNCHANGED <<uninit, initTcs, first, exits, cleanup, hist>>
        BY <2>14 DEF UninitCall, At, In, StateKept, enclaveVars
      <3>2. Goto(t, "body") \/ Goto(t, "uninit")
        BY <2>14 DEF UninitCall
      <3> QED  BY <3>1, <3>2, QuietGoto
    <2>15. CASE Uninit(t)
      BY <2>15, UninitKeeps
    <2>16. CASE StoreFlag(t)
      BY <2>16, StoreFlagKeeps
    <2>17. CASE UninitLock(t)
      BY <2>17, UninitLockKeeps
    <2>18. CASE Cleanup(t)
      BY <2>18, CleanupKeeps
    <2>19. CASE RunExit(t)
      BY <2>19, RunExitKeeps
    <2>20. CASE CleanupDone(t)
      BY <2>20, CleanupDoneKeeps
    <2>21. CASE Dtors(t)
      BY <2>21, DtorsKeeps
    <2> QED
      BY <1>2, <2>1, <2>2, <2>3, <2>4, <2>5, <2>6, <2>7, <2>8, <2>9, <2>10, <2>11, <2>12,
         <2>13, <2>14, <2>15, <2>16, <2>17, <2>18, <2>19, <2>20, <2>21 DEF EnclaveStep
  <1> QED  BY <1>1, <1>2 DEF EnclaveNext

\* The invariant holds in every reachable state of the lifecycle.
THEOREM InvariantHolds == EnclaveSpec => []IInv
  <1>1. EnclaveInit => IInv
    BY InitInv
  <1>2. IInv /\ [EnclaveNext]_<<enclaveVars, stack>> => IInv'
    BY StepInv
  <1> QED  BY <1>1, <1>2, PTL DEF EnclaveSpec

\* On any number of TCSs, nesting calls to any depth: the global constructors run at
\* most once, and no ECALL of the program, exit function or destructor runs before them
\* (FIRST_ECALL in ecall and rtuninit).
THEOREM ConstructorsFirst == EnclaveSpec => []ConstructedFirst
  <1>1. IInv => ConstructedFirst
    <2> SUFFICES ASSUME IInv  PROVE ConstructedFirst
      OBVIOUS
    <2>1. hist.ctors <= 1
      BY DEF IInv, GlobalOK
    <2>2. ASSUME NEW fr \in Frames,
                 \/ fr.pc \in {"run", "cleanup", "dtors"}
                 \/ fr.pc = "body" /\ fr.call \in {"ECall", "Thread"}
          PROVE  hist.ctors = 1
      <3>1. PICK t \in Tcs : \E i \in 1..Len(stack[t]) : fr = stack[t][i]
        BY DEF Frames, Depth
      <3>2. FrameOK(t, fr)
        BY <3>1 DEF IInv, FramesOK
      <3>3. first.done
        BY <2>2, <3>2 DEF FrameOK
      <3> QED  BY <3>3 DEF IInv, GlobalOK
    <2> QED  BY <2>1, <2>2 DEF ConstructedFirst
  <1> QED  BY <1>1, InvariantHolds, PTL

\* The destructors run at most once, and atexit::cleanup never finds the queue closed,
\* although UNINIT_FLAG is loaded and stored in two steps: only the TCS of the runtime
\* initialisation gets that far, and a call nested in it finds the flag set.
THEOREM DestructionOnce == EnclaveSpec => []DestroyedOnce
  <1>1. IInv => DestroyedOnce
    <2> SUFFICES ASSUME IInv  PROVE DestroyedOnce
      OBVIOUS
    <2>1. hist.dtors <= 1
      BY DEF IInv, GlobalOK
    <2>2. ASSUME NEW t \in Tcs, At(t, "cleanup"), cleanup.round = 1
          PROVE  ~exits.done
      BY <2>2, TopFacts DEF At, FrameOK
    <2> QED  BY <2>1, <2>2 DEF DestroyedOnce
  <1> QED  BY <1>1, InvariantHolds, PTL

-----------------------------------------------------------------------------
(* The holder of the lock *)

\* The lock is held by a call in progress, unless the enclave has crashed.  A runtime
\* initialisation that is still running, the only call that undoes a crash, excludes
\* that the lock was ever taken: it is taken only after some TCS was initialised.
HeldInv ==
    /\ state = "InitDone" => initTcs # {}
    /\ \A u \in Tcs : \A i \in 1..Len(stack[u]) : stack[u][i].pc = "once" => initTcs # {}
    /\ first.lock # None => initTcs # {}
    /\ first.lock # None /\ state # "Crashed" => HoldsLock(first.lock)

\* A call that moves does not end another one's hold of the lock.
LEMMA HoldsMoved ==
  ASSUME StackOK, NEW t \in Tcs, NEW n \in {Depth(t), Depth(t) + 1}, NEW fr, Moved(t, n, fr),
         n = Depth(t) /\ Depth(t) > 0 /\ Top(t).pc \in Holding => fr.pc \in Holding,
         NEW u \in Tcs, HoldsLock(u)
  PROVE  HoldsLock(u)'
  <1>1. PICK i \in 1..Len(stack[u]) : stack[u][i].pc \in Holding
    BY DEF HoldsLock, Depth
  <1>2. Len(stack[u]) \in Nat /\ Len(stack[t]) \in Nat
    BY DEF StackOK
  <1>3. CASE u # t
    BY <1>1, <1>3 DEF Moved, HoldsLock, Depth
  <1>4. CASE u = t /\ i < n
    <2>1. i \in 1..Len(stack'[u]) /\ stack'[u][i] = stack[u][i]
      BY <1>1, <1>2, <1>4 DEF Moved
    <2> QED  BY <1>1, <2>1 DEF HoldsLock, Depth
  <1>5. CASE u = t /\ ~(i < n)
    <2>1. i = n /\ n = Depth(t) /\ Depth(t) > 0 /\ stack[u][i] = Top(t)
      BY <1>1, <1>2, <1>5 DEF Depth, Top
    <2>2. n \in 1..Len(stack'[u]) /\ stack'[u][n] = fr
      BY <1>2, <1>5, <2>1 DEF Moved, Depth
    <2> QED  BY <1>1, <2>1, <2>2 DEF HoldsLock, Depth
  <1> QED  BY <1>3, <1>4, <1>5

\* Nor does a call that returns from another place.
LEMMA HoldsCut ==
  ASSUME StackOK, NEW t \in Tcs, Depth(t) > 0, Return(t), Top(t).pc \notin Holding,
         NEW u \in Tcs, HoldsLock(u)
  PROVE  HoldsLock(u)'
  <1>1. PICK i \in 1..Len(stack[u]) : stack[u][i].pc \in Holding
    BY DEF HoldsLock, Depth
  <1>2. Len(stack[u]) \in Nat /\ Len(stack[t]) \in Nat
    BY DEF StackOK
  <1>3. CASE u # t
    BY <1>1, <1>3, ReturnCuts DEF HoldsLock, Depth
  <1>4. CASE u = t
    <2>1. i # Len(stack[t])
      BY <1>1, <1>4 DEF Top, Depth
    <2>2. i \in 1..Len(stack'[u]) /\ stack'[u][i] = stack[u][i]
      BY <1>1, <1>2, <1>4, <2>1, ReturnCuts
    <2> QED  BY <1>1, <2>2 DEF HoldsLock, Depth
  <1> QED  BY <1>3, <1>4

\* A step that neither takes nor releases the lock, nor brings back a crashed enclave.
LockKept ==
    /\ UNCHANGED <<initTcs, first>>
    /\ state' = "InitDone" => state = "InitDone"
    /\ state = "Crashed" => state' = "Crashed"

\* Such a step that moves the innermost call or nests one.
LEMMA HeldMoved ==
  ASSUME IInv, HeldInv, NEW t \in Tcs, NEW n \in {Depth(t), Depth(t) + 1}, NEW fr,
         Moved(t, n, fr), LockKept,
         n = Depth(t) /\ Depth(t) > 0 /\ Top(t).pc \in Holding => fr.pc \in Holding,
         fr.pc = "once" => initTcs # {}
  PROVE  HeldInv'
  <1>1. ASSUME NEW u \in Tcs, NEW i \in 1..Len(stack'[u]), stack'[u][i].pc = "once"
        PROVE  initTcs' # {}
    BY <1>1, MovedFrames DEF IInv, HeldInv, LockKept
  <1>2. ASSUME first'.lock # None, state' # "Crashed"
        PROVE  HoldsLock(first.lock)'
    <2>1. first.lock \in Tcs /\ HoldsLock(first.lock) /\ first' = first
      BY <1>2 DEF IInv, GlobalOK, HeldInv, LockKept
    <2>2. PICK u \in Tcs : u = first.lock
      BY <2>1
    <2>3. HoldsLock(u)'
      BY <2>1, <2>2, HoldsMoved DEF IInv
    <2> QED  BY <2>1, <2>2, <2>3
  <1> QED  BY <1>1, <1>2 DEF HeldInv, LockKept

\* The same for a step that moves the innermost call with Goto.
LEMMA HeldGoto ==
  ASSUME IInv, HeldInv, NEW t \in Tcs, Depth(t) > 0, NEW pc \in Pcs, Goto(t, pc), LockKept,
         Top(t).pc \in Holding => pc \in Holding,
         pc = "once" => initTcs # {}
  PROVE  HeldInv'
  <1>1. PICK fr \in FrameSet : Moved(t, Depth(t), fr) /\ fr.pc = pc
    BY GotoMoves DEF IInv
  <1> QED  BY <1>1, HeldMoved

\* The same for an ocall and its return.
LEMMA HeldMark ==
  ASSUME IInv, HeldInv, NEW t \in Tcs, Depth(t) > 0, LockKept, NEW b \in BOOLEAN,
         stack' = [stack EXCEPT ![t][Depth(t)].out = b]
  PROVE  HeldInv'
  <1>1. PICK fr \in FrameSet : Moved(t, Depth(t), fr) /\ fr.pc = Top(t).pc
    BY Zenon, OutMoves DEF IInv
  <1>2. Top(t).pc = "once" => initTcs # {}
    BY TopIsFrame DEF IInv, HeldInv, Top
  <1> QED  BY <1>1, <1>2, HeldMoved

\* A call returns that does not hold the lock, or in a crashed enclave.
LEMMA HeldReturn ==
  ASSUME IInv, HeldInv, NEW t \in Tcs, Depth(t) > 0, Return(t), LockKept,
         Top(t).pc \notin Holding \/ state' = "Crashed"
  PROVE  HeldInv'
  <1>1. ASSUME NEW u \in Tcs, NEW i \in 1..Len(stack'[u]), stack'[u][i].pc = "once"
        PROVE  initTcs' # {}
    BY <1>1, CutFrames DEF IInv, HeldInv, LockKept
  <1>2. ASSUME first'.lock # None, state' # "Crashed"
        PROVE  HoldsLock(first.lock)'
    <2>1. first.lock \in Tcs /\ HoldsLock(first.lock) /\ first' = first
      BY <1>2 DEF IInv, GlobalOK, HeldInv, LockKept
    <2>2. PICK u \in Tcs : u = first.lock
      BY <2>1
    <2>3. HoldsLock(u)'
      BY <1>2, <2>1, <2>2, HoldsCut DEF IInv
    <2> QED  BY <2>1, <2>2, <2>3
  <1> QED  BY <1>1, <1>2 DEF HeldInv, LockKept

\* The lock is taken by a call that goes to a place that holds it, or released.
LEMMA HeldChange ==
  ASSUME IInv, HeldInv, NEW t \in Tcs, Depth(t) > 0, NEW pc \in Pcs \ {"once"}, Goto(t, pc),
         \/ first'.lock = None
         \/ first'.lock = t /\ pc \in Holding /\ initTcs # {},
         UNCHANGED <<state, initTcs>>
  PROVE  HeldInv'
  <1>1. PICK fr \in FrameSet : Moved(t, Depth(t), fr) /\ fr.pc = pc
    BY GotoMoves DEF IInv
  <1>2. ASSUME NEW u \in Tcs, NEW i \in 1..Len(stack'[u]), stack'[u][i].pc = "once"
        PROVE  initTcs' # {}
    BY <1>1, <1>2, MovedFrames DEF IInv, HeldInv
  <1>3. ASSUME pc \in Holding  PROVE HoldsLock(t)'
    <2>1. Depth(t) \in 1..Len(stack'[t]) /\ stack'[t][Depth(t)] = fr
      BY <1>1, TopIsFrame DEF IInv, Moved
    <2> QED  BY <1>1, <1>3, <2>1 DEF HoldsLock, Depth
  <1>4. first'.lock # None => first'.lock = t /\ HoldsLock(t)' /\ initTcs' # {}
    BY <1>3
  <1> QED  BY <1>2, <1>4 DEF HeldInv

\* One case for each action.
LEMMA HeldStep ==
  ASSUME IInv, HeldInv, [EnclaveNext]_<<enclaveVars, stack>>
  PROVE  HeldInv'
  <1>1. CASE UNCHANGED <<state, initTcs, first, stack>>
    BY <1>1 DEF HeldInv, HoldsLock, Depth
  <1>2. ASSUME NEW t \in Tcs, EnclaveStep(t)
        PROVE  HeldInv'
    <2>1. ASSUME NEW call \in HostCalls, Enter(t, call)  PROVE HeldInv'
      <3> DEFINE pc == IF call # "RtInit" /\ state # "InitDone" THEN "fail" ELSE "dispatch"
      <3>1. Frame(call, pc) \in FrameSet /\ Frame(call, pc).pc \in {"fail", "dispatch"}
        BY EnclaveAssumption DEF Frame, FrameSet, Pcs, Calls
      <3>2. stack' = [stack EXCEPT ![t] = Append(@, Frame(call, pc))] /\ LockKept
        BY <2>1 DEF Enter, LockKept, enclaveVars
      <3> HIDE DEF pc
      <3>3. Moved(t, Depth(t) + 1, Frame(call, pc))
        BY <3>1, <3>2, AppendMoves DEF IInv
      <3>4. Depth(t) \in Nat
        BY DEF IInv, StackOK, Depth
      <3> QED  BY <3>1, <3>2, <3>3, <3>4, HeldMoved
    <2>2. CASE Fail(t)
      <3>1. Depth(t) > 0 /\ Return(t) /\ LockKept /\ state' = "Crashed"
        BY <2>2 DEF Fail, At, LockKept
      <3> QED  BY <3>1, HeldReturn
    <2>3. CASE LockState(t)
      <3>1. Depth(t) > 0 /\ Top(t).pc \notin Holding /\ LockKept
            /\ (Goto(t, "rtinit") \/ Goto(t, "fail"))
        BY <2>3 DEF LockState, At, Holding, LockKept
      <3> QED  BY <3>1, HeldGoto DEF Pcs
    <2>4. CASE RtInitDone(t)
      <3>1. Depth(t) > 0 /\ Top(t).pc = "rtinit" /\ first' = first /\ initTcs' # {}
        BY <2>4 DEF RtInitDone, At
      <3>2. first'.lock = None
        BY <3>1, TopFacts DEF FrameOK, HeldInv
      <3> QED  BY <3>1, <3>2 DEF HeldInv
    <2>5. CASE RtInitFail(t)
      <3>1. Depth(t) > 0 /\ Top(t).pc \notin Holding /\ LockKept
            /\ (Goto(t, "fail") \/ Return(t))
        BY <2>5 DEF RtInitFail, At, Holding, LockKept, enclaveVars
      <3> QED  BY <3>1, HeldGoto, HeldReturn DEF Pcs
    <2>6. CASE ECall(t)
      <3>1. Depth(t) > 0 /\ Top(t).pc \notin Holding /\ LockKept
        BY <2>6 DEF ECall, At, Holding, LockKept, enclaveVars
      <3>2. \/ Return(t) \/ \E pc \in {"fail", "run", "body"} : Goto(t, pc)
            \/ Goto(t, "once") /\ initTcs # {}
        BY <2>6 DEF ECall, Entry, HeldInv
      <3> QED  BY <3>1, <3>2, HeldGoto, HeldReturn DEF Pcs
    <2>7. CASE Once(t)
      <3>1. Depth(t) > 0 /\ Top(t).pc = "once" /\ UNCHANGED <<state, initTcs>>
        BY <2>7 DEF Once, At
      <3>2. initTcs # {}
        BY <3>1, TopIsFrame DEF IInv, HeldInv, Top
      <3>3. \/ \E pc \in {"run", "body"} : Goto(t, pc) /\ first' = first
            \/ Goto(t, "ctors") /\ first'.lock = t
        BY <2>7 DEF Once, Entry, IInv, GlobalOK
      <3> QED  BY <3>1, <3>2, <3>3, HeldGoto, HeldChange DEF Pcs, Holding, LockKept
    <2>8. CASE CtorsDone(t)
      <3>1. Depth(t) > 0 /\ first'.lock = None /\ UNCHANGED <<state, initTcs>>
            /\ \E pc \in {"run", "body"} : Goto(t, pc)
        BY <2>8 DEF CtorsDone, At, Entry
      <3> QED  BY <3>1, HeldChange DEF Pcs
    <2>9. CASE GlobalInit(t)
      <3>1. Depth(t) > 0 /\ Top(t).pc \notin Holding /\ LockKept
            /\ (Goto(t, "body") \/ Goto(t, "fail"))
        BY <2>9 DEF GlobalInit, At, Holding, LockKept, enclaveVars
      <3> QED  BY <3>1, HeldGoto DEF Pcs
    <2>10. CASE BodyEnd(t)
      <3>1. Depth(t) > 0 /\ Top(t).pc \notin Holding /\ LockKept
            /\ (Return(t) \/ Goto(t, "fail") \/ Goto(t, "uninit"))
        BY <2>10 DEF BodyEnd, At, Holding, LockKept, enclaveVars
      <3> QED  BY <3>1, HeldGoto, HeldReturn DEF Pcs
    <2>11. CASE OCall(t)
      <3>1. Depth(t) > 0 /\ LockKept /\ stack' = [stack EXCEPT ![t][Depth(t)].out = TRUE]
        BY <2>11 DEF OCall, UserCode, At, LockKept, enclaveVars
      <3> QED  BY Zenon, <3>1, HeldMark
    <2>12. CASE ORet(t)
      <3>1. Depth(t) > 0 /\ LockKept
        BY <2>12 DEF ORet, LockKept, enclaveVars
      <3>2. \/ Return(t) /\ state' = "Crashed"
            \/ stack' = [stack EXCEPT ![t][Depth(t)].out = FALSE]
        BY <2>12 DEF ORet, enclaveVars
      <3> QED  BY Zenon, <3>1, <3>2, HeldMark, HeldReturn
    <2>13. CASE UninitCall(t)
      <3>1. Depth(t) > 0 /\ Top(t).pc \notin Holding /\ LockKept
            /\ (Goto(t, "body") \/ Goto(t, "uninit"))
        BY <2>13 DEF UninitCall, At, Holding, LockKept, enclaveVars
      <3> QED  BY <3>1, HeldGoto DEF Pcs
    <2>14. CASE Uninit(t)
      <3>1. Depth(t) > 0 /\ Top(t).pc \notin Holding /\ LockKept /\ (Return(t) \/ Goto(t, "store"))
        BY <2>14 DEF Uninit, At, Holding, LockKept
      <3> QED  BY <3>1, HeldGoto, HeldReturn DEF Pcs
    <2>15. CASE StoreFlag(t)
      <3>1. Depth(t) > 0 /\ Top(t).pc \notin Holding /\ LockKept /\ Goto(t, "ulock")
        BY <2>15 DEF StoreFlag, At, Holding, LockKept
      <3> QED  BY <3>1, HeldGoto DEF Pcs
    <2>16. CASE UninitLock(t)
      <3>1. Depth(t) > 0 /\ Top(t).pc = "ulock" /\ UNCHANGED <<state, initTcs>>
        BY <2>16 DEF UninitLock, At
      <3>2. initTcs # {}
        BY <3>1, TopFacts DEF FrameOK, Ending
      <3>3. \/ Goto(t, "fail") /\ first'.lock = None
            \/ Goto(t, "cleanup") /\ first'.lock = t
        BY <2>16 DEF UninitLock, IInv, GlobalOK
      <3> QED  BY <3>1, <3>2, <3>3, HeldChange DEF Pcs, Holding
    <2>17. CASE CleanupDone(t)
      <3>1. Depth(t) > 0 /\ LockKept /\ Goto(t, "dtors")
        BY <2>17 DEF CleanupDone, At, LockKept, enclaveVars
      <3> QED  BY <3>1, HeldGoto DEF Pcs, Holding
    <2>18. CASE Dtors(t)
      <3>1. Depth(t) > 0 /\ Goto(t, "fail") /\ first'.lock = None /\ UNCHANGED <<state, initTcs>>
        BY <2>18 DEF Dtors, At, IInv, GlobalOK
      <3> QED  BY <3>1, HeldChange DEF Pcs
    <2>19. CASE AtExit(t) \/ Cleanup(t) \/ RunExit(t)
      BY <1>1, <2>19 DEF AtExit, Cleanup, RunExit
    <2> QED
      BY <1>2, <2>1, <2>2, <2>3, <2>4, <2>5, <2>6, <2>7, <2>8, <2>9, <2>10, <2>11, <2>12,
         <2>13, <2>14, <2>15, <2>16, <2>17, <2>18, <2>19 DEF EnclaveStep
  <1> QED  BY <1>1, <1>2 DEF EnclaveNext, enclaveVars

\* Constructors, exit functions and destructors run under the lock of FIRST_ECALL, and
\* whoever waits for the lock in an enclave that has not crashed waits for a call that
\* is in progress, although rtinit's last store may overwrite a crash.
THEOREM LockHeld == EnclaveSpec => []LockHasHolder
  <1>1. EnclaveInit => HeldInv
    BY DEF EnclaveInit, HeldInv
  <1>2. IInv /\ HeldInv /\ [EnclaveNext]_<<enclaveVars, stack>> => HeldInv'
    BY HeldStep
  <1>3. IInv /\ HeldInv => LockHasHolder
    <2> SUFFICES ASSUME IInv, HeldInv  PROVE LockHasHolder
      OBVIOUS
    <2>1. ASSUME NEW t \in Tcs, HoldsLock(t)  PROVE first.lock = t
      BY <2>1 DEF HoldsLock, Depth, IInv, FramesOK, FrameOK
    <2> QED  BY <2>1 DEF LockHasHolder, HeldInv
  <1> QED  BY <1>1, <1>2, <1>3, InvariantHolds, PTL DEF EnclaveSpec
=============================================================================
