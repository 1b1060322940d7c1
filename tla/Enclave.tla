------------------------------ MODULE Enclave ------------------------------
(* The life of an enclave in sgx_trts: the entry point, runtime initialisation,  *)
(* the first ECALL with the global constructors, ocalls and the ECALLs nested in *)
(* them, at_exit functions and uninitialisation.  The host may enter with any    *)
(* call on any free TCS at any time.  The configuration is one without EDMM: the *)
(* TCS of the runtime initialisation is the one that may uninitialise.           *)
EXTENDS Naturals, Sequences, FiniteSets

CONSTANTS
    Tcs,        \* thread control structures; a TCS is entered by one thread at a time
    None,
    HostCalls,  \* the calls the host makes
    MaxDepth,   \* bound: ECALLs on one TCS, each but the first nested in an ocall
    ExitFns,    \* bound: the functions handed to at_exit
    Iters       \* ITERS: the rounds of atexit::cleanup

ASSUME EnclaveAssumption ==
    /\ HostCalls \subseteq {"RtInit", "ECall", "GlobalInit", "GlobalExit", "RtUninit"}
    /\ MaxDepth \in Nat \ {0} /\ Iters \in Nat \ {0}
    /\ None \notin Tcs \cup ExitFns

VARIABLES
    state,      \* ENCLAVE_STATE
    uninit,     \* UNINIT_FLAG
    initTcs,    \* the TCSs that have the INIT_THREAD flag
    first,      \* FIRST_ECALL: [done: its state is COMPLETE, lock: who holds its lock]
    exits,      \* QUEUE of at_exit: [queue, done]; done stands for the DONE mark
    cleanup,    \* the locals of atexit::cleanup: [round, todo]
    stack,      \* stack[t]: the ECALLs in progress on t, the innermost last
    hist        \* what user code saw: [ctors, dtors, ran, accepted]

enclaveVars == <<state, uninit, initTcs, first, exits, cleanup, hist>>

Frame(call, pc) == [call |-> call, pc |-> pc, out |-> FALSE, obj |-> None]
EnclaveInit ==
    /\ state = "NotStarted"
    /\ uninit = FALSE
    /\ initTcs = {}
    /\ first = [done |-> FALSE, lock |-> None]
    /\ exits = [queue |-> <<>>, done |-> FALSE]
    /\ cleanup = [round |-> 0, todo |-> <<>>]
    /\ stack = [t \in Tcs |-> <<>>]
    /\ hist = [ctors |-> 0, dtors |-> 0, ran |-> [f \in ExitFns |-> 0], accepted |-> {}]
-----------------------------------------------------------------------------
(* The innermost call of a TCS *)

Depth(t) == Len(stack[t])
Top(t) == stack[t][Depth(t)]
Frames == UNION {{stack[t][i] : i \in 1..Depth(t)} : t \in Tcs}

\* t is inside the enclave at label pc, not in an ocall.
At(t, pc) == Depth(t) > 0 /\ Top(t).pc = pc /\ ~Top(t).out
In(t, calls) == Top(t).call \in calls

Goto(t, pc) == stack' = [stack EXCEPT ![t][Depth(t)].pc = pc]
Return(t) == stack' = [stack EXCEPT ![t] = SubSeq(@, 1, Depth(t) - 1)]

\* oret: an ocall can only come back to an enclave that has not crashed.  If it has,
\* the call that made the ocall is abandoned with all it holds.
Back(t, pc) == IF state = "Crashed" THEN Return(t) ELSE Goto(t, pc)
-----------------------------------------------------------------------------
(* enter_enclave *)

\* The state is read once, before the call is dispatched.  A crashed enclave refuses
\* the call; nothing changes then.
Enter(t, call) ==
    /\ Depth(t) < MaxDepth
    /\ Depth(t) > 0 => Top(t).out
    /\ state # "Crashed"
    /\ LET pc == IF call # "RtInit" /\ state # "InitDone" THEN "fail" ELSE "dispatch"
       IN stack' = [stack EXCEPT ![t] = Append(@, Frame(call, pc))]
    /\ UNCHANGED enclaveVars

\* SgxStatus::Unexpected crashes the enclave, and so does the end of rtuninit.
Fail(t) ==
    /\ At(t, "fail")
    /\ state' = "Crashed"
    /\ Return(t)
    /\ UNCHANGED <<uninit, initTcs, first, exits, cleanup, hist>>

\* rtinit: one compare-and-exchange decides who initialises.
LockState(t) ==
    /\ At(t, "dispatch") /\ In(t, {"RtInit"})
    /\ IF state = "NotStarted"
       THEN state' = "InProgress" /\ Goto(t, "rtinit")
       ELSE Goto(t, "fail") /\ UNCHANGED state
    /\ UNCHANGED <<uninit, initTcs, first, exits, cleanup, hist>>

\* rtinit goes through; what another thread made of the state meanwhile is lost.
RtInitDone(t) ==
    /\ At(t, "rtinit")
    /\ initTcs' = initTcs \cup {t}
    /\ state' = "InitDone"
    /\ Return(t)
    /\ UNCHANGED <<uninit, first, exits, cleanup, hist>>

\* One of the steps of rtinit fails: with Unexpected, or with the error of relocate,
\* SysFeatures::init or ThreadControl::init, which leaves the state InProgress.
RtInitFail(t) ==
    /\ At(t, "rtinit")
    /\ Goto(t, "fail") \/ Return(t)
    /\ UNCHANGED enclaveVars
-----------------------------------------------------------------------------
(* ecall, and the code of the program it calls *)

Entry(t) == IF In(t, {"Thread"}) THEN "run" ELSE "body"

\* The state is read again.  An ECALL nested in the constructors is refused.
ECall(t) ==
    /\ At(t, "dispatch") /\ In(t, {"ECall", "Thread"})
    /\ IF state # "InitDone" THEN Goto(t, "fail")
       ELSE IF first.done THEN Goto(t, Entry(t))
       ELSE IF Depth(t) > 1 THEN Return(t)
       ELSE Goto(t, "once")
    /\ UNCHANGED enclaveVars

\* Mutant of Once: the constructors run without the lock.
OnceUnlocked(t) ==
    /\ At(t, "once")
    /\ Goto(t, IF first.done THEN Entry(t) ELSE "ctors")
    /\ UNCHANGED enclaveVars

\* call_once: the lock is taken and the state looked at again under it.
Once(t) ==
    /\ At(t, "once") /\ first.lock = None
    /\ IF first.done THEN Goto(t, Entry(t)) /\ UNCHANGED first
       ELSE Goto(t, "ctors") /\ first' = [first EXCEPT !.lock = t]
    /\ UNCHANGED <<state, uninit, initTcs, exits, cleanup, hist>>

CtorsDone(t) ==
    /\ At(t, "ctors")
    /\ hist' = [hist EXCEPT !.ctors = @ + 1]
    /\ first' = [done |-> TRUE, lock |-> None]
    /\ Goto(t, Entry(t))
    /\ UNCHANGED <<state, uninit, initTcs, exits, cleanup>>

\* The header the host passes may be refused, which is Unexpected as well.
GlobalInit(t) ==
    /\ At(t, "dispatch") /\ In(t, {"GlobalInit"})
    /\ (state = "InitDone" /\ Goto(t, "body")) \/ Goto(t, "fail")
    /\ UNCHANGED enclaveVars

\* The called function returns; an ECALL of the program may return Unexpected.
BodyEnd(t) ==
    /\ At(t, "body") /\ ~In(t, {"Thread"})
    /\ \/ In(t, {"ECall", "GlobalInit"}) /\ Return(t)
       \/ In(t, {"ECall"}) /\ Goto(t, "fail")
       \/ In(t, {"GlobalExit"}) /\ Goto(t, "uninit")
    /\ UNCHANGED enclaveVars

\* Where code of the program runs: it may register exit functions and make ocalls.
UserCode(t) == \E pc \in {"body", "ctors", "dtors", "cleanup"} : At(t, pc)

AtExit(t) ==
    /\ UserCode(t) /\ ~exits.done
    /\ \E f \in ExitFns \ hist.accepted :
          /\ exits' = [exits EXCEPT !.queue = Append(@, f)]
          /\ hist' = [hist EXCEPT !.accepted = @ \cup {f}]
    /\ UNCHANGED <<state, uninit, initTcs, first, cleanup, stack>>

OCall(t) ==
    /\ UserCode(t) /\ Depth(t) < MaxDepth
    /\ stack' = [stack EXCEPT ![t][Depth(t)].out = TRUE]
    /\ UNCHANGED enclaveVars

ORet(t) ==
    /\ Depth(t) > 0 /\ Top(t).out
    /\ IF state = "Crashed" THEN Return(t)
       ELSE stack' = [stack EXCEPT ![t][Depth(t)].out = FALSE]
    /\ UNCHANGED enclaveVars
-----------------------------------------------------------------------------
(* rtuninit *)

UninitCall(t) ==
    /\ At(t, "dispatch") /\ In(t, {"GlobalExit", "RtUninit"})
    /\ Goto(t, IF In(t, {"GlobalExit"}) THEN "body" ELSE "uninit")
    /\ UNCHANGED enclaveVars

\* Mutant of Uninit: every TCS may uninitialise.
UninitAnywhere(t) ==
    /\ At(t, "uninit")
    /\ IF uninit THEN state' = "Crashed" /\ Return(t)
       ELSE Goto(t, "store") /\ UNCHANGED state
    /\ UNCHANGED <<uninit, initTcs, first, exits, cleanup, hist>>

\* The flag is loaded here and stored in the next step.
Uninit(t) ==
    /\ At(t, "uninit")
    /\ IF uninit \/ t \notin initTcs
       THEN state' = "Crashed" /\ Return(t)
       ELSE Goto(t, "store") /\ UNCHANGED state
    /\ UNCHANGED <<uninit, initTcs, first, exits, cleanup, hist>>

StoreFlag(t) ==
    /\ At(t, "store")
    /\ uninit' = TRUE
    /\ Goto(t, "ulock")
    /\ UNCHANGED <<state, initTcs, first, exits, cleanup, hist>>

\* Mutant of UninitLock: the lock is not waited for.
UninitLockTaken(t) ==
    /\ At(t, "ulock")
    /\ IF first.done
       THEN /\ first' = [first EXCEPT !.lock = t]
            /\ cleanup' = [round |-> 1, todo |-> <<>>]
            /\ Goto(t, "cleanup")
       ELSE Goto(t, "fail") /\ first' = [first EXCEPT !.lock = None] /\ UNCHANGED cleanup
    /\ UNCHANGED <<state, uninit, initTcs, exits, hist>>

\* The constructors are kept out while the destructors run.  If there is nothing to
\* destroy the lock is released at once.
UninitLock(t) ==
    /\ At(t, "ulock") /\ first.lock = None
    /\ IF first.done
       THEN /\ first' = [first EXCEPT !.lock = t]
            /\ cleanup' = [round |-> 1, todo |-> <<>>]
            /\ Goto(t, "cleanup")
       ELSE Goto(t, "fail") /\ UNCHANGED <<first, cleanup>>
    /\ UNCHANGED <<state, uninit, initTcs, exits, hist>>

\* Mutant of Cleanup: the last round closes the queue before it is taken.
CleanupClosed(t) ==
    /\ At(t, "cleanup") /\ cleanup.todo = <<>> /\ cleanup.round <= Iters
    /\ exits' = [queue |-> <<>>, done |-> cleanup.round = Iters]
    /\ cleanup' = [round |-> cleanup.round + 1,
                   todo |-> IF cleanup.round = Iters THEN <<>> ELSE exits.queue]
    /\ UNCHANGED <<state, uninit, initTcs, first, stack, hist>>

\* A round of atexit::cleanup takes the whole queue; the last one closes it.
Cleanup(t) ==
    /\ At(t, "cleanup") /\ cleanup.todo = <<>> /\ cleanup.round <= Iters
    /\ exits' = [queue |-> <<>>, done |-> cleanup.round = Iters]
    /\ cleanup' = [round |-> cleanup.round + 1, todo |-> exits.queue]
    /\ UNCHANGED <<state, uninit, initTcs, first, stack, hist>>

\* The functions of a round run last in, first out.
RunExit(t) ==
    /\ At(t, "cleanup") /\ cleanup.todo # <<>>
    /\ LET n == Len(cleanup.todo)
       IN /\ hist' = [hist EXCEPT !.ran[cleanup.todo[n]] = @ + 1]
          /\ cleanup' = [cleanup EXCEPT !.todo = SubSeq(@, 1, n - 1)]
    /\ UNCHANGED <<state, uninit, initTcs, first, exits, stack>>

CleanupDone(t) ==
    /\ At(t, "cleanup") /\ cleanup.todo = <<>> /\ cleanup.round > Iters
    /\ Goto(t, "dtors")
    /\ UNCHANGED enclaveVars

\* The enclave is marked as crashed only after the lock is released.
Dtors(t) ==
    /\ At(t, "dtors")
    /\ hist' = [hist EXCEPT !.dtors = @ + 1]
    /\ first' = [first EXCEPT !.lock = None]
    /\ Goto(t, "fail")
    /\ UNCHANGED <<state, uninit, initTcs, exits, cleanup>>
-----------------------------------------------------------------------------
EnclaveStep(t) ==
    \/ \E call \in HostCalls : Enter(t, call)
    \/ Fail(t) \/ LockState(t) \/ RtInitDone(t) \/ RtInitFail(t)
    \/ ECall(t) \/ Once(t) \/ CtorsDone(t) \/ GlobalInit(t) \/ BodyEnd(t)
    \/ AtExit(t) \/ OCall(t) \/ ORet(t)
    \/ UninitCall(t) \/ Uninit(t) \/ StoreFlag(t) \/ UninitLock(t)
    \/ Cleanup(t) \/ RunExit(t) \/ CleanupDone(t) \/ Dtors(t)

EnclaveNext == \E t \in Tcs : EnclaveStep(t)
EnclaveSpec == EnclaveInit /\ [][EnclaveNext]_<<enclaveVars, stack>>
-----------------------------------------------------------------------------
(* Properties *)

\* The places of the calls that hold the lock of FIRST_ECALL.
Holding == {"ctors", "cleanup", "dtors"}

HoldsLock(t) == \E i \in 1..Depth(t) : stack[t][i].pc \in Holding

\* Constructors, exit functions and destructors run under the lock of FIRST_ECALL,
\* and as long as the enclave has not crashed the lock is held by a call that is still
\* in progress: a first ECALL that waits for it waits for somebody.  Only an ocall that
\* comes back to a crashed enclave leaves the lock behind, and then for good: the
\* set_state(InitDone) at the end of rtinit, which may overwrite a crash, cannot bring
\* back an enclave whose lock was left.
LockHasHolder ==
    /\ \A t \in Tcs : HoldsLock(t) => first.lock = t
    /\ first.lock # None /\ state # "Crashed" => HoldsLock(first.lock)

\* When the destructors run, every function that at_exit accepted, also from another
\* exit function or from another thread during the cleanup, has run; none runs twice.
ExitFunctionsRun ==
    /\ \A f \in ExitFns : hist.ran[f] <= 1
    /\ \A t \in Tcs : At(t, "dtors") => \A f \in hist.accepted : hist.ran[f] = 1

\* The enclave is destroyed once, although the flag that says so is loaded and stored
\* in two steps: the destructors run once, and the cleanup never finds the queue
\* closed by an earlier one (the assertion in atexit::cleanup).
DestroyedOnce ==
    /\ hist.dtors <= 1
    /\ \A t \in Tcs : At(t, "cleanup") /\ cleanup.round = 1 => ~exits.done

\* No ECALL of the program, exit function or destructor runs before the global
\* constructors have, and these run once, even when several threads make the first
\* ECALL at once or the enclave is uninitialised meanwhile.
ConstructedFirst ==
    /\ hist.ctors <= 1
    /\ \A fr \in Frames :
          \/ fr.pc \in {"run", "cleanup", "dtors"}
          \/ fr.pc = "body" /\ fr.call \in {"ECall", "Thread"}
          => hist.ctors = 1
=============================================================================
