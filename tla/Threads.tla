------------------------------ MODULE Threads ------------------------------
(* Threads created inside the enclave (sgx_trts thread::native, thread::task),  *)
(* composed with the life of the enclave.  Thread::new queues a task and asks   *)
(* the host for a thread; the host thread enters with the Thread call and takes *)
(* the task at the front of the one queue, whoever queued it.                   *)
EXTENDS Enclave

CONSTANT Threads    \* bound: the Thread objects created

VARIABLES
    native,     \* native[n]: the Inner of thread n, or None
    tasks,      \* TASK_QUEUE
    reserved,   \* TCSs the host keeps for threads it created, which will enter on them
    running,    \* running[t]: THREAD_INFO of the TCS, the thread running on it
    result      \* result[n]: [new: what Thread::new returned, told: whom the end woke,
                \*             left: the wait of the registered joiner failed]

threadVars == <<native, tasks, reserved, running, result>>
vars == <<enclaveVars, stack, threadVars>>

Init ==
    /\ EnclaveInit
    /\ native = [n \in Threads |-> None]
    /\ tasks = <<>>
    /\ reserved = {}
    /\ running = [t \in Tcs |-> None]
    /\ result = [n \in Threads |-> [new |-> None, told |-> None, left |-> FALSE]]

Obj(t) == Top(t).obj
GotoWith(t, pc, n) ==
    stack' = [stack EXCEPT ![t][Depth(t)].pc = pc, ![t][Depth(t)].obj = n]

\* Thread::new or join returns to the program.
Resume(t) == GotoWith(t, "body", None)

\* An ocall comes back, to go on at pc or to return to the program.
BackResume(t) == IF state = "Crashed" THEN Return(t) ELSE Resume(t)

InProgram(t) == At(t, "body") /\ In(t, {"ECall", "Thread"})
-----------------------------------------------------------------------------
(* Thread::new *)

New(t, n) ==
    /\ InProgram(t) /\ native[n] = None
    /\ native' = [native EXCEPT ![n] = [state |-> "Preparing", creater |-> t, joiner |-> None]]
    /\ tasks' = Append(tasks, n)
    /\ GotoWith(t, "create", n)
    /\ UNCHANGED <<enclaveVars, reserved, running, result>>

\* pthread_create_ocall: the host makes a thread and keeps a free TCS for it ...
CreateOk(t) ==
    /\ At(t, "create")
    /\ \E u \in Tcs \ reserved : stack[u] = <<>> /\ reserved' = reserved \cup {u}
    /\ Back(t, "wait")
    /\ UNCHANGED <<enclaveVars, native, tasks, running, result>>

\* ... or has no TCS left, or cannot make a thread.
CreateErr(t) ==
    /\ At(t, "create")
    /\ Back(t, "pop")
    /\ UNCHANGED <<enclaveVars, threadVars>>

\* Mutant of PopTask: the creator whose task is dropped is not told.
PopTaskUntold(t) ==
    /\ At(t, "pop")
    /\ tasks' = IF tasks = <<>> THEN tasks ELSE Tail(tasks)
    /\ IF tasks # <<>> /\ Head(tasks) = Obj(t)
       THEN result' = [result EXCEPT ![Obj(t)].new = "Err"] /\ Resume(t)
       ELSE Back(t, "wait") /\ UNCHANGED result
    /\ UNCHANGED <<enclaveVars, native, reserved, running>>

\* Mutant of PopTask: Thread::new fails whosever task was dropped.
PopTaskFails(t) ==
    /\ At(t, "pop")
    /\ tasks' = IF tasks = <<>> THEN tasks ELSE Tail(tasks)
    /\ result' = [result EXCEPT ![Obj(t)].new = "Err"]
    /\ native' = IF tasks = <<>> THEN native
                 ELSE [native EXCEPT ![Head(tasks)].state = "Failed"]
    /\ Resume(t)
    /\ UNCHANGED <<enclaveVars, reserved, running>>

\* The creator takes the task at the front.  If it is another creator's, that one
\* is told that its thread failed, and this one waits for the other's host thread.
PopTask(t) ==
    /\ At(t, "pop")
    /\ tasks' = IF tasks = <<>> THEN tasks ELSE Tail(tasks)
    /\ IF tasks # <<>> /\ Head(tasks) = Obj(t)
       THEN /\ result' = [result EXCEPT ![Obj(t)].new = "Err"]
            /\ Resume(t)
            /\ UNCHANGED native
       ELSE /\ native' = IF tasks = <<>> THEN native
                         ELSE [native EXCEPT ![Head(tasks)].state = "Failed"]
            /\ Back(t, "wait")
            /\ UNCHANGED result
    /\ UNCHANGED <<enclaveVars, reserved, running>>

\* pthread_wait_timeout_ocall ends, woken or by its timeout ...
WaitOk(t) ==
    /\ At(t, "wait")
    /\ Back(t, "check")
    /\ UNCHANGED <<enclaveVars, threadVars>>

\* ... or fails, which Thread::new returns whatever becomes of its thread.
WaitErr(t) ==
    /\ At(t, "wait")
    /\ BackResume(t)
    /\ result' = [result EXCEPT ![Obj(t)].new = "WaitErr"]
    /\ UNCHANGED <<enclaveVars, native, tasks, reserved, running>>

Check(t) ==
    /\ At(t, "check")
    /\ LET s == native[Obj(t)].state
       IN IF s = "Preparing" THEN Goto(t, "wait") /\ UNCHANGED result
          ELSE /\ result' = [result EXCEPT ![Obj(t)].new = IF s = "Failed" THEN "Err" ELSE "Ok"]
               /\ Resume(t)
    /\ UNCHANGED <<enclaveVars, native, tasks, reserved, running>>
-----------------------------------------------------------------------------
(* thread_run *)

\* The host thread enters on its TCS, or finds the enclave crashed and goes away.
HostThread(t) ==
    /\ t \in reserved
    /\ reserved' = reserved \ {t}
    /\ IF state = "Crashed" THEN UNCHANGED <<enclaveVars, stack>> ELSE Enter(t, "Thread")
    /\ UNCHANGED <<native, tasks, running, result>>

\* It takes a task, which nobody else knows of then, marks the
\* thread as running and wakes its creator with an ocall before it runs it.
TakeTask(t) ==
    /\ At(t, "run")
    /\ IF tasks = <<>> THEN Return(t) /\ UNCHANGED <<native, tasks, running>>
       ELSE /\ tasks' = Tail(tasks)
            /\ native' = [native EXCEPT ![Head(tasks)].state = "Execution"]
            /\ running' = [running EXCEPT ![t] = Head(tasks)]
            /\ Back(t, "body")
    /\ UNCHANGED <<enclaveVars, reserved, result>>

\* wakeup_join: the thread has run and its thread-local data is gone.
EndThread(t) ==
    /\ At(t, "body") /\ In(t, {"Thread"})
    /\ LET n == running[t]
       IN /\ native' = [native EXCEPT ![n].state = "WakedUp"]
          /\ result' = [result EXCEPT ![n].told = native[n].joiner]
    /\ running' = [running EXCEPT ![t] = None]
    /\ Return(t)
    /\ UNCHANGED <<enclaveVars, tasks, reserved>>
-----------------------------------------------------------------------------
(* Thread::join *)

\* A thread does not join itself; after the uninitialisation nobody is waited for,
\* and a thread that has a joiner is refused.  None of these changes anything.
Join(t, n) ==
    /\ InProgram(t) /\ result[n].new = "Ok" /\ running[t] # n
    /\ ~uninit /\ native[n].joiner = None
    /\ GotoWith(t, "join", n)
    /\ UNCHANGED <<enclaveVars, threadVars>>

\* Mutant of JoinLoop: the joiner registers when it is about to return.
JoinLoopLate(t) ==
    /\ At(t, "join")
    /\ IF native[Obj(t)].state = "WakedUp"
       THEN Resume(t) /\ native' = [native EXCEPT ![Obj(t)].joiner = t]
       ELSE Goto(t, "joinwait") /\ UNCHANGED native
    /\ UNCHANGED <<enclaveVars, tasks, reserved, running, result>>

\* The state is looked at and the joiner registered under the lock of the thread;
\* another joiner may have registered since the check of Join.
JoinLoop(t) ==
    /\ At(t, "join")
    /\ IF native[Obj(t)].state = "WakedUp" THEN Resume(t) /\ UNCHANGED native
       ELSE /\ Goto(t, "joinwait")
            /\ native' = [native EXCEPT ![Obj(t)].joiner = IF @ = None THEN t ELSE @]
    /\ UNCHANGED <<enclaveVars, tasks, reserved, running, result>>

\* The wait ends, or fails: then join fails, and the joiner stays registered.
JoinWait(t) ==
    /\ At(t, "joinwait")
    /\ \/ Back(t, "join") /\ UNCHANGED result
       \/ /\ BackResume(t)
          /\ result' = [result EXCEPT ![Obj(t)].left = @ \/ native[Obj(t)].joiner = t]
    /\ UNCHANGED <<enclaveVars, native, tasks, reserved, running>>
-----------------------------------------------------------------------------
Step(t) ==
    \/ t \notin reserved /\ EnclaveStep(t) /\ UNCHANGED threadVars
    \/ \E n \in Threads : New(t, n) \/ Join(t, n)
    \/ CreateOk(t) \/ CreateErr(t) \/ PopTask(t)
    \/ WaitOk(t) \/ WaitErr(t) \/ Check(t)
    \/ HostThread(t) \/ TakeTask(t) \/ EndThread(t)
    \/ JoinLoop(t) \/ JoinWait(t)

Next == \E t \in Tcs : Step(t)
Spec == Init /\ [][Next]_vars
-----------------------------------------------------------------------------
(* Properties *)

FramesAt(calls, pcs) ==
    {<<t, i>> \in Tcs \X (1..MaxDepth) :
        i <= Depth(t) /\ stack[t][i].call \in calls /\ stack[t][i].pc \in pcs}

\* While the enclave lives there are as many queued tasks as host threads on their
\* way to take one and creators that have not heard from the host yet.  So a host
\* thread always finds a task and no creator waits for a thread nobody will run,
\* although a failed creation takes the task of whoever is first in the queue.
TasksMatchThreads == state = "InitDone" =>
    /\ Len(tasks) = Cardinality(reserved)
                  + Cardinality(FramesAt({"Thread"}, {"dispatch", "once", "ctors", "run"}))
                  + Cardinality(FramesAt({"ECall", "Thread"}, {"create", "pop"}))
    /\ \A <<t, i>> \in FramesAt({"ECall", "Thread"}, {"wait", "check"}) :
          native[stack[t][i].obj].state = "Preparing" =>
              \E k \in DOMAIN tasks : tasks[k] = stack[t][i].obj

\* What Thread::new says is so: a thread it returns has been started, and one whose
\* creation failed never runs, also when another creator's failure dropped the task.
\* Only an error of the wait itself leaves it open.
CreationIsExact == \A n \in Threads :
    /\ result[n].new = "Ok" => native[n].state \in {"Execution", "WakedUp"}
    /\ result[n].new = "Err" =>
          /\ native[n].state \in {"Preparing", "Failed"}
          /\ \A k \in DOMAIN tasks : tasks[k] # n

\* The TCSs in the loop of join for thread n.
Joining(n) == {t \in Tcs : (At(t, "join") \/ At(t, "joinwait")) /\ Obj(t) = n}

\* When a thread ends while somebody waits to join it, the host is told of one that is
\* still in join, although the check for another joiner and the registration are
\* separate and a waiter may be registered or not.  The exception: the wait of the
\* registered joiner failed.  It stays registered and the end is announced to it; the
\* others learn of the end only from the timeout of their wait.
EndIsAnnounced == [][\A n \in Threads :
    /\ native[n] # None /\ native[n] # native'[n] /\ native'[n].state = "WakedUp"
    /\ state # "Crashed" /\ ~result[n].left
    /\ \E t \in Joining(n) : At(t, "joinwait")
    => result'[n].told \in Joining(n)]_vars
=============================================================================
