-------------------------------- MODULE Futex --------------------------------
(***************************************************************************)
(* The enclave's own futex (sgx_sync/src/sys/futex.rs): waiting items in   *)
(* hash buckets, each bucket under a spin lock, and the host event of a    *)
(* TCS to park its thread.                                                 *)
(*                                                                         *)
(* A critical section that makes no ocall is one action.  wake_items makes *)
(* one, with the bucket still locked, so lock[b] names the holder.         *)
(***************************************************************************)
EXTENDS HostEvent, Sequences, FiniteSets

CONSTANTS
    Futexes,      \* the addresses of the futex words
    Layouts,      \* the ways get_bucket's hash may spread the addresses over buckets
    Values,       \* the values the program stores in a futex word
    Expected,     \* the values waits and requeues expect in it
    Bitsets,      \* the bitsets of waits and wakes, as sets of bits
    Counts,       \* the max_count arguments of wake
    Moves,        \* the max_nwakes and max_nrequeues arguments of requeue
    None,         \* no thread, no item
    MaxWaiters,   \* bound on the Waiter objects of a thread that exist at once
    MaxEvents     \* bound on the undelivered events of a thread

ASSUME FutexAssumption ==
    /\ None \notin Tcs
    /\ Layouts \subseteq [Futexes -> Nat]
    /\ Counts \subseteq Nat /\ Moves \subseteq Nat
    /\ MaxWaiters \in Nat \ {0} /\ MaxEvents \in Nat \ {0}

Buckets == {h[f] : h \in Layouts, f \in Futexes}

VARIABLES
    bucketOf, \* bucketOf[f]: the bucket of address f, fixed by the hash
    word,     \* word[f]: the AtomicU32 at address f
    bucket,   \* bucket[b]: the Items of bucket b, in order
    lock,     \* lock[b]: the thread that holds the bucket's spin lock over a step
    woken,    \* the Waiters whose is_woken is set
    pc,       \* "idle", "wait" (Waiter::wait), "drop" (del_item), "wake", "requeue"
    item,     \* item[t]: the Item that t, in a wait, keeps a clone of
    todo,     \* todo[t]: the threads whose events t, in batch_wake, has still to set
    req       \* req[t]: the arguments of the requeue t has begun

thread == <<pc, item, todo, req>>
words == <<bucketOf, word>>
vars == <<evVars, words, bucket, lock, woken, thread>>

\* A Waiter is an Arc: [tcs, n] is the n-th one thread tcs has alive.
Waiters == [tcs : Tcs, n : 1..MaxWaiters]
Items == [futex : Futexes, bitset : Bitsets, waiter : Waiters]
Requests == [from : Futexes, to : Futexes, nwakes : Moves, nrequeues : Moves,
             expected : Expected \cup {None}]

Elems(q) == {q[i] : i \in DOMAIN q}
Queued == UNION {Elems(bucket[b]) : b \in Buckets}

TypeOK ==
    /\ EvTypeOK
    /\ bucketOf \in Layouts
    /\ word \in [Futexes -> Values]
    /\ bucket \in [Buckets -> Seq(Items)]
    /\ lock \in [Buckets -> Tcs \cup {None}]
    /\ woken \in SUBSET Waiters
    /\ pc \in [Tcs -> {"idle", "wait", "drop", "wake", "requeue"}]
    /\ item \in [Tcs -> Items \cup {None}]
    /\ todo \in [Tcs -> Seq(Tcs)]
    /\ req \in [Tcs -> Requests \cup {None}]

Init ==
    /\ EvInit
    /\ bucketOf \in Layouts
    /\ word \in [Futexes -> Values]
    /\ bucket = [b \in Buckets |-> <<>>]
    /\ lock = [b \in Buckets |-> None]
    /\ woken = {}
    /\ pc = [t \in Tcs |-> "idle"]
    /\ item = [t \in Tcs |-> None]
    /\ todo = [t \in Tcs |-> <<>>]
    /\ req = [t \in Tcs |-> None]

Goto(t, label) == pc' = [pc EXCEPT ![t] = label]
Unlocked(f) == lock[bucketOf[f]] = None

\* The program changes the word; the futex never does.
Store(t, f, v) ==
    /\ pc[t] = "idle" /\ word[f] # v
    /\ word' = [word EXCEPT ![f] = v]
    /\ UNCHANGED <<evVars, bucketOf, bucket, lock, woken, thread>>
-----------------------------------------------------------------------------
(* wait *)

\* Waiter::new: an object that no queued item refers to.
FreshWaiters(t) ==
    {w \in Waiters : w.tcs = t /\ \A i \in Queued : i.waiter # w}
NewWaiter(t) == CHOOSE w \in FreshWaiters(t) : \A x \in FreshWaiters(t) : w.n <= x.n

\* The value is compared and the item queued under the bucket's lock.  A value
\* other than the expected one is EAGAIN, which changes nothing.
Wait(t, f, expected, bits) ==
    /\ pc[t] = "idle" /\ Unlocked(f) /\ FreshWaiters(t) # {}
    /\ word[f] = expected
    /\ LET new == [futex |-> f, bitset |-> bits, waiter |-> NewWaiter(t)]
       IN /\ bucket' = [bucket EXCEPT ![bucketOf[f]] = Append(@, new)]
          /\ item' = [item EXCEPT ![t] = new]
    /\ Goto(t, "wait")
    /\ UNCHANGED <<evVars, words, lock, woken, todo, req>>

\* A Waiter lives as long as its wait or a queued item refers to it (WaiterRef).
Referenced(w, items, queued) ==
    \/ items[w.tcs] # None /\ items[w.tcs].waiter = w
    \/ \E i \in queued : i.waiter = w

\* The thread's wait is over.
Leave(t) ==
    /\ item' = [item EXCEPT ![t] = None]
    /\ woken' = {w \in woken : Referenced(w, item', Queued')}
    /\ Goto(t, "idle")

\* while !is_woken: the thread returns, or parks until its event is set.
CheckWoken(t) ==
    /\ pc[t] = "wait" /\ t \notin waiting
    /\ \/ /\ item[t].waiter \in woken
          /\ UNCHANGED bucket
          /\ Leave(t)
          /\ UNCHANGED waiting
       \/ /\ item[t].waiter \notin woken
          /\ BeginWait(t)
          /\ UNCHANGED <<bucket, woken, pc, item>>
    /\ UNCHANGED <<pending, words, lock, todo, req>>

\* The wait ocall succeeds; the thread looks at is_woken again.
WaitOk(t) ==
    /\ pc[t] = "wait"
    /\ EndWait(t)
    /\ UNCHANGED <<words, bucket, lock, woken, thread>>

\* The wait ocall fails, which a signal can make it do at any time.  The waiter marks
\* itself woken for EINTR, for EAGAIN (an event came before the host could sleep) and
\* for the ETIMEDOUT of a timed wait, and does not for another error.
WaitErr(t) ==
    /\ pc[t] = "wait"
    /\ EndWait(t)
    /\ woken' = woken \cup {item[t].waiter} \/ UNCHANGED woken
    /\ Goto(t, "drop")
    /\ UNCHANGED <<words, bucket, lock, item, todo, req>>

\* Items are compared by futex, bitset and TCS, not by their Waiter.
SameItem(i, j) == i.futex = j.futex /\ i.bitset = j.bitset /\ i.waiter.tcs = j.waiter.tcs

RemoveAt(q, k) == [i \in 1..(Len(q) - 1) |-> IF i < k THEN q[i] ELSE q[i + 1]]

DelItem(q, x) ==
    LET same == {i \in DOMAIN q : SameItem(q[i], x)}
    IN IF same = {} THEN q
       ELSE RemoveAt(q, CHOOSE i \in same : \A j \in same : i <= j)

\* Item::wait takes the item out of the bucket of the futex it was created for.
Drop(t) ==
    /\ pc[t] = "drop" /\ Unlocked(item[t].futex)
    /\ bucket' = [bucket EXCEPT ![bucketOf[item[t].futex]] = DelItem(@, item[t])]
    /\ Leave(t)
    /\ UNCHANGED <<evVars, words, lock, todo, req>>
-----------------------------------------------------------------------------
(* wake and requeue *)

Take(s, n) == SubSeq(s, 1, IF n < Len(s) THEN n ELSE Len(s))

\* Mutant of ToWake: every word of the bucket is woken.
ToWakeAnyWord(q, f, n, bits) ==
    Take(SelectSeq(q, LAMBDA i : i.bitset \cap bits # {}), n)

\* The items of f that a wake for bits chooses, and those a requeue moves.
ToWake(q, f, n, bits) ==
    Take(SelectSeq(q, LAMBDA i : i.futex = f /\ i.bitset \cap bits # {}), n)
ToMove(q, f, n) == Take(SelectSeq(q, LAMBDA i : i.futex = f), n)

Except(q, s) == SelectSeq(q, LAMBDA i : i \notin Elems(s))

MatchAny == UNION Bitsets

\* batch_wake: the chosen waiters that were not woken yet.
Sleeping(chosen) ==
    LET s == SelectSeq(chosen, LAMBDA i : i.waiter \notin woken)
    IN [k \in DOMAIN s |-> s[k].waiter.tcs]

\* wake_items up to its ocall: t keeps the locks bs until the events are set.
WakeItems(t, chosen, bs) ==
    /\ woken' = {w \in woken \cup {i.waiter : i \in Elems(chosen)} :
                    Referenced(w, item, Queued')}
    /\ todo' = [todo EXCEPT ![t] = Sleeping(chosen)]
    /\ IF Sleeping(chosen) = <<>>
       THEN Goto(t, "idle") /\ lock' = [b \in Buckets |-> IF b \in bs THEN None ELSE lock[b]]
       ELSE Goto(t, "wake") /\ lock' = [b \in Buckets |-> IF b \in bs THEN t ELSE lock[b]]

\* A wake that finds nobody to wake changes nothing.
Wake(t, f, n, bits) ==
    /\ pc[t] = "idle" /\ Unlocked(f)
    /\ LET b == bucketOf[f]
           chosen == ToWake(bucket[b], f, n, bits)
       IN /\ chosen # <<>>
          /\ bucket' = [bucket EXCEPT ![b] = Except(@, chosen)]
          /\ WakeItems(t, chosen, {b})
    /\ UNCHANGED <<evVars, words, item, req>>

\* Mutant of SetEvents: only the first event is set.
SetEventsFirst(t) ==
    /\ pc[t] = "wake"
    /\ SetEventUpTo(Head(todo[t]), MaxEvents)
    /\ todo' = [todo EXCEPT ![t] = <<>>]
    /\ Goto(t, "idle")
    /\ lock' = [b \in Buckets |-> IF lock[b] = t THEN None ELSE lock[b]]
    /\ UNCHANGED <<waiting, words, bucket, woken, item, req>>

\* The host sets the events one by one; the locks are released after the last.
SetEvents(t) ==
    /\ pc[t] = "wake"
    /\ SetEventUpTo(Head(todo[t]), MaxEvents)
    /\ todo' = [todo EXCEPT ![t] = Tail(@)]
    /\ IF Len(todo[t]) > 1 THEN UNCHANGED <<pc, lock>>
       ELSE /\ Goto(t, "idle")
            /\ lock' = [b \in Buckets |-> IF lock[b] = t THEN None ELSE lock[b]]
    /\ UNCHANGED <<waiting, words, bucket, woken, item, req>>

Rekey(s, moved, f) ==
    [k \in DOMAIN s |-> IF s[k] \in moved THEN [s[k] EXCEPT !.futex = f] ELSE s[k]]

\* requeue between futexes of one bucket: the expected value is not looked at.
\* The items move after the events are set, with the bucket still locked; nobody
\* can see that they move here.
RequeueSame(t, r) ==
    /\ pc[t] = "idle" /\ Unlocked(r.from)
    /\ r.from # r.to /\ bucketOf[r.from] = bucketOf[r.to]
    /\ LET b == bucketOf[r.from]
           chosen == ToWake(bucket[b], r.from, r.nwakes, MatchAny)
           rest == Except(bucket[b], chosen)
           moved == Elems(ToMove(rest, r.from, r.nrequeues))
       IN /\ bucket' = [bucket EXCEPT ![b] = Rekey(rest, moved, r.to)]
          /\ WakeItems(t, chosen, {b})
    /\ UNCHANGED <<evVars, words, item, req>>

\* Mutant of FirstLock: the buckets are locked in the order of the arguments.
FirstLockFrom(r) == bucketOf[r.from]

\* Two buckets are locked in the order of their indices.
FirstLock(r) ==
    IF bucketOf[r.from] < bucketOf[r.to] THEN bucketOf[r.from] ELSE bucketOf[r.to]

SecondLock(r) ==
    IF FirstLock(r) = bucketOf[r.from] THEN bucketOf[r.to] ELSE bucketOf[r.from]

\* requeue between buckets takes the first lock ...
RequeueBegin(t, r) ==
    /\ pc[t] = "idle"
    /\ bucketOf[r.from] # bucketOf[r.to]
    /\ lock[FirstLock(r)] = None
    /\ lock' = [lock EXCEPT ![FirstLock(r)] = t]
    /\ req' = [req EXCEPT ![t] = r]
    /\ Goto(t, "requeue")
    /\ UNCHANGED <<evVars, words, bucket, woken, item, todo>>

\* ... and the second, and then wakes and moves, or fails with EAGAIN.
RequeueEnd(t) ==
    /\ pc[t] = "requeue"
    /\ lock[SecondLock(req[t])] = None
    /\ LET r == req[t]
           a == bucketOf[r.from]
           b == bucketOf[r.to]
           chosen == ToWake(bucket[a], r.from, r.nwakes, MatchAny)
           rest == Except(bucket[a], chosen)
           moved == ToMove(rest, r.from, r.nrequeues)
       IN \/ /\ r.expected \notin {None, word[r.from]}
             /\ Goto(t, "idle")
             /\ lock' = [lock EXCEPT ![FirstLock(r)] = None]
             /\ UNCHANGED <<bucket, woken, todo>>
          \/ /\ r.expected \in {None, word[r.from]}
             /\ bucket' = [bucket EXCEPT ![a] = Except(rest, moved),
                                         ![b] = @ \o Rekey(moved, Elems(moved), r.to)]
             /\ WakeItems(t, chosen, {a, b})
    /\ req' = [req EXCEPT ![t] = None]
    /\ UNCHANGED <<evVars, words, item>>
-----------------------------------------------------------------------------
WaitStep(t) ==
    \/ \E f \in Futexes, v \in Expected, bits \in Bitsets : Wait(t, f, v, bits)
    \/ CheckWoken(t) \/ WaitOk(t) \/ WaitErr(t) \/ Drop(t)

WakeStep(t) ==
    \/ \E f \in Futexes, v \in Values : Store(t, f, v)
    \/ \E f \in Futexes, n \in Counts, bits \in Bitsets \cup {MatchAny} : Wake(t, f, n, bits)
    \/ SetEvents(t)

\* A requeue of a futex to itself, or with i32::MAX wakes, is a wake.
RequeueStep(t) ==
    \/ \E r \in Requests : RequeueSame(t, r) \/ RequeueBegin(t, r)
    \/ RequeueEnd(t)

Next == \E t \in Tcs : WaitStep(t) \/ WakeStep(t) \/ RequeueStep(t)

Spec == Init /\ [][Next]_vars
-----------------------------------------------------------------------------
(* Properties *)

\* No lost wake: a parked thread whose is_woken is set has its event set, or the
\* waker that holds the bucket is about to set it.  The flag and the event are two
\* steps, and the event is one the thread shares with all its other waits.  A thread
\* that sleeps and was not woken can be found: its item is in the bucket of the futex
\* the item names now, wherever requeues moved it.
NoLostWake ==
    /\ \A t \in waiting : item[t].waiter \in woken =>
          pending[t] > 0 \/ \E u \in Tcs : t \in Elems(todo[u])
    /\ \A t \in Tcs : pc[t] = "wait" /\ item[t].waiter \notin woken =>
          \E f \in Futexes : \E i \in Elems(bucket[bucketOf[f]]) :
              i.futex = f /\ i.waiter = item[t].waiter

\* The items of word f whose wait is still going on.  An interrupted wait whose item
\* a requeue had moved leaves the item behind: it is nobody's any more.
LiveItems(f) == {i \in Elems(bucket[bucketOf[f]]) :
    i.futex = f /\ item[i.waiter.tcs] # None /\ item[i.waiter.tcs].waiter = i.waiter}

AF == INSTANCE AbstractFutex WITH
    Words <- Futexes,
    asleep <- [f \in Futexes |-> {i.waiter.tcs : i \in LiveItems(f)}],
    inwait <- {t \in Tcs : pc[t] = "wait"},
    leaving <- {t \in Tcs : pc[t] = "drop"}

\* No item of word f was left behind.
NoneLeftBehind(f) ==
    \A i \in Elems(bucket[bucketOf[f]]) : i.futex = f => i \in LiveItems(f)

\* Buckets, waiter flags and host events together are a set of sleepers per word,
\* however the words share buckets and wherever requeues move the sleepers.  A wake
\* with all bits takes what the locks rely on, one sleeper or all of them, unless an
\* item that an interrupted wait left behind uses up the wake.  The locks never
\* requeue, so that nothing is left behind on their words.
ImplementsFutex ==
    /\ AF!FxSpec
    /\ [][bucket' # bucket => \A f \in Futexes : NoneLeftBehind(f) =>
            \A t \in Tcs, n \in Counts : Wake(t, f, n, MatchAny) =>
                /\ n = 1 => AF!FxWakeOne(f)
                /\ n >= Cardinality(LiveItems(f)) => AF!FxWakeAll(f)]_vars

\* Requeues in opposite directions do not wait for each other's bucket: nobody
\* spins for a spin lock whose holder spins for one of theirs.
NoLockCycle == \A t, u \in Tcs :
    pc[t] = "requeue" /\ pc[u] = "requeue" =>
        lock[SecondLock(req[t])] # u \/ lock[SecondLock(req[u])] # t
=============================================================================
