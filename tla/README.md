# A TLA+ model of the Teaclave SGX SDK

The SDK lets a Rust program run inside an SGX enclave. Its threads are the
enclave's TCSs (thread control structures). They cannot sleep inside the
enclave: a blocked thread leaves it and waits for its event in the untrusted
host. Its files are kept by the host as well, encrypted node by node. This
project models the parts of the SDK that are hardest to test: the locks built on
those events, the life of the enclave and of the threads created in it, the
protected file system, and the reserved memory. It proves the core of the locks
and of the enclave's life.

## The system and its parts

| part of the SDK | source | module |
|---|---|---|
| host events: wait, set, set-and-wait ocalls | `sgx_urts/src/ocall/sync.rs` | `SeEvent`; `HostEvent` is what the enclave relies on |
| queue-based mutex, condition variable, reader-writer lock | `sgx_sync/src/sys/locks/generic` | `GenericMutex`, `GenericCondvar`, `GenericRwLock` |
| the enclave's own futex | `sgx_sync/src/sys/futex.rs` | `Futex`; `AbstractFutex` is what the locks rely on |
| futex-based mutex, condition variable, reader-writer lock | `sgx_sync/src/sys/locks/futex` | `FutexMutex`, `FutexCondvar`, `FutexRwLock` |
| protected files and their recovery | `sgx_protected_fs/tfs/src/sys/file`, `sgx_protected_fs/ufs` | `ProtectedFile`; `AtomicFile` is its promise |
| enclave lifecycle: entry, initialisation, first ECALL, nesting, exit functions, uninitialisation | `sgx_trts/src/enclave`, `call`, `sync/once.rs` | `Enclave` |
| threads created in the enclave: task queue, creation, join | `sgx_trts/src/thread` | `Threads` |
| reserved memory | `sgx_rsrvmm/src/rsrvmm` | `RsrvMem` |
| Once, Barrier, lock fronts, C interface | `sgx_sync/src` | not yet |
| TCS management and EDMM, exceptions, thread-local storage | `sgx_trts/src` | not yet |
| attestation sessions | `sgx_tdh`, `sgx_key_exchange`, `sgx_dcap` | not yet |
| cryptography, sealing, types, serialisation, std and libc ports | the other crates | out of scope, see below |

`PROJECT.json` lists every part with the reason where it is not modelled, the
source lines each definition stands for, and the hazards the properties are
aimed at.

How the modules compose:

    SeEvent  --implements-->  HostEvent
                                 ^ extended by
          GenericMutex <- GenericCondvar     GenericRwLock     Futex
               |                                                 |
               | implements                           implements |
               v                                                 v
          AbstractLock  <--implements--  FutexMutex  --extends--> AbstractFutex
                                             ^                       ^
                                        FutexCondvar            FutexRwLock

    ProtectedFile  --implements-->  AtomicFile

    Threads  --extends-->  Enclave                    RsrvMem

## How the models correspond to the code

**Host events.** `SeEvent` has the `AtomicI32` of each TCS and the states of a
thread in `wait()` and `wake()`; the decrement, `FUTEX_WAIT`, the settling of
its result, the increment and `FUTEX_WAKE` are separate actions. The kernel's
futex is external: a wait compares and sleeps in one step and may end by a
wake, a signal or a timeout. `HostEvent` is the counting event that results:
each set ends one wait, and a wait may also end without one.

**Queue-based locks.** The fields of `Inner` are guarded by a spin lock, so a
critical section is one action. Events are set after the spin lock is released,
which is an action of its own. Variables keep the names of the fields; `pc`,
`waiter` and `wakes` are the locals that live across steps; `held`, `reads` and
`writers` record what each thread was told. Spurious returns of a wait are
always possible. `wait` of the condition variable is `wait_timeout` with a timer
that does not fire.

**Futex.** Items, waiters, hashed buckets and their spin locks. A wake holds
its bucket over the ocall that sets the events, so `lock[b]` is a variable.
`requeue` takes two bucket locks, one step each. Which words share a bucket is
chosen once, in the initial state, so that both cases are checked in one run. An
interrupted wait whose item a requeue has moved leaves that item behind, as the
code does; the refinement maps only the items of waits in progress. A wait that
ends with another error than a timeout may leave its waiter marked or not. The
locks call `futex_wake` with all bits and rely on how many it takes, so the
refinement says that too: one sleeper, or all of them, on a word where no item
was left behind.

**Futex-based locks.** One action per atomic access, in the order of the code;
a compare-and-exchange that may fail spuriously may do so in the model. The
futex is `AbstractFutex`, whose wakes may be spent on a thread that is about to
give up, as those of the code may. Counters that are only compared with an
earlier load (`Condvar::futex`, `writer_notify`) are modelled by the set of
threads whose load is still current. Their wrap after 2^32 steps is left out.

**Protected file.** A handle with its metadata, root and cache, the file and
the recovery file. Every host call of a flush that writes is one action:
truncating the recovery file, saving each node, the update flag, each node, the
metadata, the flush of the stream. A crash is possible before each, and each may
fail; a failed write of a node may leave garbage, and one of the metadata may
leave the new flag with the old contents or a node that does not decrypt.
`clear_error`, `close`, `set_len`, `clear_cache`, the open of an existing or an
empty file in each mode and its recovery (one node per step, which may fail) are
modelled. A node's key and MAC are the number of the flush
that encrypted it: a node decrypts when it is the one its parent names. Data is
counted in whole blocks, block 0 being the user data in the metadata node. A
file has `Attached` data nodes and `Child` MHT nodes per MHT node, 96 and 32 in
the code.

`AtomicFile` promises that the next open finds the last version that was flushed
or the one being flushed. Two steps may break the promise, and
`ImplementsAtomicFile` names both and allows no other (`MayLose`). A write of the
metadata that fails half-way leaves a file that only `clear_error` on the same
handle repairs. And a flush may fail once its update flag is on the disk, by a
failing flush of the stream and a failing write that takes the flag back. The next
flush begins by truncating the recovery file, and a process that dies then leaves
the flag without the recovery file that goes with it.

**Enclave.** A TCS has a stack of the ECALLs in progress, each with the place it
has reached; the host enters any free TCS with any call, and nests a call where
the innermost one is in an ocall. Every access to `ENCLAVE_STATE`, `UNINIT_FLAG`
and the lock of `FIRST_ECALL` is a step of its own. User code (functions called
by an ECALL, constructors, destructors, exit functions) may call `at_exit` and
make ocalls. When an ocall comes back to a crashed enclave `oret` refuses it, and
the call that made it is abandoned with what it holds. The configuration is one
without EDMM, in which the TCS of the runtime initialisation uninitialises. A
failing `rtinit` returns `Unexpected`, which crashes the enclave, or another error,
which leaves the state as it is.

**Threads.** Extends `Enclave`: a thread created inside enters with the `Thread`
call, which goes through the same entry check and first ECALL. `pthread_create`
and the waits are ocalls of the host, which may fail. The host keeps a free TCS
for a thread it made; which of the queued tasks that thread runs is decided by the
queue alone, so that tasks, host threads and creators are three separate things.
A wait may end at any time, as the code waits with a timeout and looks again. A
wait that fails ends its join, but the joiner stays registered: `EndIsAnnounced`
says that the end of a thread is announced to a thread that joins it, unless the
registered one has left in this way.

**Reserved memory.** `vrds` is the list of areas; every operation runs under one
lock and is one action. `mapped` records what callers asked for and is what the
list is compared with; `prot` is what the host was last asked for and `epc` what
was accepted under EDMM. Two things are modelled as the code has them: the
permission recorded in an area does not change after `mmap`, and `Force` frees
nothing: the range it passes on ends below its start, which a build with debug
assertions refuses with a panic. `PlacementIsRight` is about all other requests, and
about a `Force` of free pages. Addresses are pages, and larger than any size.

## The runs

| run | checks | bounds |
|---|---|---|
| `SeEvent` | an event is never lost between the counter and the kernel; the code implements `HostEvent`; a wait with an event pending returns | 3 TCSs, 2 unconsumed events |
| `GenericMutex` | no lost wakeup; the queue is exactly the blocked threads; events do not pile up; implements `AbstractLock`; every `lock()` returns | 3 threads, both kinds of mutex, 2 recursive locks |
| `GenericCondvar` | the mutex loses no wakeup beside it; a notified thread is woken and returns; a timeout leaves no queue entry | 3 threads |
| `GenericRwLock` | readers or one writer; nobody is left behind; a free lock is taken again | 3 threads, 2 reads each, 2 events |
| `Futex` | no lost wake, and a sleeper can be found wherever requeues moved it; requeues do not wait for each other; implements `AbstractFutex`; a wake with all bits takes one sleeper or all | 3 threads, 2 words in one bucket or in two, 2 bitsets of one bit each, wakes of 1 and 2, requeues of 1 |
| `FutexCondvar` | sleepers are covered; the mutex implements `AbstractLock`; a notified wait leaves; a free mutex is taken | 3 threads |
| `FutexRwLock` | readers or one writer, at a full reader count too; the assertion of `read_unlock`; sleepers are marked; an unlocked lock is taken | 3 threads, `MaxReaders` 2 |
| `ProtectedFile` | every block can be read through the handle; flushed data is on the disk; implements `AtomicFile` with its two exceptions | 3 blocks on 2 levels, 2 encrypting flushes, 2 failing host calls, any number of crashes |
| `Enclave` | the lock of `FIRST_ECALL` has a holder unless the enclave has crashed; constructors run once and first; destructors at most once and after every accepted exit function | 2 TCSs, 2 nested calls, 2 exit functions, 2 rounds of cleanup (10 in the code) |
| `Threads` | tasks, host threads and waiting creators match; `Thread::new` tells the truth; the end of a thread is announced to one that joins it | 3 TCSs, 2 threads, no nesting |
| `RsrvMem` | the list of areas is what was mapped; the best free range is found, `Force` of mapped pages apart; mapped pages are backed; `mprotect` leaves holes alone | 4 pages, 1 there from the start, 2 areas, 1 object, 2 permissions, EDMM |

Three threads are what a lost wakeup needs: a holder, a sleeper, and one that
overtakes, times out or is woken in its place. Two blocks in data nodes with one
child per node give a data node below the root and one a level deeper; two
encrypting flushes give an old version to fall back on. `set_len` is called with
the lengths 1 and 3: it shrinks to the metadata node and grows to the bound.
Two TCSs are the one that initialises and another that calls at the same time;
three give two creators and a TCS for a host thread. Two areas of four pages can
be cut, leave a hole between them and join on either side. Larger instances of
`RsrvMem` (no bound on the areas; three pages with two offsets) and one without
EDMM were checked as well, with the same result.
`Futex` uses symmetry in its threads, words and bits, which no definition tells apart.
`Enclave` and `Threads` do not check for deadlock: a crashed enclave accepts no
call, and the model stops there.

One run shows where the code departs from what is said of it. In
`ProtectedFileUpdate` a node read from the disk keeps `new_node`, so the next
flush does not save its old contents in the recovery file. A crash while the
nodes are written leaves a file that recovery does not repair.

Other departures are part of the models, and are listed with the hazards:

- `futex_wake` "Returns true if this actually woke up such a thread"
  (`sgx_sync/src/sys/locks/futex/wait.rs:47`), but a waiter that timed out is
  still in its bucket for a moment, and a wake counts it.
- After `set_len` has shrunk a file the old nodes are still in the cache. An append
  meets them and fails, `write` returns `Ok(0)`, and the loop of `set_len` never
  ends (`SetLenReturns` in `ProtectedFile`, which TLC refutes).
- `rtinit` ends by setting `InitDone` whatever the state has become, so that a
  crash during the initialisation is forgotten. `LockHasHolder` shows what this does
  no harm to: the enclave that is revived has not left its lock behind.
- `MmArea`s are copied before `apply_perm`, so that a second `mprotect` may do
  nothing; pages that were accepted before a failed `mmap`
  make the next one fail.
- `Force` of pages that are mapped fails with `ENOMEM`: `MmRange::from_unchecked` takes
  an end, `find_free_range` gives it a size (`manager.rs:174`), and nothing is freed,
  although `map.rs:194` says "Force using the address by free first"
  (`ForceIsPlaced` in `RsrvMem`, which TLC refutes).

Hazards met in the code that no property covers, besides those in `PROJECT.json`:

- an interrupted `futex_wait` starts again with its whole timeout;
- an ocall of a constructor that cannot come back to a crashed enclave leaves the
  lock of `FIRST_ECALL` taken, and calls already inside spin on it;
- a joiner whose wait fails stays registered, later joins are refused, and one that
  passed the check before lives on its timeout (the exception in `EndIsAnnounced`);
- a thread-local key that is destroyed and created again shows old values;
- the slice over the dynamic entry table has `nr_ocall` bytes and is indexed by
  ocall and ecall (`call/ecall.rs:232`);
- an area of reserved memory that joins its right neighbour does not move the
  offset of the object;
- `update_nodes` may fail between two nodes, and the result of the `fclose` of the
  recovery file is dropped.

The passing run of the protected file therefore uses `Spec`, in which a file is
written only by the handle that created it and then read; `UpdateSpec` adds what
makes a handle write to a node it has read.

## Fairness

Safety needs none. For liveness a thread that is inside an operation and can
run does so, and a wait with its event set returns: the host's scheduler runs
its threads, and the kernel delivers wakes. Signals and timeouts are never
counted on. Only two runs need a client to act. In `GenericMutex` and
`GenericCondvar` a holder unlocks, and in `GenericMutex` a recursive holder
does not keep its last lock for ever (strong fairness of the final unlock). No
fairness is assumed of a client that could start an operation.

## What is proved

For any set of threads and any value of the other constants, with TLAPS:

- `SeEventProofs`: `TypeCorrect`, `EventNotLost` and `EventImplementsHostEvent`.
  The inductive invariant is `TypeOK`, `NoLostEvent`, and two facts about a
  thread that is back from the kernel: `EAGAIN` means that an event came first
  (`EagainMeansEvent`), and its result is one the settling knows (`ResultOK`).
  Without the first, settling could take the counter below what was set.
  Assumed: `MaxVal` is a positive number.
- `GenericMutexProofs`: `TypeCorrect`, `Exclusion`, `WakeupNotLost` and
  `MutexImplementsLock`. The inductive invariant is `TypeOK`, `HeldByOwner`
  (what threads were told agrees with `owner` and `refcount`), `NoLostWakeup`,
  and `LocalOK` (only a thread inside `lock()` waits, and only one in `unlock()`
  has another to wake). `NoLostWakeup` is not inductive alone: it needs to know
  that a thread that is running is not also parked. Assumed: `None` is no
  thread, a mutex is recursive or not, `MaxRef` is a positive number.

- `FutexMutexProofs`: `Exclusion`, `SleepersCovered` and `MutexImplementsLock`.
  The inductive invariant is `TypeOK`, `Exclusive`, `SleepersAreCovered` and
  `QueuedIsAsleep` (a queued thread is in the futex). Without the last a wake
  could be spent on a thread that is not about to mark the mutex again.
  Assumed: the mutex has a word.
- `FutexCondvarProofs`: `CvSleepersCovered` and `CvImplementsLock`, the same of
  the mutex with waits and notifications on it, which is the specification the
  run `FutexCondvar` checks. The invariant adds that a thread inside the condition
  variable is not inside `lock()` (`InCondvar`). Assumed: the condition variable
  has a word as well.
- `FutexRwLockProofs`: `Exclusion` and `ReadersWaitBehindWriters`. The invariant
  counts: the reader count is the number of threads that were told they read, and
  a thread inside an operation holds nothing (`OwnOK`, `Counted`). It leaves the
  futex queues out: exclusion does not rest on who is woken. Assumed: the lock has
  its two words and `MaxReaders` is positive.
- `EnclaveProofs`: `ConstructorsFirst`, `DestructionOnce` and `LockHeld`, for
  any TCSs and any depth of nesting. The invariant says of each call on each stack
  what is true while it is at its place (`FrameOK`: the constructors and the cleanup
  hold the lock of `FIRST_ECALL`, only the TCS of the runtime initialisation is past
  the check of `rtuninit`), that only one call is at the places of each kind
  (`AllAlone`), and that a call with another nested in it is in an ocall (`StackOK`).
  `DestroyedOnce` needs all three: a second `rtuninit` that passes the check before
  the flag is stored would be on the same TCS, so the first would be in an ocall,
  and it makes none there. `LockHeld` adds that while the enclave has not crashed
  the lock, if it is taken, is held by a call on a stack (`HeldInv`). A call
  that has the lock is abandoned only in a crashed enclave. `rtinit` is the only call
  that undoes a crash, and `HeldInv` also says that the lock is taken only after some
  TCS was initialised, which a running `rtinit` excludes. Assumed: the host calls are
  those of the entry point, `MaxDepth` and `Iters` are positive, `None` is no TCS or
  function.
- `AtExitProofs`: `ExitFunctions`, for any functions and number of rounds. Each
  accepted function is in the queue, in the list of the round or has run, in one
  of them and once (`EachOnce`), and the lists are empty where `rtuninit` relies on
  it (`EmptyAt`). It rests on the invariant of `EnclaveProofs`, by which only one
  call is in the cleanup.

The proofs follow the actions, one step each, and below it one per conjunct that
the action can disturb. The refinements use the same invariants. The theorems about
`Enclave` are about `EnclaveSpec`; that the composition with threads keeps them is
not proved.

Only model-checked: everything else. Liveness under fairness and `ENABLED` are
beyond the prover, and so is what recursive definitions compute for every input,
which the tree of a protected file rests on.

## What is not modelled

- Time. A timed wait is one that may end at any moment.
- Weak memory. An atomic access is one step in one total order; the locks use
  acquire and release on single words.
- Protected files: eviction from a full cache, partial blocks, rename, key
  import and export, failures of the cryptography, a lock poisoned by a
  panic, and loss of data that the host's kernel had accepted (the code never calls
  fsync).
- The enclave under EDMM (dynamic TCSs, trimming, and who may uninitialise then),
  exceptions, thread-local storage, the tables of allowed nested calls, and
  switchless calls. They need the SGX2 instructions or the layout of the
  enclave image as an environment.
- The contents of objects mapped into reserved memory.
- Cryptography, sealing, serialisation, formatting and the ports of std and libc:
  pure functions over bytes, or straight calls to the host. They are most of the
  lines of the repository.

## Plan

1. `Once`, `OnceLock` and `LazyLock`; `Barrier` on the condition variables.
2. Eviction in the protected file; attestation sessions; exceptions.
3. The enclave under EDMM.
4. Proofs: `ReadersXorWriter` of `GenericRwLock`; `NoLostWakeup` of the
   condition variable; `SleepersAreMarked` of `FutexRwLock`; the refinement of
   `AbstractFutex` by `Futex`; the lifecycle with threads.
