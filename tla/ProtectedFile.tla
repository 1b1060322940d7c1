---------------------------- MODULE ProtectedFile ----------------------------
(***************************************************************************)
(* A protected file (sgx_protected_fs): the handle in the enclave          *)
(* (tfs/src/sys/file), the file and its recovery file on the host          *)
(* (ufs/src/lib.rs), and crashes of the process between any two calls to   *)
(* the host.  One step per host call that writes; the handle's mutex makes *)
(* its operations sequential.                                              *)
(*                                                                         *)
(* Data is counted in blocks: block 0 is the user data inside the metadata *)
(* node, block b > 0 fills one data node.  A node is encrypted with a      *)
(* fresh key and its key and MAC are kept in its parent, up to the root    *)
(* and the metadata: this binding is modelled by the number of the flush   *)
(* that encrypted the node.                                                *)
(***************************************************************************)
EXTENDS Naturals, Sequences, FiniteSets, SequencesExt, FiniteSetsExt, TLC

CONSTANTS
    None,          \* no file, no handle
    Values,        \* what a block may hold, besides 0
    Attached,      \* ATTACHED_DATA_NODES_COUNT
    Child,         \* CHILD_MHT_NODES_COUNT
    MaxBlocks,     \* bound on the size of the file
    Lengths,       \* the lengths set_len is called with
    MaxFlushes,    \* bound on the flushes that encrypt
    MaxFaults      \* bound on the host calls that fail

ASSUME BoundsAssumption ==
    /\ Attached \in Nat \ {0} /\ Child \in Nat \ {0}
    /\ MaxBlocks \in Nat \ {0, 1} /\ MaxFlushes \in Nat /\ MaxFaults \in Nat
    /\ 0 \notin Values /\ Lengths \subseteq 0..MaxBlocks

VARIABLES
    disk,          \* the host's file: its nodes by physical number; no node if the
                   \* file is empty or not there
    recovery,      \* the recovery file: None or a sequence of nodes
    pc,            \* where the handle's owner is, see TypeOK
    caller,        \* the operation that flushes, see TypeOK
    todo,          \* the nodes the loop of the current step has still to write
    mode,          \* "w", "r", "r+", "a"
    meta,          \* metadata: its plain part, and .node, as encrypted last
    cache,         \* root_mht and the cached nodes, by physical number
    need_writing, status, last_error,   \* the fields of FileInner
    view,          \* the contents the handle shows: its user's view
    flushes,       \* how often nodes were encrypted
    faults         \* how many host calls failed

handle == <<mode, meta, cache, need_writing, status, last_error, view>>
host == <<disk, recovery>>
vars == <<host, pc, caller, todo, handle, flushes, faults>>
-----------------------------------------------------------------------------
(* The tree of nodes *)

META == 0
ROOT == 1
MhtLogic(b) == (b - 1) \div Attached
MhtNode(l) == 1 + l * (Attached + 1)
DataNode(b) == (b - 1) + 1 + 1 + MhtLogic(b)

Mhts == {MhtNode(l) : l \in 0..MhtLogic(MaxBlocks - 1)}
DataNodes == {DataNode(b) : b \in 1..(MaxBlocks - 1)}
Nodes == Mhts \cup DataNodes

\* The MHT node that holds the key of node p.
Parent(p) == LET logic == (p - 1) \div (Attached + 1)
             IN  MhtNode(IF (p - 1) % (Attached + 1) = 0 THEN (logic - 1) \div Child
                         ELSE logic)

Children(p) == {q \in Nodes \ {ROOT} : Parent(q) = p}

Ancestors == LET anc[p \in Nodes] ==
                     IF p = ROOT THEN {} ELSE {Parent(p)} \cup anc[Parent(p)]
             IN  anc

\* The plaintext of a new node: no keys, or zeros.
Blank(p) == IF p \in Mhts THEN [q \in Children(p) |-> 0] ELSE 0

\* Ciphertext made by flush number "by".
Cipher(by, plain) == [by |-> by, plain |-> plain]

\* FileNode::new
NewNode(p) == [plain |-> Blank(p), cipher |-> Cipher(0, Blank(p)),
               dirty |-> FALSE, new |-> TRUE]

\* The metadata node as the host stores it: the update flag in the clear, and the
\* encrypted part, sealed once it was encrypted.
MetaNode(flag, sealed, m) ==
    [flag |-> flag, sealed |-> sealed, size |-> m.size, data |-> m.data, root |-> m.root]

NewMeta == LET blank == [size |-> 0, data |-> 0, root |-> 0]
           IN  blank @@ ("node" :> MetaNode(FALSE, FALSE, blank))

Versions == UNION {[1..n -> Values \cup {0}] : n \in 0..MaxBlocks}

\* Node p of the file d is the one whose key and MAC its parent holds: it decrypts.
Decrypts(d, p) ==
    /\ p \in DOMAIN d
    /\ d[p].by = IF p = ROOT THEN d[META].root ELSE d[Parent(p)].plain[p]

\* The nodes of a file of that size.
NodesOf(size) == IF size <= 1 THEN {}
                 ELSE {MhtNode(l) : l \in 0..MhtLogic(size - 1)}
                         \cup {DataNode(b) : b \in 1..(size - 1)}

\* What a file d with its update flag clear holds, None if it cannot be read.
ReadBack(d) ==
    IF /\ META \in DOMAIN d /\ ~d[META].flag /\ d[META].sealed
       /\ NodesOf(d[META].size) \subseteq DOMAIN d
       /\ \A p \in NodesOf(d[META].size) : Decrypts(d, p)
    THEN [i \in 1..d[META].size |->
            IF i = 1 THEN d[META].data ELSE d[DataNode(i - 1)].plain]
    ELSE None

Put(d, p, node) == (p :> node) @@ d

\* host::recovery: the saved nodes back into the file; no node is saved twice.
Recovered(d, saved) ==
    [p \in DOMAIN d \cup {saved[i].num : i \in DOMAIN saved} |->
        IF \E i \in DOMAIN saved : saved[i].num = p
        THEN saved[CHOOSE i \in DOMAIN saved : saved[i].num = p].node
        ELSE d[p]]

\* What the next open of the file finds, after recovery if that is needed.
Durable == IF META \in DOMAIN disk /\ disk[META].flag
           THEN IF recovery = None THEN None ELSE ReadBack(Recovered(disk, recovery))
           ELSE ReadBack(disk)
-----------------------------------------------------------------------------
(* Finding a node: file/node.rs.  Each operator returns the cache and whether *)
(* the node is in it.                                                         *)

Got(ok, c) == [ok |-> ok, cache |-> c]

\* Reads a node from the disk; decrypt fails unless the parent holds its key.
Fetch(p, c) ==
    IF p \in DOMAIN disk /\ disk[p].by = c[Parent(p)].plain[p]
    THEN Got(TRUE, c @@ (p :> [NewNode(p) EXCEPT !.plain = disk[p].plain,
                                                 !.cipher = disk[p]]))
    ELSE Got(FALSE, c)

\* cache.push refuses a node that is there.
Add(p, c) == IF p \in DOMAIN c THEN Got(FALSE, c) ELSE Got(TRUE, c @@ (p :> NewNode(p)))

read_mht_node(logic, c) ==
    LET read[l \in 0..logic] ==
            IF MhtNode(l) \in DOMAIN c THEN Got(TRUE, c)
            ELSE LET up == read[(l - 1) \div Child]
                 IN  IF up.ok THEN Fetch(MhtNode(l), up.cache) ELSE up
    IN  read[logic]

append_mht_node(l, c) ==
    LET up == read_mht_node((l - 1) \div Child, c)
    IN  IF up.ok THEN Add(MhtNode(l), up.cache) ELSE up

get_mht_node(b, size, c) ==
    IF MhtLogic(b) # 0 /\ (b - 1) % Attached = 0 /\ b = size
    THEN append_mht_node(MhtLogic(b), c)
    ELSE read_mht_node(MhtLogic(b), c)

get_data_node(b, size, c) ==
    IF b # size /\ DataNode(b) \in DOMAIN c THEN Got(TRUE, c)
    ELSE LET mht == get_mht_node(b, size, c)
         IN  CASE ~mht.ok -> mht
               [] mht.ok /\ b = size -> Add(DataNode(b), mht.cache)
               [] mht.ok /\ b # size -> Fetch(DataNode(b), mht.cache)
-----------------------------------------------------------------------------
(* Changing the handle: file/write.rs, file/other.rs.  The changed part of the *)
(* handle is a record, so that set_len can write several blocks.               *)

Dirty(c, S) == [p \in DOMAIN c |-> IF p \in S THEN [c[p] EXCEPT !.dirty = TRUE] ELSE c[p]]

Here == [meta |-> meta, cache |-> cache, need |-> need_writing, view |-> view, ok |-> TRUE]

\* Mutant of PutBlock: the parents of a changed node are not marked.
PutBlockUnmarked(s, b, v) ==
    LET got == get_data_node(b, s.meta.size, s.cache)
        seen == IF b = s.meta.size THEN Append(s.view, v) ELSE [s.view EXCEPT ![b + 1] = v]
        grown == [s.meta EXCEPT !.size = IF b = @ THEN b + 1 ELSE @]
    IN  CASE b = 0 -> [s EXCEPT !.meta = [grown EXCEPT !.data = v],
                                !.need = TRUE, !.view = seen]
          [] b > 0 /\ ~got.ok -> [s EXCEPT !.cache = got.cache, !.ok = FALSE]
          [] b > 0 /\ got.ok ->
               [s EXCEPT !.meta = grown, !.view = seen, !.need = TRUE,
                         !.cache = [got.cache EXCEPT ![DataNode(b)].plain = v,
                                                     ![DataNode(b)].dirty = TRUE]]

\* FileInner::write of v to block b, which is at most the size of the file.  When
\* the node cannot be had the write is cut short.
PutBlock(s, b, v) ==
    LET got == get_data_node(b, s.meta.size, s.cache)
        p == DataNode(b)
        seen == IF b = s.meta.size THEN Append(s.view, v) ELSE [s.view EXCEPT ![b + 1] = v]
        grown == [s.meta EXCEPT !.size = IF b = @ THEN b + 1 ELSE @]
    IN  CASE b = 0 -> [s EXCEPT !.meta = [grown EXCEPT !.data = v],
                                !.need = TRUE, !.view = seen]
          [] b > 0 /\ ~got.ok -> [s EXCEPT !.cache = got.cache, !.ok = FALSE]
          [] b > 0 /\ got.ok ->
               LET written == [got.cache EXCEPT ![p].plain = v]
               IN  [s EXCEPT !.meta = grown, !.view = seen,
                       !.cache = IF written[p].dirty THEN written
                                 ELSE Dirty(written, {p} \cup Ancestors[p]),
                       !.need = @ \/ ~written[p].dirty]

\* The zeros set_len writes, until a write is cut short.
PutZeros(s, from, to) ==
    FoldLeft(LAMBDA t, i : IF t.ok THEN PutBlock(t, from + i - 1, 0) ELSE t,
             s, [i \in 1..(to - from) |-> i])

Becomes(s) == /\ meta' = s.meta /\ cache' = s.cache
              /\ need_writing' = s.need /\ view' = s.view

Idle == pc = "open" /\ status = "Ok"

Write(b, v) ==
    /\ Idle /\ mode # "r" /\ b <= meta.size
    /\ mode = "a" => b = meta.size
    /\ LET s == PutBlock(Here, b, v)
       IN  /\ Becomes(s)
           /\ last_error' = (last_error \/ ~s.ok)
    /\ UNCHANGED <<host, pc, caller, todo, mode, status, flushes, faults>>

\* FileInner::read of a block of a data node: only the cache changes.
Read(b) ==
    /\ Idle /\ mode \in {"r", "r+"} /\ b < meta.size
    /\ LET got == get_data_node(b, meta.size, cache)
       IN  /\ cache' = got.cache
           /\ last_error' = (last_error \/ ~got.ok)
    /\ UNCHANGED <<host, pc, caller, todo, mode, meta, need_writing, status, view,
                   flushes, faults>>

\* One of these operations, or flush, on a handle whose last flush failed, a write
\* to a handle opened for reading or a read from one opened for writing: the error is
\* kept.  A lock that a panic poisoned is not modelled.
Refused ==
    /\ pc = "open" /\ (status # "Ok" \/ mode # "r+")
    /\ last_error' = TRUE
    /\ UNCHANGED <<host, pc, caller, todo, mode, meta, cache, need_writing, status, view,
                   flushes, faults>>

\* FileInner::set_len.  A write that is cut short returns Ok(0), and the loop
\* goes round for ever.  Without the right to write, growing fails and shrinking
\* only forgets the end.
SetLen(n) ==
    /\ Idle /\ n # meta.size
    /\ LET denied == mode = "r" /\ n > meta.size
           s == IF mode = "r" THEN Here
                ELSE PutZeros(Here, Min({n, meta.size}), Max({n, meta.size}))
       IN  /\ Becomes(IF denied \/ ~s.ok THEN s
                      ELSE [s EXCEPT !.meta.size = n, !.view = SubSeq(@, 1, n)])
           /\ pc' = IF s.ok THEN "open" ELSE "stuck"
           /\ last_error' = (last_error \/ denied \/ ~s.ok)
    /\ UNCHANGED <<host, caller, todo, mode, status, flushes, faults>>
-----------------------------------------------------------------------------
(* internal_flush, one step per call to the host *)

DirtyNodes == {p \in DOMAIN cache : cache[p].dirty}
is_need_write_node == meta.size > 1 /\ cache[ROOT].dirty

\* Mutant of EncryptNode: the key of the node is not kept in its parent.
EncryptNodeAlone(c, p, by) == [c EXCEPT ![p].cipher = Cipher(by, c[p].plain)]

\* FileNode::encrypt: the new key goes into the parent.
EncryptNode(c, p, by) ==
    LET e == [c EXCEPT ![p].cipher = Cipher(by, c[p].plain)]
    IN  IF p = ROOT THEN e ELSE [e EXCEPT ![Parent(p)].plain[p] = by]

\* The order of the nodes that update_nodes encrypts: data, and then the MHT nodes
\* from the last to the first, the root at the end.
EncryptOrder(c) ==
    LET data == {p \in DataNodes \cap DOMAIN c : c[p].dirty}
        mhts == {p \in Mhts \cap DOMAIN c : p # ROOT /\ c[p].dirty}
    IN  SetToSeq(data) \o SetToSortSeq(mhts, LAMBDA p, q : p > q) \o <<ROOT>>

update_nodes(c, by) ==
    LET data == {p \in DataNodes \cap DOMAIN c : c[p].dirty}
        marked == Dirty(c, UNION {Ancestors[p] : p \in data} \ {ROOT})
    IN  FoldLeft(LAMBDA e, p : EncryptNode(e, p, by), marked, EncryptOrder(marked))

\* MetadataInfo::encrypt
update_metadata(m) == [m EXCEPT !.node = MetaNode(FALSE, TRUE, m)]

\* A flush ends without an error, and its caller goes on.
Return(by) ==
    /\ caller' = None
    /\ need_writing' = FALSE
    /\ status' = "Ok"
    /\ pc' = CASE by = "close" -> "closing" [] by = "clear_cache" -> "drop"
               [] OTHER -> "open"
    /\ UNCHANGED <<mode, meta, cache, last_error, view>>

\* ... or with one, kept in last_error by all the operations but close.
Failed(newStatus) ==
    /\ status' = newStatus
    /\ last_error' = (last_error \/ caller # "close")
    /\ pc' = "open" /\ todo' = {} /\ caller' = None
    /\ UNCHANGED <<mode, meta, cache, need_writing, view, flushes>>

Fault == faults < MaxFaults /\ faults' = faults + 1
Fail(newStatus) == Fault /\ Failed(newStatus)

\* internal_flush up to its first call to the host.  A flush that writes nodes
\* saves first what they were on the disk.
internal_flush(by) ==
    /\ CASE ~need_writing -> Return(by) /\ UNCHANGED todo
         [] need_writing /\ is_need_write_node ->
              /\ flushes < MaxFlushes
              /\ caller' = by
              /\ pc' = "recovery" /\ todo' = {p \in DirtyNodes : ~cache[p].new}
              /\ UNCHANGED handle
         [] need_writing /\ ~is_need_write_node ->
              /\ caller' = by /\ pc' = "write" /\ todo' = {}
              /\ meta' = update_metadata(meta)
              /\ UNCHANGED <<mode, cache, need_writing, status, last_error, view>>
    /\ UNCHANGED <<host, flushes, faults>>

\* RecoveryFile::open truncates.
OpenRecovery ==
    /\ pc = "recovery"
    /\ \/ /\ recovery' = <<>> /\ pc' = "save"
          /\ UNCHANGED <<disk, caller, todo, handle, flushes, faults>>
       \/ Fail("FlushError") /\ recovery' = None /\ UNCHANGED disk

\* The nodes in the order of the cache, the root, and the metadata.
NextNodes == IF todo \subseteq {ROOT} THEN todo ELSE todo \ {ROOT}

Saved(num, node) == [num |-> num, node |-> node]

SaveNode ==
    /\ pc = "save"
    /\ \/ \E p \in NextNodes :
             /\ recovery' = Append(recovery, Saved(p, cache[p].cipher))
             /\ todo' = todo \ {p}
             /\ UNCHANGED <<disk, pc, caller, handle, flushes, faults>>
       \/ /\ todo = {}
          /\ recovery' = Append(recovery, Saved(META, meta.node))
          /\ pc' = "flag"
          /\ UNCHANGED <<disk, caller, todo, handle, flushes, faults>>
       \/ Fail("FlushError") /\ recovery' = None /\ UNCHANGED disk

\* What a write of node to the metadata may leave behind when it fails.  It is cut
\* short before the update flag or after it, and what was in place of the node follows:
\* a mixture that does not decrypt, unless both differ in the flag alone.  A file that
\* had no metadata is too short to be read.
TornMetadata(node) ==
    {disk} \cup
    IF META \notin DOMAIN disk
    THEN {Put(disk, META, [node EXCEPT !.flag = FALSE, !.sealed = FALSE])}
    ELSE {Put(disk, META, [node EXCEPT !.sealed =
                              @ /\ [disk[META] EXCEPT !.flag = node.flag] = node])}

\* Mutant of SetUpdateFlag: the flag is cleared too early.
SetUpdateFlagCleared ==
    /\ pc = "flag"
    /\ disk' = Put(disk, META, meta.node)
    /\ pc' = "flush"
    /\ UNCHANGED <<recovery, caller, todo, handle, flushes, faults>>

\* set_update_flag: the metadata as encrypted last, with the flag, and a flush of
\* the stream.  A write that fails may leave the flag on the disk.
SetUpdateFlag ==
    /\ pc = "flag"
    /\ \/ /\ disk' = Put(disk, META, [meta.node EXCEPT !.flag = TRUE])
          /\ pc' = "flush"
          /\ UNCHANGED <<recovery, caller, todo, handle, flushes, faults>>
       \/ /\ Fail("FlushError")
          /\ disk' \in TornMetadata([meta.node EXCEPT !.flag = TRUE])
          /\ UNCHANGED recovery

\* The flush of the stream.  When it succeeds the nodes and the metadata are
\* encrypted; when it fails the flag is taken back, by a write whose own failure is
\* ignored.
FlushFlag ==
    /\ pc = "flush"
    /\ \/ LET c == update_nodes(cache, flushes + 1)
          IN  /\ cache' = c
              /\ meta' = update_metadata([meta EXCEPT !.root = flushes + 1])
              /\ flushes' = flushes + 1
              /\ pc' = "write" /\ todo' = {p \in DOMAIN c : c[p].dirty}
              /\ UNCHANGED <<host, caller, mode, need_writing, status, last_error, view,
                             faults>>
       \/ /\ Fail("FlushError")
          /\ disk' \in {Put(disk, META, meta.node)}
                          \cup {d \in {disk} : faults + 1 < MaxFaults}
          /\ UNCHANGED recovery

\* write_to_disk: the nodes in the order of the cache, the root.  A write that
\* fails may leave anything in the node.
WriteNode ==
    /\ pc = "write"
    /\ \E p \in NextNodes :
          \/ /\ disk' = Put(disk, p, cache[p].cipher)
             /\ cache' = [cache EXCEPT ![p].dirty = FALSE, ![p].new = FALSE]
             /\ todo' = todo \ {p}
             /\ UNCHANGED <<recovery, pc, caller, mode, meta, need_writing, status,
                            last_error, view, flushes, faults>>
          \/ /\ Fail("WriteToDiskFailed")
             /\ disk' \in {disk, Put(disk, p, Cipher(0, Blank(p)))}
             /\ UNCHANGED recovery

\* ... and the metadata, with the flag clear.  The stream of a handle opened for
\* reading, which has something to write if the file was empty, takes no write.
WriteMetadata ==
    /\ pc = "write" /\ todo = {}
    /\ \/ /\ mode # "r"
          /\ disk' = Put(disk, META, meta.node)
          /\ pc' = "sync"
          /\ UNCHANGED <<recovery, caller, todo, handle, flushes, faults>>
       \/ /\ mode # "r" /\ Fail("WriteToDiskFailed")
          /\ disk' \in TornMetadata(meta.node)
          /\ UNCHANGED recovery
       \/ /\ mode = "r" /\ Failed("WriteToDiskFailed")
          /\ UNCHANGED <<host, faults>>

Sync ==
    /\ pc = "sync"
    /\ \/ Return(caller) /\ UNCHANGED <<host, todo, flushes, faults>>
       \/ Fail("WriteToDiskFailed") /\ UNCHANGED host
-----------------------------------------------------------------------------
(* The operations that flush *)

Flush == Idle /\ need_writing /\ internal_flush("flush")

\* FileInner::clear_error of a handle whose last flush failed.
Repair(by) ==
    IF status = "WriteToDiskFailed"
    THEN /\ caller' = by
         /\ pc' = "write" /\ todo' = IF is_need_write_node THEN DirtyNodes ELSE {}
         /\ UNCHANGED <<host, handle, flushes, faults>>
    ELSE internal_flush(by)

ClearError ==
    /\ pc = "open"
    /\ IF status = "Ok"
       THEN /\ last_error' = FALSE
            /\ UNCHANGED <<host, pc, caller, todo, mode, meta, cache, need_writing,
                           status, view, flushes, faults>>
       ELSE Repair("clear_error")

ClearCache ==
    /\ pc = "open"
    /\ IF status = "Ok" THEN internal_flush("clear_cache") ELSE Repair("clear_cache")

\* The loop of clear_cache: from the end of the list up to a node that needs
\* writing, which is lost.
DropCache ==
    /\ pc = "drop" /\ pc' = "open"
    /\ LET dirty == DirtyNodes \ {ROOT}
       IN  \E lost \in SUBSET (DOMAIN cache \ {ROOT}) :
              /\ IF dirty = {} THEN lost = DOMAIN cache \ {ROOT}
                               ELSE Cardinality(lost \cap dirty) = 1
              /\ \A p \in DOMAIN cache \ (lost \cup {ROOT}) : Parent(p) \notin lost
              /\ cache' = [p \in DOMAIN cache \ lost |-> cache[p]]
              /\ last_error' = (last_error \/ dirty # {})
    /\ UNCHANGED <<host, caller, todo, mode, meta, need_writing, status, view, flushes,
                   faults>>

Close ==
    /\ pc = "open"
    /\ IF status = "Ok" THEN internal_flush("close") ELSE Repair("close")

\* No handle: its variables have the values of a handle never opened.
NoHandle ==
    /\ pc' = "closed" /\ caller' = None /\ todo' = {}
    /\ mode' = None /\ meta' = NewMeta /\ cache' = (ROOT :> NewNode(ROOT))
    /\ need_writing' = FALSE /\ status' = "Closed" /\ last_error' = FALSE
    /\ view' = None

\* remove_recovery_file, unless something failed since clear_error was last called.
CloseDone ==
    /\ pc = "closing"
    /\ recovery' = IF last_error THEN recovery ELSE None
    /\ NoHandle
    /\ UNCHANGED <<disk, flushes, faults>>

\* The process dies, or gives up a handle that it cannot close.
Crash ==
    /\ pc # "closed"
    /\ NoHandle
    /\ UNCHANGED <<host, flushes, faults>>
-----------------------------------------------------------------------------
(* Opening: file/open.rs *)

Handle(m, how) ==
    /\ pc' = "open" /\ status' = "Ok" /\ last_error' = FALSE
    /\ mode' = how /\ meta' = m
    /\ todo' = {} /\ caller' = None

NewFile(how) ==
    /\ Handle(NewMeta, how)
    /\ cache' = (ROOT :> NewNode(ROOT))
    /\ need_writing' = TRUE
    /\ view' = <<>>

\* Mode "w": check_file_exist removes the file, but not its recovery file.
Create ==
    /\ pc = "closed"
    /\ disk' = [p \in {} |-> None]
    /\ NewFile("w")
    /\ UNCHANGED <<recovery, flushes, faults>>

\* open_file of the file d: the metadata and, if it has data nodes, the root must
\* decrypt.  The view of a file that has lost a node is of no interest.
Opens(d) == LET m == d[META]
            IN  ~m.flag /\ m.sealed /\ (m.size > 1 => Decrypts(d, ROOT))

open_file(d, how) ==
    LET m == d[META]
    IN  /\ Handle([size |-> m.size, data |-> m.data, root |-> m.root, node |-> m], how)
        /\ cache' = ROOT :> IF m.size > 1
                            THEN [plain |-> d[ROOT].plain, cipher |-> d[ROOT],
                                  dirty |-> FALSE, new |-> FALSE]
                            ELSE NewNode(ROOT)
        /\ need_writing' = FALSE
        /\ view' = IF ReadBack(d) # None THEN ReadBack(d) ELSE [i \in 1..m.size |-> 0]

\* A file that is not there is not opened for reading, but an empty one is.  A file
\* whose metadata was never written completely is refused.
Open(how) ==
    /\ pc = "closed"
    /\ \/ /\ DOMAIN disk = {} /\ NewFile(how) /\ UNCHANGED <<host, flushes, faults>>
       \/ /\ META \in DOMAIN disk /\ Opens(disk)
          /\ open_file(disk, how) /\ UNCHANGED <<host, flushes, faults>>
       \/ /\ META \in DOMAIN disk /\ disk[META].flag /\ recovery # None
          /\ pc' = "recover" /\ mode' = how /\ todo' = 1..Len(recovery)
          /\ UNCHANGED <<host, caller, meta, cache, need_writing, status, last_error,
                         view, flushes, faults>>

\* host::recovery: one node after the other, and then the recovery file goes.  When
\* a write fails so does open, and the recovery file stays.
Recover ==
    /\ pc = "recover" /\ todo # {}
    /\ LET s == recovery[Min(todo)]
       IN  \/ /\ disk' = Put(disk, s.num, s.node)
              /\ todo' = todo \ {Min(todo)}
              /\ UNCHANGED <<recovery, pc, caller, handle, flushes, faults>>
           \/ /\ Fault /\ NoHandle
              /\ disk' \in IF s.num = META THEN TornMetadata(s.node)
                           ELSE {disk, Put(disk, s.num, Cipher(0, Blank(s.num)))}
              /\ UNCHANGED <<recovery, flushes>>

Reopen ==
    /\ pc = "recover" /\ todo = {}
    /\ \/ /\ recovery' = None
          /\ IF Opens(disk) THEN open_file(disk, mode) ELSE NoHandle
          /\ UNCHANGED <<disk, flushes, faults>>
       \/ Fault /\ NoHandle /\ UNCHANGED <<host, flushes>>
-----------------------------------------------------------------------------
Init ==
    /\ disk = [p \in {} |-> None] /\ recovery = None
    /\ pc = "closed" /\ caller = None /\ todo = {}
    /\ mode = None /\ meta = NewMeta /\ cache = (ROOT :> NewNode(ROOT))
    /\ need_writing = FALSE /\ status = "Closed" /\ last_error = FALSE
    /\ view = None
    /\ flushes = 0 /\ faults = 0

FlushStep == OpenRecovery \/ SaveNode \/ SetUpdateFlag \/ FlushFlag \/ WriteNode
                \/ WriteMetadata \/ Sync

Operation ==
    \/ \E b \in 0..(MaxBlocks - 1), v \in Values : Write(b, v)
    \/ \E b \in 1..(MaxBlocks - 1) : Read(b)
    \/ \E n \in Lengths : SetLen(n)
    \/ Refused \/ Flush \/ ClearError \/ Close \/ (mode = "r" /\ ClearCache)

Next == Operation \/ FlushStep \/ DropCache \/ CloseDone \/ Crash
           \/ Create \/ Open("r") \/ Recover \/ Reopen

\* The file is written by the handle that created it, which keeps all its nodes in
\* the cache, and then read.
Spec == Init /\ [][Next]_vars

\* ... and with everything that makes a handle write to a node that it has read
\* from the disk.
UpdateSpec == Init /\ [][Next \/ Open("r+") \/ Open("a") \/ ClearCache]_vars
-----------------------------------------------------------------------------
\* The types of the variables.  The cache holds the parents of its nodes, and the
\* recovery file holds no node twice: its order is of no importance but for the
\* metadata.
TypeOK ==
    /\ pc \in {"closed", "open", "stuck", "recovery", "save", "flag", "flush", "write",
               "sync", "drop", "closing", "recover"}
    /\ caller \in {None, "flush", "clear_error", "clear_cache", "close"}
    /\ mode \in {None, "w", "r", "r+", "a"}
    /\ status \in {"Closed", "Ok", "FlushError", "WriteToDiskFailed"}
    /\ need_writing \in BOOLEAN /\ last_error \in BOOLEAN
    /\ DOMAIN disk \subseteq Nodes \cup {META}
    /\ ROOT \in DOMAIN cache /\ DOMAIN cache \subseteq Nodes
    /\ \A p \in DOMAIN cache \ {ROOT} : Parent(p) \in DOMAIN cache
    /\ meta.size \in 0..MaxBlocks
    /\ recovery # None =>
          \A i, j \in DOMAIN recovery : recovery[i].num = recovery[j].num => i = j
    /\ view = None \/ view \in Versions
    /\ flushes \in 0..MaxFlushes /\ faults \in 0..MaxFaults

\* Every block of the file can be read through an open handle, and is what was
\* written last: whatever was flushed, failed or shrunk before.
HandleReadable ==
    Idle => /\ Len(view) = meta.size
            /\ \A b \in 0..(meta.size - 1) :
                  IF b = 0 THEN meta.data = view[1]
                  ELSE LET got == get_data_node(b, meta.size, cache)
                       IN  got.ok /\ got.cache[DataNode(b)].plain = view[b + 1]

\* "force actual write of all the cached data to the disk": a handle with nothing
\* left to write shows what the file on the disk holds.
FlushedIsDurable ==
    Idle /\ ~need_writing /\ mode # "r" => Durable = view

\* A flush that failed has left its update flag on the disk, and no node was written
\* since.  Another flush, which begins with a new recovery file, is due or under way.
FlagLeft == /\ status = "FlushError" /\ pc \in {"open", "recovery", "save"}
            /\ META \in DOMAIN disk /\ disk[META].flag

\* The version of the file that is kept: what the next open finds, or what the file
\* holds once the flag that a failed flush has left is gone.
Kept == IF FlagLeft THEN ReadBack([disk EXCEPT ![META].flag = FALSE]) ELSE Durable

\* The steps that may lose the file: a write of the metadata that fails half-way, and
\* a crash while the recovery file does not go with the flag that a failed flush left.
MayLose == \/ pc = "write" /\ todo = {} /\ faults' > faults /\ UNCHANGED view
           \/ FlagLeft /\ view' = None

AF == INSTANCE AtomicFile WITH durable <- Kept

\* The file is replaced as a whole: whatever crashes and fails between two calls to the
\* host, also while it is recovered, the next open finds the last version that was
\* flushed or the one being flushed.  There are two exceptions and no other: the write
\* of the metadata itself fails half-way, which nothing but clear_error on the same
\* handle repairs, and the process dies after a flush failed at the update flag and
\* before the next flush has written its recovery file.
ImplementsAtomicFile ==
    AF!Init /\ [][AF!Next \/ (MayLose /\ Kept' = None)]_<<Kept, view>>

\* "expand the file by padding null bytes" and "shrink the file by setting null bytes":
\* set_len returns.
SetLenReturns == pc # "stuck"

\* A file that was once written completely can always be opened and read, after
\* recovery if that is needed.
WrittenIsReadable ==
    META \in DOMAIN disk /\ disk[META].sealed => Durable # None
=============================================================================
