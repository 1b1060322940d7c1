------------------------------ MODULE RsrvMem ------------------------------
(* The reserved memory of an enclave (sgx_rsrvmm): an ordered list of areas      *)
(* from which mmap, munmap and mprotect cut and into which they merge.  Every    *)
(* operation runs under one lock and is one step.  Addresses and sizes are pages.*)
EXTENDS Integers, SequencesExt

CONSTANTS
    Edmm,       \* is_supported_edmm: pages beyond MinSize have to be accepted
    Base,       \* the first page of the reserved memory; below it lies the enclave
    Size,       \* its size in pages
    MinSize,    \* the pages that are there from the start
    Perms,      \* the permissions asked for
    Default,    \* rsrvmm_default_perm, with which a page is also added under EDMM
    Objects,    \* the objects (Arcs) that are mapped
    Offsets,    \* the offsets from which they are mapped
    Free,
    MaxAreas,   \* the bound on the number of areas
    None

\* An address is larger than any size, as it is in an enclave.
ASSUME RsrvMemAssumption ==
    /\ Edmm \in BOOLEAN
    /\ Size \in Nat \ {0} /\ MinSize \in 0..Size /\ Base \in Nat /\ Base > Size
    /\ Default \in Perms /\ Offsets \subseteq Nat
    /\ MaxAreas \in Nat /\ None \notin Objects /\ Free \notin Objects \cup {None}

Pages == Base..(Base + Size - 1)

VARIABLES
    vrds,       \* MmManager.vrds: areas with range, recorded permission, state, object
    committed,  \* committed_size, in pages
    prot,       \* prot[p]: the permission last asked of the host for page p
    epc,        \* the pages accepted under EDMM
    mapped      \* mapped[p]: Free, or the object (or None) a caller mapped at page p

vars == <<vrds, committed, prot, epc, mapped>>
-----------------------------------------------------------------------------
(* range.rs and area.rs *)

Max2(a, b) == IF a > b THEN a ELSE b
Min2(a, b) == IF a < b THEN a ELSE b
Span(start, n) == [start |-> start, end |-> start + n]
Run(r) == r.start..(r.end - 1)

Holds(r, addr) == r.start <= addr /\ addr < r.end
Superset(r, q) == r.start <= q.start /\ q.end <= r.end
ContiguousWith(a, b) == Max2(a.start, b.start) = Min2(a.end, b.end)
Intersects(a, r) == Max2(a.start, r.start) < Min2(a.end, r.end)

\* The part of area a from start to end; its object begins that much later.
InheritsFrom(a, start, end) ==
    [a EXCEPT !.start = start, !.end = end,
              !.obj = IF @ = None THEN None ELSE [@ EXCEPT !.offset = @ + (start - a.start)]]

Intersection(a, r) == InheritsFrom(a, Max2(a.start, r.start), Min2(a.end, r.end))

\* What is left of area a without range r, from left to right.
Subtract(a, r) ==
    IF ~Intersects(a, r) THEN <<a>>
    ELSE LET i == Intersection(a, r)
         IN (IF a.start < i.start THEN <<InheritsFrom(a, a.start, i.start)>> ELSE <<>>)
            \o (IF i.end < a.end THEN <<InheritsFrom(a, i.end, a.end)>> ELSE <<>>)

\* Objects of neighbours are combined if one continues where the other ends.
CanCombineObjects(a, b) ==
    \/ a.obj = None /\ b.obj = None
    \/ /\ a.obj # None /\ b.obj # None
       /\ a.obj.arc = b.obj.arc
       /\ \/ a.obj.offset - b.obj.offset = b.end - b.start
          \/ b.obj.offset - a.obj.offset = a.end - a.start

CanCombine(a, b) ==
    /\ ContiguousWith(a, b)
    /\ a.perm = b.perm /\ a.state = b.state
    /\ CanCombineObjects(a, b)
-----------------------------------------------------------------------------
(* manager.rs *)

Locked(start, end) ==
    [start |-> start, end |-> end, perm |-> "None", state |-> "Locked", obj |-> None]

Whole == Span(Base, Size)

Init ==
    /\ vrds = <<Locked(0, Base), Locked(Base + Size, Base + Size)>>
    /\ committed = 0
    /\ prot = [p \in Pages |-> Default]
    /\ epc = {}
    /\ mapped = [p \in Pages |-> Free]

\* The index of the area that contains addr, if there is one.
FindVrd(as, addr) == {i \in DOMAIN as : Holds(as[i], addr)}

\* The holes between neighbours, by the index where an area in it is inserted.
Hole(as, i) == [start |-> as[i - 1].end, end |-> as[i].start]
HoleSize(as, i) == Hole(as, i).end - Hole(as, i).start
LargeHoles(as, n) == {i \in 2..Len(as) : HoleSize(as, i) >= n}

Room(as, i, addr, n) == Holds(Hole(as, i), addr) /\ Hole(as, i).end - addr >= n

\* Mutant of BestHole: the last hole that is large enough.
BestHoleLast(as, n) ==
    {i \in LargeHoles(as, n) : \A j \in LargeHoles(as, n) : j <= i}

\* The first of the smallest holes that are large enough.
BestHole(as, n) == {i \in LargeHoles(as, n) : \A j \in LargeHoles(as, n) :
    HoleSize(as, i) < HoleSize(as, j) \/ (HoleSize(as, i) = HoleSize(as, j) /\ i <= j)}

\* find_free_range and alloc_range_from: the insertion index and the address, or
\* nothing for ENOMEM.  The holes are visited in their order, so that a Need or a
\* Force fails at the first one beyond its address.
FindFreeRange(as, kind, addr, n) ==
    LET at == {i \in LargeHoles(as, n) : Room(as, i, addr, n)}
    IN IF kind \in {"Need", "Force", "Hint"} /\ at # {} THEN {<<i, addr>> : i \in at}
       ELSE IF kind \in {"Need", "Force"} THEN {}
       ELSE {<<i, Hole(as, i).start>> : i \in BestHole(as, n)}

\* Mutant of InsertVrd: the right neighbour is kept when all three are joined.
InsertVrdLeft(as, i, a) ==
    CASE CanCombine(a, as[i - 1]) ->
            [as EXCEPT ![i - 1].end = IF CanCombine(a, as[i]) THEN as[i].end ELSE a.end]
      [] ~CanCombine(a, as[i - 1]) /\ CanCombine(a, as[i]) -> [as EXCEPT ![i].start = a.start]
      [] OTHER -> InsertAt(as, i, a)

\* A new area joins its neighbours where it can.  The start of the right one is
\* moved, the offset of its object is not.
InsertVrd(as, i, a) ==
    CASE ~CanCombine(a, as[i - 1]) /\ ~CanCombine(a, as[i]) -> InsertAt(as, i, a)
      [] CanCombine(a, as[i - 1]) /\ ~CanCombine(a, as[i]) -> [as EXCEPT ![i - 1].end = a.end]
      [] ~CanCombine(a, as[i - 1]) /\ CanCombine(a, as[i]) -> [as EXCEPT ![i].start = a.start]
      [] CanCombine(a, as[i - 1]) /\ CanCombine(a, as[i]) ->
            RemoveAt([as EXCEPT ![i - 1].end = as[i].end], i)

FreeVrds(as, r) == FlattenSeq([i \in DOMAIN as |-> Subtract(as[i], r)])

\* One cut of split_vrds, between the pages addr - 1 and addr.
SplitAt(as, i, addr) ==
    IF as[i].start < addr /\ addr < as[i].end
    THEN InsertAt([as EXCEPT ![i].end = addr], i + 1, InheritsFrom(as[i], addr, as[i].end))
    ELSE as

\* Area i is added to the one before it.
Merge(as, i) == RemoveAt([as EXCEPT ![i - 1].end = @ + (as[i].end - as[i].start)], i)
Mergeable(as, i) == i > 1 /\ i <= Len(as) /\ CanCombine(as[i - 1], as[i])

\* The loop of combine_vrds at area i, which starts at addr.
RECURSIVE CombineFrom(_, _, _, _)
CombineFrom(as, i, addr, end) ==
    LET merged == IF Mergeable(as, i) THEN Merge(as, i) ELSE as
        next == IF Mergeable(as, i) THEN i ELSE i + 1
    IN IF addr >= end \/ next > Len(merged) THEN merged
       ELSE CombineFrom(merged, next, merged[next].start, end)

CombineVrds(as, r) ==
    LET i == CHOOSE i \in FindVrd(as, r.start) : TRUE IN CombineFrom(as, i, r.start, r.end)

\* apply_perm on the part of area a in range r: nothing is asked of the host if the
\* area is recorded with that permission.  What changes is a temporary area, so
\* that the area in the list keeps the permission it has.
ApplyPerm(pr, as, r, perm) ==
    [p \in Pages |-> IF p \in Run(r) /\ \E i \in FindVrd(as, p) : as[i].perm # perm
                     THEN perm ELSE pr[p]]
-----------------------------------------------------------------------------
(* rsrvmm/mod.rs: the operations *)

\* The list has MaxAreas areas at most between the locked ones.
Store(as) == Len(as) <= MaxAreas + 2 /\ vrds' = as

\* The pages mmap has to accept before it can use the memory up to end.
NewPages(end) ==
    IF Edmm /\ end > Base + committed /\ end > Base + MinSize
    THEN (Base + Max2(committed, MinSize))..(end - 1) ELSE {}

\* apply_epc_pages accepts one page after the other; a page that was accepted
\* before cannot be accepted again.
Accept(pages) == pages \cap epc = {} /\ epc' = epc \cup pages

\* It fails at page q and keeps the ones before q.
AcceptFails(pages) == \E q \in pages :
    LET before == {p \in pages : p < q}
    IN before \cap epc = {} /\ epc' = epc \cup before

Commit(end) == committed' = Max2(committed, end - Base)

\* Force frees from_unchecked(addr, size): from page addr to page number n, which
\* is below it, so that nothing is in that range.  (A build with debug assertions
\* panics there.)
Forced(kind, addr, n) ==
    IF kind = "Force" THEN FreeVrds(vrds, [start |-> addr, end |-> n]) ELSE vrds

InRange(kind, addr, n) == kind = "Any" \/ Superset(Whole, Span(addr, n))

\* What is mapped: check_perm holds for it with every permission, as the object can
\* be read.
MapObjects == {None} \cup [arc : Objects, offset : Offsets]

\* The free range mmap finds.
Found(kind, addr, n) ==
    IF InRange(kind, addr, n) THEN FindFreeRange(Forced(kind, addr, n), kind, addr, n) ELSE {}

Mmap(kind, addr, n) == \E <<i, start>> \in Found(kind, addr, n) :
    LET r == Span(start, n)
    IN /\ Accept(NewPages(r.end))
       /\ Commit(r.end)
       /\ \E perm \in Perms, obj \in MapObjects :
            /\ prot' = IF perm = Default THEN prot
                       ELSE [p \in Pages |-> IF p \in Run(r) THEN perm ELSE prot[p]]
            /\ Store(InsertVrd(Forced(kind, addr, n), i,
                               [start |-> r.start, end |-> r.end, perm |-> perm,
                                state |-> "Committed", obj |-> obj]))
            /\ mapped' = [p \in Pages |-> IF p \notin Run(r) THEN mapped[p]
                                          ELSE IF obj = None THEN None ELSE obj.arc]

\* Mutant of MmapNoPages: committed_size is not set back.
MmapNoPagesKept(kind, addr, n) == \E <<i, start>> \in Found(kind, addr, n) :
    /\ AcceptFails(NewPages(start + n))
    /\ Commit(start + n)
    /\ Store(Forced(kind, addr, n))
    /\ UNCHANGED <<prot, mapped>>

\* The pages cannot be had: committed_size is set back.
MmapNoPages(kind, addr, n) == \E <<i, start>> \in Found(kind, addr, n) :
    /\ AcceptFails(NewPages(start + n))
    /\ Store(Forced(kind, addr, n))
    /\ UNCHANGED <<committed, prot, mapped>>

\* The object cannot be read: the memory stays committed.
MmapLoadFails(kind, addr, n) == \E <<i, start>> \in Found(kind, addr, n) :
    /\ Objects # {}
    /\ Accept(NewPages(start + n))
    /\ Commit(start + n)
    /\ Store(Forced(kind, addr, n))
    /\ UNCHANGED <<prot, mapped>>

Munmap(addr, n) ==
    LET r == Span(addr, n)
    IN /\ Superset(Whole, r)
       /\ prot' = ApplyPerm(prot, vrds, r, Default)
       /\ Store(FreeVrds(vrds, r))
       /\ mapped' = [p \in Pages |-> IF p \in Run(r) THEN Free ELSE mapped[p]]
       /\ UNCHANGED <<committed, epc>>

\* Mutant of Mprotect: every page of the range is given the permission.
MprotectHoles(addr, n, perm) ==
    LET r == Span(addr, n)
    IN /\ Superset(Whole, r)
       /\ FindVrd(vrds, addr) # {} /\ FindVrd(vrds, r.end - 1) # {}
       /\ prot' = [p \in Pages |-> IF p \in Run(r) THEN perm ELSE prot[p]]
       /\ UNCHANGED <<vrds, committed, epc, mapped>>

\* The areas are cut at both ends of the range and joined again.  If the range
\* ends in a hole the first cut stays.
Mprotect(addr, n, perm) ==
    LET r == Span(addr, n)
    IN /\ Superset(Whole, r)
       /\ \E i \in FindVrd(vrds, addr) :
            LET left == SplitAt(vrds, i, addr)
                at == FindVrd(left, r.end - 1)
            IN \/ /\ at = {}
                  /\ Store(left) /\ prot' = prot
               \/ \E j \in at :
                    LET both == SplitAt(left, j, r.end)
                    IN /\ prot' = ApplyPerm(prot, both, r, perm)
                       /\ Store(CombineVrds(both, r))
       /\ UNCHANGED <<committed, epc, mapped>>

Kinds == {"Any", "Hint", "Need", "Force"}
Requests == {<<"Any", Base>>} \cup ((Kinds \ {"Any"}) \X Pages)

Next ==
    \/ \E <<kind, addr>> \in Requests, n \in 1..Size :
        \/ Mmap(kind, addr, n)
        \/ MmapNoPages(kind, addr, n)
        \/ MmapLoadFails(kind, addr, n)
    \/ \E addr \in Pages, n \in 1..Size :
        \/ Munmap(addr, n)
        \/ \E perm \in Perms : Mprotect(addr, n, perm)

Spec == Init /\ [][Next]_vars
-----------------------------------------------------------------------------
(* Properties *)

ObjectAt(p) == LET i == CHOOSE i \in FindVrd(vrds, p) : TRUE
               IN IF vrds[i].obj = None THEN None ELSE vrds[i].obj.arc

\* The list is what the callers mapped: whatever was cut, joined and freed, the areas
\* are in order between the two locked ones and do not overlap, a page is in one
\* exactly if it is mapped, and that area is one of the object mapped there.
ListIsExact ==
    /\ vrds[1] = Locked(0, Base) /\ Last(vrds) = Locked(Base + Size, Base + Size)
    /\ \A i \in 2..Len(vrds) : vrds[i - 1].end <= vrds[i].start
    /\ \A i \in 2..(Len(vrds) - 1) : vrds[i].start < vrds[i].end
    /\ \A p \in Pages : IF FindVrd(vrds, p) = {} THEN mapped[p] = Free
                                                ELSE mapped[p] = ObjectAt(p)

IsFree(addr, n) == \A p \in addr..(addr + n - 1) : p \in Pages /\ mapped[p] = Free

\* The length of the free run from addr on.
FreeLength(addr) == CHOOSE n \in 0..Size : IsFree(addr, n) /\ ~IsFree(addr, n + 1)

\* The first pages of the free runs of n pages and more.
Candidates(n) == {s \in Pages : IsFree(s, n) /\ ~IsFree(s - 1, 1)}

BestFit(n) == {s \in Candidates(n) : \A t \in Candidates(n) :
    FreeLength(s) < FreeLength(t) \/ (FreeLength(s) = FreeLength(t) /\ s <= t)}

\* The addresses find_free_range may return; none for ENOMEM.
Placed(kind, addr, n) == {f[2] : f \in Found(kind, addr, n)}

\* find_free_range, which only looks at neighbours in the list, finds what a look at
\* every page would: the address asked for if that run of pages is free, otherwise,
\* unless the address is needed, the start of a smallest free run that is large
\* enough; and it reports ENOMEM only if there is none.  Of Force nothing is said
\* here if the pages are not free: see ForceIsPlaced.
PlacementIsRight == \A <<kind, addr>> \in Requests, n \in 1..Size :
    InRange(kind, addr, n) /\ (kind = "Force" => IsFree(addr, n)) =>
        Placed(kind, addr, n) =
            IF kind # "Any" /\ IsFree(addr, n) THEN {addr}
            ELSE IF kind = "Need" THEN {} ELSE BestFit(n)

\* What the comments on MapAddr::Force and MmAllocAddr::Force say, "Force using the
\* address by free first": a Force within the reserved memory gets its address,
\* whatever is mapped there.  It does not: the range that find_free_range frees first
\* is given its size as its end.
ForceIsPlaced == \A addr \in Pages, n \in 1..Size :
    InRange("Force", addr, n) => Placed("Force", addr, n) = {addr}

\* Every mapped page is committed and, beyond the minimal size, was accepted, though
\* mmap may fail between the pages, after the pages or not at all: committed_size
\* never runs ahead of what was accepted.
MappedIsBacked ==
    /\ \A p \in Pages : mapped[p] # Free => p < Base + committed
    /\ Edmm => (Base + MinSize)..(Base + committed - 1) \subseteq epc

\* No operation asks the host to change the permission of a page that is free before
\* and after it: mprotect across a hole leaves the hole alone.
HolesAreUntouched == [][\A p \in Pages :
    prot'[p] # prot[p] => mapped[p] # Free \/ mapped'[p] # Free]_vars
=============================================================================
