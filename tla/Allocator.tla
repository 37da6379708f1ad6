----------------------------- MODULE Allocator -----------------------------
(***************************************************************************)
(* The allocator (src/src/allocator.rs) over the abstract pool of slabs:   *)
(* workers allocate from slabs they own, free locally or remotely, and     *)
(* clean their remote free lists; free-only handles free remotely.         *)
(*                                                                         *)
(* Steps interleave at the accesses to what processes share: the pool, a   *)
(* slab's metadata, and the head of its remote free list.  What only the   *)
(* owner of a slab reaches (its free stack, the worker's local lists and   *)
(* its byte counter) changes inside those steps; that nobody else reaches  *)
(* it is what OneList and MetaStable show.  Processes die between steps.   *)
(***************************************************************************)
EXTENDS SlabPool, FiniteSets

CONSTANTS
    Freers,         \* FreeOnlyAllocator handles
    Mortal,         \* the processes that may die
    SlabSize,       \* header.slab_size
    SIZE_CLASSES,   \* bytes of every size class
    NULL_U32        \* no worker, no slab

Procs == Workers \cup Freers
Classes == 1 .. Len(SIZE_CLASSES)

ASSUME ProcsAssumption == Workers \cap Freers = {} /\ Mortal \subseteq Procs
ASSUME NullAssumption == NULL_U32 \notin Workers \cup Slabs
\* What verify_slab_size guarantees, weakened: a slab is a multiple of every
\* class and holds at least two allocations of each (four in the code), so no
\* slab is full and empty at once.
ASSUME SizesAssumption ==
    /\ SlabSize \in Nat
    /\ SIZE_CLASSES \in Seq(Nat \ {0}) /\ SIZE_CLASSES # <<>>
    /\ \A c \in Classes :
          SlabSize % SIZE_CLASSES[c] = 0 /\ SlabSize >= 2 * SIZE_CLASSES[c]

VARIABLES
    assigned,       \* SlabMeta::assigned_worker of every slab
    class,          \* SlabMeta::size_class_index of every slab
    remote,         \* its remote free list, newest first
    freeStack,      \* its free stack, top first
    capacity,       \* the capacity its free stack was reset to
    partial, full,  \* local lists of every worker and class, head first
    outstanding,    \* outstanding_allocation_bytes of every worker
    live,           \* the allocations the application holds
    pc,             \* where each process is
    slab,           \* slab_index of each worker's call
    want,           \* size_index of each worker's allocate
    freeing,        \* the allocation each process is freeing, with its index
    iter            \* each worker's clean_remote_free_lists in progress

slabVars == <<assigned, class, remote, freeStack, capacity>>
listVars == <<partial, full>>
callVars == <<slab, want, freeing, iter>>
vars == <<poolVars, slabVars, listVars, outstanding, live, pc, callVars>>

\* The states of a worker index: claimed by no handle, between calls, in a
\* call, or lost with the process that had claimed it.
PCs == {"unclaimed", "idle", "take", "assign", "within", "free_check",
        "remote_push", "give", "clean_next", "drain", "dead"}

NoFree == [slab |-> NULL_U32, offset |-> 0, class |-> 0, index |-> 0]
NoIter == [class |-> 0, list |-> "none", cursor |-> NULL_U32, slab |-> NULL_U32,
           size |-> 0, drained |-> <<>>, count |-> 0, visited |-> {}]

-----------------------------------------------------------------------------
\* The state init::create leaves behind, before any handle claims a worker.
Init ==
    /\ PoolInit
    /\ assigned = [s \in Slabs |-> NULL_U32]
    /\ class = [s \in Slabs |-> 1]
    /\ remote = [s \in Slabs |-> <<>>]
    /\ freeStack = [s \in Slabs |-> <<>>]
    /\ capacity = [s \in Slabs |-> 0]
    /\ partial = [w \in Workers |-> [c \in Classes |-> <<>>]]
    /\ full = [w \in Workers |-> [c \in Classes |-> <<>>]]
    /\ outstanding = [w \in Workers |-> 0]
    /\ live = {}
    /\ pc = [p \in Procs |-> IF p \in Workers THEN "unclaimed" ELSE "idle"]
    /\ slab = [w \in Workers |-> NULL_U32]
    /\ want = [w \in Workers |-> 0]
    /\ freeing = [p \in Procs |-> NoFree]
    /\ iter = [w \in Workers |-> NoIter]

Goto(p, label) == pc' = [pc EXCEPT ![p] = label]

\* WorkerLocalList::head, push, remove, and the order iterate visits.
HeadOf(list) == IF list = <<>> THEN NULL_U32 ELSE Head(list)
PushOn(list, s) == <<s>> \o list
RemoveFrom(list, s) ==
    IF \E i \in DOMAIN list : list[i] = s
    THEN LET at == CHOOSE i \in DOMAIN list : list[i] = s
         IN  SubSeq(list, 1, at - 1) \o SubSeq(list, at + 1, Len(list))
    ELSE list

\* Mutant of After: the iterator does not advance.
AfterSelf(list, s) == s

After(list, s) ==
    IF \E i \in 1 .. Len(list) - 1 : list[i] = s
    THEN list[(CHOOSE i \in 1 .. Len(list) - 1 : list[i] = s) + 1]
    ELSE NULL_U32

\* slab_size / size.
Capacity(c) == SlabSize \div SIZE_CLASSES[c]

\* The free stack reset to that capacity: index 0 on top.
ResetStack(c) == [i \in 1 .. Capacity(c) |-> i - 1]

-----------------------------------------------------------------------------
\* Mutant of Claim: the index of a dead process is claimed.
ClaimStolen(w) ==
    /\ pc[w] \in {"unclaimed", "dead"}
    /\ Goto(w, "idle")
    /\ UNCHANGED <<poolVars, slabVars, listVars, outstanding, live, callVars>>

\* A handle claims a free worker index, or is dropped; what the worker owns
\* and its counter stay in the shared file for the next handle.
Claim(w) ==
    /\ pc[w] = "unclaimed"
    /\ Goto(w, "idle")
    /\ UNCHANGED <<poolVars, slabVars, listVars, outstanding, live, callVars>>

Release(w) ==
    /\ pc[w] = "idle"
    /\ Goto(w, "unclaimed")
    /\ UNCHANGED <<poolVars, slabVars, listVars, outstanding, live, callVars>>

Crash(p) ==
    /\ p \in Mortal
    /\ pc[p] \notin {"dead", "unclaimed"}
    /\ Goto(p, "dead")
    /\ UNCHANGED <<poolVars, slabVars, listVars, outstanding, live, callVars>>

-----------------------------------------------------------------------------
\* allocate_within_slab: pop the free stack of a slab of class c, and move
\* the slab to the full list if that was its last free index.  (The code also
\* handles an empty free stack here; ListsTruthful says it never meets one.)
MoveIfFull(w, s, c) ==
    IF Len(freeStack[s]) = 1
    THEN /\ partial' = [partial EXCEPT ![w][c] = RemoveFrom(@, s)]
         /\ full' = [full EXCEPT ![w][c] = PushOn(@, s)]
    ELSE UNCHANGED listVars

\* The allocation of the index on top.  No code reads its id, which is 0 unless
\* that very slot is allocated already: it keeps two allocations of one slot
\* apart, so that handing a slot out twice is a change of live.
Popped(s, c) ==
    LET offset == Head(freeStack[s]) * SIZE_CLASSES[c]
        ids == {a.id : a \in {b \in live : b.slab = s /\ b.class = c /\ b.offset = offset}}
    IN  [slab |-> s, class |-> c, offset |-> offset,
         id |-> CHOOSE n \in 0 .. Cardinality(ids) : n \notin ids]

\* Mutant of PopTop: the top is read and not lowered.
PopTopKept(s) == UNCHANGED freeStack

PopTop(s) == freeStack' = [freeStack EXCEPT ![s] = Tail(@)]

AllocateWithin(w, s, c) ==
    /\ PopTop(s)
    /\ MoveIfFull(w, s, c)
    /\ outstanding' = [outstanding EXCEPT ![w] = @ + SIZE_CLASSES[c]]
    /\ live' = live \cup {Popped(s, c)}
    /\ Goto(w, "idle")
    /\ UNCHANGED <<assigned, class, remote, capacity>>

\* allocate, for a size of class c: from the head of the partial list ...
AllocatePartial(w, c) ==
    /\ pc[w] = "idle"
    /\ partial[w][c] # <<>>
    /\ AllocateWithin(w, Head(partial[w][c]), c)
    /\ UNCHANGED <<poolVars, callVars>>

\* ... or, when that is empty, from a slab of the global free list.
AllocateCall(w, c) ==
    /\ pc[w] = "idle"
    /\ partial[w][c] = <<>>
    /\ Call(w)
    /\ want' = [want EXCEPT ![w] = c]
    /\ Goto(w, "take")
    /\ UNCHANGED <<slabVars, listVars, outstanding, live, slab, freeing, iter>>

TakeSlab(w) ==
    /\ pc[w] = "take"
    /\ Take(w)
    /\ slab' = [slab EXCEPT ![w] = Head(pool)]
    /\ Goto(w, "assign")
    /\ UNCHANGED <<slabVars, listVars, outstanding, live, want, freeing, iter>>

AllocateNone(w) ==
    /\ pc[w] = "take"
    /\ TakeNone(w)
    /\ want' = [want EXCEPT ![w] = 0]
    /\ Goto(w, "idle")
    /\ UNCHANGED <<slabVars, listVars, outstanding, live, slab, freeing, iter>>

\* The rest of take_slab: SlabMeta::assign, FreeStack::reset, push.
AssignSlab(w) ==
    LET s == slab[w]
        c == want[w]
    IN  /\ pc[w] = "assign"
        /\ assigned' = [assigned EXCEPT ![s] = w]
        /\ class' = [class EXCEPT ![s] = c]
        /\ remote' = [remote EXCEPT ![s] = <<>>]
        /\ freeStack' = [freeStack EXCEPT ![s] = ResetStack(c)]
        /\ capacity' = [capacity EXCEPT ![s] = Capacity(c)]
        /\ partial' = [partial EXCEPT ![w][c] = PushOn(@, s)]
        /\ Goto(w, "within")
        /\ UNCHANGED <<poolVars, full, outstanding, live, callVars>>

AllocateTaken(w) ==
    /\ pc[w] = "within"
    /\ AllocateWithin(w, slab[w], want[w])
    /\ slab' = [slab EXCEPT ![w] = NULL_U32]
    /\ want' = [want EXCEPT ![w] = 0]
    /\ UNCHANGED <<poolVars, freeing, iter>>

-----------------------------------------------------------------------------
\* Mutant of Emptied: an empty slab is kept.
EmptiedLate(s) == Len(freeStack[s]) + 1 > capacity[s]

\* Mutant of Emptied: a slab is given back one slot early.
EmptiedEarly(s) == Len(freeStack[s]) + 2 >= capacity[s]

\* local_free_with_size_index: return index i to slab s of class c.  A slab
\* that was full becomes partial; one that becomes empty leaves the partial
\* list and goes back to the pool in the next step of w (give).  Otherwise
\* w continues at "then".
Emptied(s) == Len(freeStack[s]) + 1 = capacity[s]

MoveAfterFree(w, s, c) ==
    IF freeStack[s] = <<>>
    THEN /\ full' = [full EXCEPT ![w][c] = RemoveFrom(@, s)]
         /\ partial' = [partial EXCEPT ![w][c] = PushOn(@, s)]
    ELSE /\ partial' = IF Emptied(s)
                       THEN [partial EXCEPT ![w][c] = RemoveFrom(@, s)]
                       ELSE partial
         /\ UNCHANGED full

LocalFree(w, s, c, i, then) ==
    /\ freeStack' = [freeStack EXCEPT ![s] = <<i>> \o @]
    /\ MoveAfterFree(w, s, c)
    /\ slab' = [slab EXCEPT ![w] = IF Emptied(s) THEN s ELSE @]
    /\ Goto(w, IF Emptied(s) THEN "give" ELSE then)
    /\ UNCHANGED <<assigned, class, remote, capacity>>

\* global_free_list().push of the emptied slab, for free or for clean.
GiveSlab(w) ==
    /\ pc[w] = "give"
    /\ Give(w, slab[w])
    /\ slab' = [slab EXCEPT ![w] = NULL_U32]
    /\ Goto(w, IF iter[w] = NoIter THEN "idle" ELSE "drain")
    /\ UNCHANGED <<slabVars, listVars, outstanding, live, want, freeing, iter>>

\* free_offset: the application gives up an allocation; its index is the
\* offset within the slab divided by the size of the slab's class.
FreeCall(p, a) ==
    /\ pc[p] = "idle"
    /\ a \in live
    /\ live' = live \ {a}
    /\ freeing' = [freeing EXCEPT ![p] =
           [slab |-> a.slab, class |-> a.class, offset |-> a.offset,
            index |-> a.offset \div SIZE_CLASSES[class[a.slab]]]]
    /\ Goto(p, IF p \in Workers THEN "free_check" ELSE "remote_push")
    /\ UNCHANGED <<poolVars, slabVars, listVars, outstanding, slab, want, iter>>

\* Mutant of OwnSlab: the owner is not checked.
OwnSlabAlways(w, s) == TRUE

\* Allocator::free_offset reads assigned_worker: its own slab ...
OwnSlab(w, s) == assigned[s] = w

FreeLocal(w) ==
    LET s == freeing[w].slab
        c == class[s]
    IN  /\ pc[w] = "free_check"
        /\ OwnSlab(w, s)
        /\ outstanding' = [outstanding EXCEPT ![w] = @ - SIZE_CLASSES[c]]
        /\ LocalFree(w, s, c, freeing[w].index, "idle")
        /\ freeing' = [freeing EXCEPT ![w] = NoFree]
        /\ UNCHANGED <<poolVars, live, want, iter>>

\* ... or another worker's.
FreeRemote(w) ==
    /\ pc[w] = "free_check"
    /\ ~OwnSlab(w, freeing[w].slab)
    /\ Goto(w, "remote_push")
    /\ UNCHANGED <<poolVars, slabVars, listVars, outstanding, live, callVars>>

\* RemoteFreeList::push, atomic at its compare-exchange.
RemotePush(p) ==
    /\ pc[p] = "remote_push"
    /\ remote' = [remote EXCEPT ![freeing[p].slab] = <<freeing[p].index>> \o @]
    /\ freeing' = [freeing EXCEPT ![p] = NoFree]
    /\ Goto(p, "idle")
    /\ UNCHANGED <<poolVars, assigned, class, freeStack, capacity, listVars, outstanding,
                   live, slab, want, iter>>

-----------------------------------------------------------------------------
\* clean_remote_free_lists: for each class the partial list, then the full
\* one.  iterate() reads the head when it starts on a list.
LocalList(w, kind, c) == IF kind = "partial" THEN partial[w][c] ELSE full[w][c]

\* Mutant of Order: full lists before partial ones.
OrderFullFirst == <<"full", "partial">>

Order == <<"partial", "full">>

FirstList == [class |-> 1, list |-> Order[1]]

\* Mutant of LastList: the last full list is left out.
LastListPartial == [class |-> Len(SIZE_CLASSES), list |-> Order[1]]

LastList == [class |-> Len(SIZE_CLASSES), list |-> Order[2]]
NextList(at) ==
    IF at.list = Order[1]
    THEN [class |-> at.class, list |-> Order[2]]
    ELSE [class |-> at.class + 1, list |-> Order[1]]

StartOn(w, at, visited) ==
    iter' = [iter EXCEPT ![w] = [NoIter EXCEPT
                 !.class = at.class, !.list = at.list, !.visited = visited,
                 !.cursor = HeadOf(LocalList(w, at.list, at.class))]]

CleanCall(w) ==
    /\ pc[w] = "idle"
    /\ StartOn(w, FirstList, {})
    /\ Goto(w, "clean_next")
    /\ UNCHANGED <<poolVars, slabVars, listVars, outstanding, live, slab, want, freeing>>

ListOf(w) == LocalList(w, iter[w].list, iter[w].class)

\* Mutant of Drain: the head is loaded, not swapped.
DrainLoads(s) == UNCHANGED remote

Drain(s) == remote' = [remote EXCEPT ![s] = <<>>]

\* The next slab of the list: the iterator moves past it before the body
\* runs; the body reads its class and swaps its remote list for an empty one.
CleanSlab(w) ==
    LET s == iter[w].cursor
    IN  /\ pc[w] = "clean_next"
        /\ s # NULL_U32
        /\ iter' = [iter EXCEPT
               ![w].cursor = After(ListOf(w), s),
               ![w].slab = s,
               ![w].size = SIZE_CLASSES[class[s]],
               ![w].drained = remote[s],
               ![w].visited = @ \cup {s}]
        /\ Drain(s)
        /\ Goto(w, "drain")
        /\ UNCHANGED <<poolVars, assigned, class, freeStack, capacity, listVars,
                       outstanding, live, slab, want, freeing>>

\* The body of the loop over the drained indices.
DrainIndex(w) ==
    LET it == iter[w]
    IN  /\ pc[w] = "drain"
        /\ it.drained # <<>>
        /\ LocalFree(w, it.slab, it.class, Head(it.drained), "drain")
        /\ iter' = [iter EXCEPT ![w].drained = Tail(@), ![w].count = @ + 1]
        /\ UNCHANGED <<poolVars, outstanding, live, want, freeing>>

\* Mutant of DrainedBytes: the class is read after the drain.
DrainedBytesLate(w) == iter[w].count * SIZE_CLASSES[class[iter[w].slab]]

\* The drained bytes leave the counter once the whole list is freed, at the
\* size read before: by then the slab may be another worker's.
DrainedBytes(w) == iter[w].count * iter[w].size

DrainDone(w) ==
    /\ pc[w] = "drain"
    /\ iter[w].drained = <<>>
    /\ outstanding' = [outstanding EXCEPT ![w] = @ - DrainedBytes(w)]
    /\ iter' = [iter EXCEPT ![w] = [@ EXCEPT !.slab = NULL_U32, !.size = 0, !.count = 0]]
    /\ Goto(w, "clean_next")
    /\ UNCHANGED <<poolVars, slabVars, listVars, live, slab, want, freeing>>

\* The end of a list: the next one, or return.
CleanList(w) ==
    LET at == [class |-> iter[w].class, list |-> iter[w].list]
    IN  /\ pc[w] = "clean_next"
        /\ iter[w].cursor = NULL_U32
        /\ IF at = LastList
           THEN iter' = [iter EXCEPT ![w] = NoIter] /\ Goto(w, "idle")
           ELSE StartOn(w, NextList(at), iter[w].visited) /\ UNCHANGED pc
        /\ UNCHANGED <<poolVars, slabVars, listVars, outstanding, live, slab, want, freeing>>

-----------------------------------------------------------------------------
\* A step of a call in progress, and the calls an application may make.
Step(w) ==
    \/ TakeSlab(w) \/ AllocateNone(w) \/ AssignSlab(w) \/ AllocateTaken(w)
    \/ FreeLocal(w) \/ FreeRemote(w) \/ RemotePush(w) \/ GiveSlab(w)
    \/ CleanSlab(w) \/ DrainIndex(w) \/ DrainDone(w) \/ CleanList(w)

CallStep(w) ==
    \/ Claim(w) \/ Release(w) \/ CleanCall(w)
    \/ \E c \in Classes : AllocatePartial(w, c) \/ AllocateCall(w, c)

Next ==
    \/ \E w \in Workers : Step(w) \/ CallStep(w)
    \/ \E f \in Freers : RemotePush(f)
    \/ \E p \in Procs : Crash(p) \/ \E a \in live : FreeCall(p, a)

Spec == Init /\ [][Next]_vars

\* A live process keeps running the call it is in.
FairSpec ==
    Spec /\ (\A w \in Workers : WF_vars(Step(w))) /\ (\A f \in Freers : WF_vars(RemotePush(f)))

-----------------------------------------------------------------------------
(* Where slabs and slots are. *)

Elems(seq) == {seq[i] : i \in DOMAIN seq}

\* Every place at which slab s is: a position of the pool, a position of a
\* local list, or in the hands of a worker that took it or is giving it back.
SlabPlaces(s) ==
    {<<"pool", i>> : i \in {j \in DOMAIN pool : pool[j] = s}}
    \cup {<<"hand", w>> : w \in {v \in Workers : slab[v] = s /\ ~\E c \in Classes :
                                    s \in Elems(partial[v][c])}}
    \cup UNION {
        {<<"partial", w, c, i>> : i \in {j \in DOMAIN partial[w][c] : partial[w][c][j] = s}}
        \cup {<<"full", w, c, i>> : i \in {j \in DOMAIN full[w][c] : full[w][c][j] = s}}
        : w \in Workers, c \in Classes}

\* Every place at which slot i of slab s is: free, allocated, in the hands of
\* a process that frees it, on the remote list, or drained and not yet freed.
SlotPlaces(s, i) ==
    {<<"free", j>> : j \in {k \in DOMAIN freeStack[s] : freeStack[s][k] = i}}
    \cup {<<"live", a>> : a \in {b \in live :
            b.slab = s /\ b.offset = i * SIZE_CLASSES[class[s]]}}
    \cup {<<"freeing", p>> : p \in {q \in Procs : freeing[q].slab = s /\ freeing[q].index = i}}
    \cup {<<"remote", j>> : j \in {k \in DOMAIN remote[s] : remote[s][k] = i}}
    \cup UNION {{<<"drained", w, j>> : j \in {k \in DOMAIN iter[w].drained :
            iter[w].slab = s /\ iter[w].drained[k] = i}} : w \in Workers}

\* Slabs of which some slot is not free.
InUse(s) ==
    \/ \E a \in live : a.slab = s
    \/ \E p \in Procs : freeing[p].slab = s
    \/ remote[s] # <<>>
    \/ \E w \in Workers : iter[w].slab = s /\ iter[w].drained # <<>>

-----------------------------------------------------------------------------
Iters == [class : {0} \cup Classes, list : {"none", "partial", "full"},
          cursor : Slabs \cup {NULL_U32}, slab : Slabs \cup {NULL_U32}, size : Nat,
          drained : Seq(Nat), count : Nat, visited : SUBSET Slabs]

TypeOK ==
    /\ pool \in Seq(Slabs) /\ held \in [Workers -> SUBSET Slabs]
    /\ assigned \in [Slabs -> Workers \cup {NULL_U32}]
    /\ class \in [Slabs -> Classes]
    /\ remote \in [Slabs -> Seq(Nat)]
    /\ freeStack \in [Slabs -> Seq(Nat)]
    /\ capacity \in [Slabs -> {0} \cup {Capacity(c) : c \in Classes}]
    /\ partial \in [Workers -> [Classes -> Seq(Slabs)]]
    /\ full \in [Workers -> [Classes -> Seq(Slabs)]]
    /\ outstanding \in [Workers -> Nat]
    /\ live \subseteq [slab : Slabs, class : Classes, offset : 0 .. SlabSize - 1, id : Nat]
    /\ pc \in [Procs -> PCs]
    /\ slab \in [Workers -> Slabs \cup {NULL_U32}]
    /\ want \in [Workers -> {0} \cup Classes]
    /\ freeing \in [Procs -> [slab : Slabs \cup {NULL_U32}, offset : 0 .. SlabSize - 1,
                              class : {0} \cup Classes, index : Nat]]
    /\ iter \in [Workers -> Iters]

\* To applications the allocator is AllocationService, although slabs change
\* owner and class, and the class that decides where a slot lies is read when
\* it is freed: no two allocations share a byte and none leaves its slab.  Each
\* allocation maps to one of its own, so that a slot handed out again before it
\* is freed, in its class or in another, is an Allocate the service forbids.
Service == INSTANCE AllocationService
    WITH Sizes <- {SIZE_CLASSES[c] : c \in Classes},
         allocations <- {[slab |-> a.slab, offset |-> a.offset,
                          size |-> SIZE_CLASSES[a.class], id |-> a.id] : a \in live}
RefinesService == Service!ServiceSpec

\* header.rs:76: a slab is in one list at a time, here: in the pool, in one
\* position of one local list of its owner, or in its owner's hands.
OneList == \A s \in Slabs : Cardinality(SlabPlaces(s)) = 1

\* Every slot of an owned slab is free, allocated or on its way back, at
\* exactly one place: none is lost by a drain racing a remote free, and none
\* is handed out twice.  A slab in the pool has no slot anywhere else.
SlotsConserved ==
    \A s \in Slabs :
        /\ \A w \in Workers, c \in Classes :
              s \in Elems(partial[w][c]) \cup Elems(full[w][c]) =>
                 \A i \in 0 .. Capacity(c) - 1 : Cardinality(SlotPlaces(s, i)) = 1
        /\ s \in Elems(pool) => ~InUse(s)

\* The lists tell the truth: a slab on worker w's lists of class c belongs to
\* w and has that class; on the partial list it has a free index (so pop
\* succeeds for the head) and an allocated one (so no memory is kept from the
\* pool), on the full list no free index.
ListsTruthful ==
    \A w \in Workers, c \in Classes :
        /\ \A s \in Elems(partial[w][c]) :
              /\ s \in held[w] /\ assigned[s] = w /\ class[s] = c
              /\ Len(freeStack[s]) > 0
              /\ Len(freeStack[s]) < Capacity(c) \/ slab[w] = s
        /\ \A s \in Elems(full[w][c]) :
              s \in held[w] /\ assigned[s] = w /\ class[s] = c /\ freeStack[s] = <<>>

\* The sum of a function of slabs.
Total(f) ==
    LET Below[n \in 0 .. NumSlabs] == IF n = 0 THEN 0 ELSE Below[n - 1] + f[n - 1]
    IN  Below[NumSlabs]

\* The bytes of slab s that are not on its free stack, if it is on w's lists.
Used(w, s) ==
    IF \E c \in Classes : s \in Elems(partial[w][c]) \cup Elems(full[w][c])
    THEN SIZE_CLASSES[class[s]] * (Capacity(class[s]) - Len(freeStack[s]))
    ELSE 0

\* outstanding_allocation_bytes is what the worker's slabs have not got on
\* their free stacks, plus what a drain has freed and not yet subtracted: it
\* counts bytes freed remotely until they are drained, and never wraps.
Accounting ==
    \A w \in Workers :
        outstanding[w] = Total([s \in Slabs |-> Used(w, s)]) + iter[w].count * iter[w].size

\* While some slot of a slab is allocated or on its way back, nobody writes
\* the slab's metadata: a free that read its owner or class may use it later.
MetaStable ==
    [][\A s \in Slabs : InUse(s) => assigned'[s] = assigned[s] /\ class'[s] = class[s]]_vars

\* The iterator of a clean stays on the list it walks, though the body takes
\* slabs off that list and puts them on others, and it meets no slab twice
\* (allocator.rs:626-628).
CleanOnce ==
    \A w \in Workers : iter[w].cursor # NULL_U32 =>
        iter[w].cursor \in Elems(ListOf(w)) \ iter[w].visited

\* A clean that returns has drained every slab its worker still owns: what
\* was freed remotely before the call has been reclaimed.
CleanCovers ==
    [][\A w \in Workers :
          pc[w] = "clean_next" /\ pc'[w] = "idle" => held[w] \subseteq iter[w].visited]_vars

\* A clean returns, whatever remote frees arrive meanwhile.
Cleaning(w) == iter[w] # NoIter
CleanReturns == \A w \in Workers : Cleaning(w) ~> ~Cleaning(w) \/ pc[w] = "dead"

\* Memory comes back: once the application has freed everything, by whatever
\* processes, and the workers go on calling clean_remote_free_lists, every
\* slab returns to the pool, from which any worker and class may take it.
Reclaimed ==
    (\A w \in Workers : []<><<CleanCall(w)>>_vars) /\ <>[](live = {})
        => <>[](Len(pool) = NumSlabs)

=============================================================================
