# Verification of rts-alloc

TLA+ modules, TLC configurations and TLAPS proofs for `rts-alloc`, a lock-free
slab allocator in a file that several processes map. Source paths are relative
to the repository.

## 1. Inventory

| Component | State | Operations | Interaction | What makes it correct |
|---|---|---|---|---|
| Global free list, `src/global_free_list.rs` | 64-bit head (generation, index), `global_next` per slab | `push`, `pop` | every worker; called from `take_slab` and `local_free_with_size_index` | links from the head spell the unowned slabs; a slab has one owner; push and pop are atomic; progress |
| Remote free list, `src/remote_free_list.rs` | 16-bit head per slab, links inside the freed slots | `push`, `drain`, its iterator | any process pushes, the owner drains | each freed index comes back once; links are not overwritten; drains end |
| Allocator, `src/allocator.rs` | live allocations, byte counter per worker | `allocate`, `free`, `clean_remote_free_lists` | composes all the others | allocations do not overlap; every slab and slot is at one place; counters exact |
| Slab metadata, `src/slab_meta.rs` | owner, size class, remote head | `assign` | owner writes, frees of any process read | stable while any slot is in use |
| Free stack, `src/free_stack.rs` | top, capacity, array | `reset`, `pop`, `push` | owner only | permutation of the free indices |
| Worker local lists, `src/worker_local_list.rs` | partial and full head per worker and class, prev and next per slab | `head`, `push`, `remove`, `iterate` | owner only | a slab is on one list, matching its free stack; iteration survives moves |
| Worker slots, `src/allocator.rs` | `claimed` per worker | claim by scan, release on drop | all processes | one handle per index |
| Create and join, `src/init.rs`, `src/allocator.rs` | file length, magic, header; per process its mappings and handles | `create`, `join`, `join_from_existing`, drop | create initializes while joins run; handles share a mapping | a join sees a complete file or fails; indices have one owner; a mapping lives exactly as long as it is used |
| Layout and limits, `src/header.rs`, `src/align.rs` | the offsets in the header | `max_workers`, `layout_for` | create and join compute it independently | sections do not overlap and fit; the two agree |
| Size classes, `src/size_classes.rs` | none | `size_class_index`, `size_class`, `find_allocation_indexes` | allocate in one process, free in another | smallest class that fits; an offset leads back to its slot |
| Memory mapping, `src/memory_map.rs` | mappings of a process | `map_file`, `unmap_file` | create, join, last handle dropped | mapped once, unmapped once |
| Shared handles, `src/allocator.rs` | none | `Sync` for the handles | threads of one process | see the finding `shared_handle` |
| Errors, support | none | | | not modelled |

What is hard: processes interleave at every atomic access and may die at any;
stale reads are corrected only by compare-exchange; links are kept in memory
that is handed out again; a slab goes back to the pool in the middle of a
worker's loop over its lists; counters are adjusted after the slab they refer
to is gone; a worker index outlives its handle. `PROJECT.json` lists each
hazard at its line, with the property that would show it going wrong.

## 2. Modules

| Module | Role |
|---|---|
| `SlabPool` | abstract: the pool as a stack with atomic `Take`, `TakeNone`, `Give` |
| `GlobalFreeList` | the lock-free stack, one action per atomic access, deaths; implements `SlabPool` |
| `GlobalFreeListProofs` | its theorems |
| `SlotList` | abstract: atomic push, take-all, and return of a slab's remote frees |
| `RemoteFreeList` | one slab's list with links in slot memory; implements `SlotList` |
| `RemoteFreeListProofs` | its theorems |
| `AllocationService` | abstract: a set of allocations, each with its identity, that are disjoint and come and go |
| `Allocator` | allocate, free, clean, claim, release, deaths, over `SlabPool` and remote lists as sequences; implements `AllocationService` |
| `AllocatorProofs` | its theorems |
| `LocalLists` | abstract: a sequence of slabs per list |
| `WorkerLocalList` | the doubly linked lists, one action per access; implements `LocalLists` |
| `WorkerLocalListProofs` | its theorems |
| `IndexStack` | abstract: a sequence of free indices |
| `FreeStack` | the array stack, one action per load or store; implements `IndexStack` |
| `FreeStackProofs` | its theorems, for one thread |
| `WorkerIndices` | abstract: exclusive owners of worker indices |
| `WorkerSlots` | claim by scan, release, deaths; implements `WorkerIndices` |
| `WorkerSlotsProofs` | its theorems |
| `Lifecycle` | create, join, sharing, dropping, failures and deaths of processes |
| `LifecycleProofs` | its theorems |
| `SizeClasses` | the size classes and the slab sizes accepted |
| `Layout` | `max_workers` as a loop, `layout_for`, create's checks and join's recomputation |
| `Addressing` | EXTENDS `Layout`: from a request to an offset and back |
| `LayoutProofs` | the theorems of `Layout` and `Addressing` |
| `MC*` | constants and symmetry for TLC |

**GlobalFreeList.** `head` and `globalNext` are the shared words. The locals of
a call are `snap` (the loaded head), `next` and `arg`; `pc` says which access
comes next: `PopLoad`, `PopReadNext`, `PopCAS` or `PopCASFails`, `PopClear`,
and `PushLoad`, `PushLink`, `PushCAS` or `PushCASFails`. `held` says which
worker owns which slab, `stack` is a history variable changed at successful
exchanges and mapped to `pool` of `SlabPool`. A worker pushes only slabs it
owns, which is the safety contract of `push`.

**RemoteFreeList.** `mem[i]` is the first two bytes of slot `i`, either a link
or application `Data`. `Allocate` stands for the owner, or the next owner of
the slab, handing out any slot that is free and the application writing to it;
that is more than the allocator does, since the owner does not allocate inside
a drain. `IterNext` (the iterator reads the link, then returns the index) and
`LocalFree` (the loop body) are separate steps, so the order matters.

**Allocator.** EXTENDS `SlabPool` and uses its actions, so `GlobalFreeList`
implementing `SlabPool` is what licenses the atomic pool here; `SlotList` plays
the same part for `remote`. A step ends where a process touches shared state:
the pool, the metadata, the remote head. Changes to what only the owner reaches
(free stack, local lists, counter) are inside those steps. `AllocatePartial`,
or `AllocateCall`, `TakeSlab` / `AllocateNone`, `AssignSlab`, `AllocateTaken`
are `allocate`; `FreeCall`, `FreeLocal` / `FreeRemote`, `RemotePush`,
`GiveSlab` are `free` (a free-only handle always pushes remotely);
`CleanCall`, `CleanSlab`, `DrainIndex`, `GiveSlab`, `DrainDone`, `CleanList`
are `clean_remote_free_lists`, whose iterator is the record `iter`. The size of
a request is abstracted to its class. An application frees an allocation at
most once, from any process, as the safety contract of `free` demands. Each
worker index is used by one thread at a time, which `WorkerSlots` justifies for
handles and `FreeStack` refutes for threads that share one. The branch of
`allocate_within_slab` for an empty free stack is left out: `ListsTruthful` says
that it is never taken. The mapping to `AllocationService` forgets everything but
the bytes each allocation covers and which allocation it is. The latter is the
field `id`, which no code has and no action reads: `Popped` makes it 0, unless the
very slot is allocated already, and then another number, so that a slot handed out
twice is two allocations of the same bytes (which the service forbids) and not a set
that stays as it was.

**WorkerLocalList.** `head`, `prev` and `next` are the shared words; the nodes of
all workers are one array. `PushPrev`, `PushNext`, `PushLink`, `PushHead` and
`RemoveNext`, `RemoveLeft`, `RemoveRight` are the stores in their order;
`IterateNext` moves the cursor before the caller's body, which may remove the
slab it was given and push it on another list (a call nested in the iteration,
as `clean_remote_free_lists` makes it). `place`, `before` and `todo` are history
variables. What the links spell maps to the sequences of `LocalLists`, which
`Allocator` uses.

**FreeStack.** `top`, `capacity` and `stack` are the words of one slab's stack;
`reset`, `pop` and `push` are split at every access (between the first two stores of
`reset` the top may exceed the capacity). `Threads` is one thread as
the module's comment demands, or two.

**WorkerSlots.** `claimed` is the word of every worker, `next` the position of a
handle's scan; one compare-exchange is one step (`ScanClaims`, `ScanSkips`).
`free` is a history variable: the indices free ever since a scan began.

**Lifecycle.** `sized` and `written` stand for the file's length and contents,
`mapped` for the mappings of every process; `InitOrder` is the order in which
`initialize::allocator` writes, the magic number last. `create` is `CreateCall`,
`CreateLen`, `CreateResize`, `CreateMap`, `Initialize` and a claim; `join` is
`JoinLen`, `JoinMap`, `JoinVerify` and a claim; `join_from_existing` borrows
another handle's mapping (`lender`). Any fallible call may fail. A process that
dies takes its mappings with it, may start again, and leaves its indices
claimed and the file as it is. As the contract of `create` demands, no two
creates of one file run at once.

**Layout and Addressing.** The variables are the arguments of `create`, the loop
variable `meta` of `max_workers`, and the header. The checks of `create` come
first, then rounds of the loop (`LimitsRaise`, `LimitsMore`), then the header;
`join` runs the same loop for the number of workers it found and compares.
Words of four bytes keep numbers within TLC's 31 bits; the casts to `u32` are
modelled (`AsU32`). `MAX_U32`, the most slabs accepted, is a constant, smaller in
the run so that the refusal happens. `request` is one `allocate` and the `free` of
the offset it led to, in bytes.

## 3. Runs

| Run | Instance | Question |
|---|---|---|
| `global_free_list` | 3 workers (1 mortal), 2 slabs, 3 generations, fairness | ABA: is the list intact (`ListIntact`), is each slab in one place (`Conservation`), is every operation atomic (`RefinesPool`), do colliding operations progress together (`LockFree`) |
| `remote_free_list` | 3 pushers (1 mortal), 3 slots, fairness | do links survive slot reuse (`ChainsIntact`), is each index at one place, are push and drain atomic (`RefinesSlotList`), do drains end, do pushers progress |
| `allocator` | 2 workers (1 mortal), 1 free-only handle, 2 slabs of 2 slots | each slab on one list, each slot in one place, also when a worker dies; lists agree with free stacks; clean visits each slab once and misses none |
| `allocator_classes` | 2 workers, 1 mortal free-only handle, 1 slab used as 4 slots or 2 | does anything go wrong when a slab changes class and owner: `Accounting`, `MetaStable`, and are two allocations ever of common bytes, in one class or across them (`RefinesService`) |
| `allocator_live` | 2 workers, 2 slabs, fairness | does clean return, and does all memory come back once everything is freed (`Reclaimed`) |
| `free_stack` | 1 thread, capacities 4 and 2 | is every index free or given and none both, across resets, is each call atomic for its caller |
| `local_lists` | 2 workers (1 mortal) with 2 lists each, 3 slabs | do forward links, back links and heads agree, is an iteration exact while its body moves slabs, does one worker or its death reach another's list |
| `worker_slots` | 4 handles (1 mortal), 3 indices | has each index one holder, is none left claimed for nobody, does a scan overlook an index that was free throughout (`ScanHonest`) |
| `lifecycle` | 2 processes that die and restart, 4 handles, 3 indices | does a handle ever use an incomplete file, an index of another, or a mapping that is gone; does a mapping leak |
| `layout` | 6 slab sizes, some 300 file sizes, 6 numbers of workers; 77 request sizes | do sections overlap, does create refuse what could be done, does join agree, does the loop end; smallest class, round trip of offsets, 16-bit slot indices |

Two runs are expected to find a violation; each is a finding in `PROJECT.json`:

* `layout_huge`: in a file of 260 GB with slabs of 16 KiB, which `create` accepts,
  `slabs_offset` is cut to 32 bits and the slabs lie over the metadata.
* `shared_handle`: two threads that share one handle, as its `Sync` declaration
  lets safe code do, are given the same slot.

`ScanHonest` is as much as a scan can promise. It does not promise that a join
which reports `NoAvailableWorkers` met a moment with no index available: one
that is released behind the scan is not seen. Likewise `ClaimedHeld` counts a dead process
as the holder of its index: that nothing takes the index over is how the code is.

**Bounds.** Two slabs and three workers are the least in which one worker reads
a stale link while another pops, a third pops the next slab, and the first slab
is pushed back: the ABA race. Generations wrap at 3, with the named bound
`NoGenWrap`: no operation is overtaken, between its load and its exchange, by a
whole round of generations, which takes 2^32 operations in the code. Three slots allow a
chain of links whose middle one matters. Two slots per slab is the least for
which full, partial and empty differ (`verify_slab_size` requires four), and it
makes every list move happen often; the class run has slabs of four. Two slabs
let a list have a head and another element; `local_lists` has three slabs, so
that a slab is removed from the middle. With four handles for three indices a
scan can fail, and be overtaken. Two handles in each of two processes let a
mapping be shared, borrowed and unmapped while others live. The file sizes of
`layout` are all small ones, and those around which 8 MiB slabs need one more
metadata slab. In `Addressing` requests are made in files of a few slabs (`Served`), for
the first, last and some middle slots (`SomeSlots`): addresses are linear in
both. Symmetry is used for processes with the same `Mortal` status, and never
in the runs with liveness.

Each run checks the invariants about its hazards. `RemoteFreeList`, `FreeStack`,
`WorkerLocalList`, `Lifecycle` and `Layout` also state the types of their variables
(`TypeOK`), which no run lists: the proofs show it, and that of `WorkerSlots`.

**Seeded bugs.** An operator commented `Mutant of X` is a plausible bug in the
code `X` translates (a dropped guard, an off-by-one, a missing reset). It is used
nowhere in the specification; `PROJECT.json` says which property of which run
fails when it replaces `X`.

**Fairness.** Weak fairness of each step of an operation in progress: the
operating system keeps scheduling threads that live. No call is ever forced to
be made, except in the premise of `Reclaimed`, that workers go on cleaning. Lock
freedom is collective, as the code gives no individual guarantee. In `Layout` the
calls run to their end.

## 4. Proofs

`GlobalFreeListProofs` proves, for every set of workers and mortals, every
number of slabs, and every number of generations, that `TypeOK`, `ListIntact`,
`Conservation`, `LinksCleared` and `Snapshots` are invariants, and that the
list implements `SlabPool` (`Refinement`). Assumptions: at least one slab and
one generation, a null link that is not a slab index, and the bound `NoGenWrap` in the guards.

`ListIntact` is not inductive alone: a successful `PopCAS` installs a link read
earlier, possibly after other operations. `SnapshotOK` supplies what is
missing: if the loaded head is still current, then the link read is still the
current head's link. It is preserved because a successful exchange makes every
other worker's snapshot stale (`OthersGoStale`, where `NoGenWrap` enters), and
because links are stored only by a slab's owner, off the list
(`OffListFrame`, `PopClearStep`, `PushLinkStep`). `Conservation` says that owned
slabs are off the list. `IInv` is the conjunction; each action has a lemma, and
`NextIInv` combines them. For the refinement, `PopCAS` is `Take`, a `PopLoad`
that finds null is `TakeNone`, `PopCall` is `Call`, `PushCAS` is `Give`, and
every other step stutters.

`WorkerSlotsProofs` proves, for every set of handles and mortals and every number
of workers, that `TypeOK`, `ClaimedHeld` and `ScanHonest` are invariants and that
claiming by scan implements exclusive ownership (`ClaimsExclusive`). `ClaimedHeld`
is inductive only together with `OneHolder` (two handles never hold one index, so
a drop leaves nobody with a free word) and `HoldersHold` (a handle between calls
holds an index, a scanning one none). `ScanHonest` needs `FreeStill`: what the
history calls free is free now, so a failed exchange shows that the index is not
in it. `ScanClaims` is `Take`, `Drop` is `GiveBack`, the rest stutters.

`RemoteFreeListProofs` proves, for every set of pushers and mortals and every
number of slots, that `TypeOK`, `ChainsIntact` and `OnePlace` are invariants and
that the list implements `SlotList`. `OnePlace` counts the places of a slot; the
invariant says it place by place: `Somewhere`, at no two kinds of places (`Apart`),
not twice at one (`Once`). What makes a successful exchange correct is
`PushersLinked`: at the exchange a pusher's slot links to the head it loaded.
It holds whatever came and went meanwhile, because only the pusher has the slot,
so no generation is needed here. `OwnerState` says that a drain which is over
has returned everything.

`LifecycleProofs` proves, for every set of processes, handles and indices, that
`TypeOK`, `HandlesComplete`, `IndicesOwned`, `MappedWhenUsed` and
`NoMappingLeaks` are invariants. `CreatorAlone` says what a create has done so
far: until the magic number is written it is alone with the file, since it sets
the length once and a later create sees that. `Complete` says that whoever is past
the check of the magic number saw it; `IndexHeld` that a handle has an index exactly
while it is live; `HoldsMapping` and `Borrows` that a handle has a mapping of its
own process, alone until the file is verified, or borrows that of a usable handle,
which for that time cannot be dropped. Errors and drops let go of the mapping in
one way (`LetGo`), so one lemma serves all of them.

`AllocatorProofs` proves, for every set of workers, free-only handles and mortals,
every number of slabs, and all slab sizes and classes of which a slab holds at least
two slots and no rest (`SizesAssumption`), the invariants `ListsTruthful`,
`CleanOnce`, `OneList`, `SlotsConserved`, the action properties `MetaStable` and
`CleanCovers`, and that the allocator implements `AllocationService`, whose steps
allocate bytes nobody has or free one allocation. The invariant has four parts. `Places`: a slab is in the pool or held by one worker, and is then
on one of its lists or in its hands, also when it died with it. `Calls` and
`Cleans`: what a worker has where it is in a call. `SlotPlace`: the indices of a
slab at the five kinds of places are apart, not repeated, and on a listed slab all
of them; live allocations start at their slots and all have the `id` 0, so an index on
top of a free stack is of no allocation and `Popped` is new (`PoppedIsNew`); what is drained belongs to the
drainer, in the class it walks. `Walks`: a clean has visited the lists before the
one it walks, that one up to its cursor, and nothing of the rest. `SlotPlace` is
what lets a free that has read the metadata rely on it: its slab is listed, so its
owner cannot give it away.

On that invariant rests a second one, `Counts`, from which `Accounting` and then
all of `TypeOK` follow, of which the first invariant has everything but that the byte
counters are not negative. `Accounting` alone is not inductive: a clean that goes on
to its next slab must have nothing left to subtract, and what it drains must be of the size it
will subtract (`Subtracts`). The counter is a sum over the slabs (`Total`, a recursive
function); that one step changes it at one slab only is `TotalChange`, by induction on
the slabs, and `LocalFreeBytes` serves both the free that subtracts at once and the
drain that subtracts later, when the slab may be another worker's and of another class.

`LayoutProofs` proves, for every slab size, file size, number of workers and
request, that the loop of `join` ends where that of `create` did (`JoinAgrees`,
even where offsets are cut to 32 bits), `SmallestFit` and `RoundTrip`; and, under
the hypothesis `MetadataFits` that the metadata lies below 4 GiB, that sections are in
order (`SectionsInOrder`), that `create` refuses only what is impossible
(`RefusesOnlyImpossible`) and that the bytes handed out lie in their slab and in
the file (`SlotNotNull`). Without the hypothesis the run `layout_huge` refutes
the first of these. `JoinAgrees` needs a path argument: `Leads(m, n)` says that the
loop comes from `m` to `n`, as membership of `n` in every set closed under its
rounds, and join, which asks for as many workers as create found, stays below the
number of metadata slabs create found (`Found`) and takes the same rounds. The
provers know no powers of two but those of given numbers, so `Powers` is a table.
`Requests` allows every slab and slot, not only those that the run enumerates.

`FreeStackProofs` proves, for one thread (the hypothesis of each theorem) and every
set of capacities, that `TypeOK` and `AllSlots` (free and given indices are apart
and together all) are invariants, that no index is given out twice, and that the stack
implements `IndexStack`. `Whole` says that every slot of the slab is at one position
below the top or off the stack, `Fresh` that what the thread has read is still so. That a push never finds the stack full is a
pigeonhole argument on `Whole`.

`WorkerLocalListProofs` proves, for every set of workers, mortals, lists and slabs,
that `TypeOK`, `LinksMirrored` and `IterationExact` are invariants and that the
linked lists implement `LocalLists`. The invariant says that there are sequences
`L`, one for each list, such that for every worker (`Good`) the links of each list
that it does not work on lead along its sequence and back (`Mirrored`), those of the
list under work are as far as the operation has come (`PushOK`, `RemoveOK`, also
when the worker is dead), and the rest of an iteration is linked and is neither
touched by the body nor next to what it touches (`Iteration`). A step of one worker
writes only to nodes that are in its hands or on its lists (`OnlyMine`), so it keeps
`Good` of every other worker with the same sequences (`OthersStay`). `From`, by which the
properties read a list out of the links, is a recursive function: that it is defined
and returns `L` is proved by induction (`SetInduction`, from the
well-foundedness of the naturals). For the refinement, `PushHead` and `RemoveRight`
change one sequence and every other step none.

Only model-checked: liveness, which is out of the prover's reach (`LockFree`,
`DrainEnds`, `PushesProgress`, `CleanReturns`, `Reclaimed`, `LimitsEnd`).

## 5. Not modelled

* Weak memory orders: every access is sequentially consistent, as the
  acquire/release pairs intend.
* A generation that wraps while one operation is suspended (`NoGenWrap`).
* Two threads on one handle beyond the free stack, where it already fails.
* Two creates of one file at once, and files changed by other programs.
* Error texts, alignment wrappers and re-exports, which have no behaviour.

## 6. Plan

Done: every component but the support code, with its abstract specification
where it has one; the proofs of every safety property that a run checks, and of every
refinement. What remains, beyond what the properties ask now, is two threads of one
handle on the local lists.
