------------------------------- MODULE Layout -------------------------------
(***************************************************************************)
(* The layout of the file (src/src/header.rs, mod layout) and the checks   *)
(* of create and join (src/src/init.rs): how many slabs of the file hold   *)
(* metadata, how many workers fit, and where every section starts.         *)
(*                                                                         *)
(* Sizes and offsets are in words of four bytes: every one of them is a    *)
(* multiple of four bytes (the slab size is one once it is verified).  An  *)
(* offset cast to u32 is thus taken modulo 2^30 words.                     *)
(***************************************************************************)
EXTENDS Naturals

CONSTANTS
    SlabSizes,      \* the slab sizes create is called with
    TotalSlabs,     \* file_size / slab_size
    MinWorkers,     \* the min_workers create is called with
    MAX_U32         \* u32::MAX, the most slabs a file may have

ASSUME InputsAssumption ==
    SlabSizes \subseteq Nat /\ TotalSlabs \subseteq Nat /\ MinWorkers \subseteq Nat
    /\ MAX_U32 \in Nat

\* size_of and align_of the shared structures, and of the size classes.
HEADER == 32            \* Header, up to its trailing array
HEADS == 16             \* WorkerLocalListHeads
NODE == 3               \* LinkedListNode
META == 32              \* SlabMeta
META_ALIGN == 16
STACK_ALIGN == 2        \* align_of::<FreeStack>, the handle and not the data
MIN_SIZE == 64           \* the smallest class

-----------------------------------------------------------------------------
\* round_to_next_alignment_of, pad_for_slabs, usize::div_ceil.
RoundUp(value, n) == ((value + n - 1) \div n) * n

DivCeil(value, n) == (value + n - 1) \div n

AsU32(offset) == offset % 2^30

\* FreeStack::byte_size: top, capacity, and an index of two bytes per slot.
FreeStackSize(slab) == 1 + (slab \div MIN_SIZE) \div 2

\* Mutant of WithHeads: the heads are left out.
WithHeadsNot(workers) == HEADER

WithHeads(workers) == HEADER + workers * HEADS

LayoutFor(workers, slab, slabs) ==
    LET elements == WithHeads(workers)
        meta == RoundUp(elements + slabs * NODE, META_ALIGN)
        stacks == RoundUp(meta + slabs * META, STACK_ALIGN)
        end == stacks + slabs * FreeStackSize(slab)
    IN  [num_slabs |-> slabs,
         free_list_elements_offset |-> AsU32(elements),
         slab_shared_meta_offset |-> AsU32(meta),
         slab_free_stacks_offset |-> AsU32(stacks),
         slabs_offset |-> AsU32(RoundUp(end, slab))]

\* verify_slab_size counts bytes.
Classes == INSTANCE SizeClasses
VerifySlabSize(slab) == Classes!SlabSizeOK(4 * slab)

TotalSlabsOK(slabs) == slabs <= MAX_U32

-----------------------------------------------------------------------------
VARIABLES
    slab, total, min,   \* the arguments of create
    pc,                 \* where create, and the join after it, are
    meta,               \* meta_slabs of the loop of max_workers
    header              \* the header create writes

vars == <<slab, total, min, pc, meta, header>>

NoHeader == [num_workers |-> 0]
Errors == {"InvalidNumWorkers", "InvalidSlabSize", "InvalidFileSize", "InvalidHeader",
           "HeaderMismatch"}

Init ==
    /\ slab \in SlabSizes /\ total \in TotalSlabs /\ min \in MinWorkers
    /\ pc = "create"
    /\ meta = 0
    /\ header = NoHeader

\* The arguments are verified, and max_workers starts with one slab.
CreateRefuses ==
    /\ pc = "create"
    /\ \/ min = 0 /\ pc' = "InvalidNumWorkers"
       \/ min > 0 /\ ~VerifySlabSize(slab) /\ pc' = "InvalidSlabSize"
       \/ min > 0 /\ VerifySlabSize(slab) /\ ~TotalSlabsOK(total) /\ pc' = "InvalidFileSize"
    /\ UNCHANGED <<slab, total, min, meta, header>>

CreateStart ==
    /\ pc = "create"
    /\ min > 0 /\ VerifySlabSize(slab) /\ TotalSlabsOK(total)
    /\ meta' = 1
    /\ pc' = "create_limits"
    /\ UNCHANGED <<slab, total, min, header>>

\* join verifies the header again and runs max_workers for its num_workers.
JoinStart ==
    /\ pc = "created"
    /\ meta' = 1
    /\ pc' = "join_limits"
    /\ UNCHANGED <<slab, total, min, header>>

\* One round of the loop of max_workers.  The metadata of total - m slabs and
\* no worker needs Needed(m) slabs; what m slabs have beyond it is for workers.
Base(m) == LayoutFor(0, slab, total - m).slabs_offset

Needed(m) == DivCeil(Base(m), slab)

WorkersIn(m) == (m * slab - Base(m)) \div HEADS

InLimits == pc \in {"create_limits", "join_limits"}
MinNow == IF pc = "create_limits" THEN min ELSE header.num_workers

\* total_slabs.checked_sub(meta_slabs) is none, or leaves no slab.
LimitsNone ==
    /\ InLimits
    /\ total <= meta
    /\ pc' = IF pc = "create_limits" THEN "InvalidFileSize" ELSE "InvalidHeader"
    /\ UNCHANGED <<slab, total, min, meta, header>>

\* Mutant of TooFew: as many slabs as needed, no more.
TooFewExact(m) == Needed(m) # m

TooFew(m) == Needed(m) > m

LimitsRaise ==
    /\ InLimits
    /\ total > meta
    /\ TooFew(meta)
    /\ meta' = Needed(meta)
    /\ UNCHANGED <<slab, total, min, pc, header>>

\* Mutant of LimitsMore: all the slabs the missing workers take at once.
LimitsMoreAtOnce ==
    /\ InLimits
    /\ total > meta
    /\ ~TooFew(meta)
    /\ WorkersIn(meta) < MinNow
    /\ meta' = meta + DivCeil((MinNow - WorkersIn(meta)) * HEADS, slab)
    /\ UNCHANGED <<slab, total, min, pc, header>>

\* Mutant of LimitsMore: the slabs are doubled.
LimitsMoreDoubled ==
    /\ InLimits
    /\ total > meta
    /\ ~TooFew(meta)
    /\ WorkersIn(meta) < MinNow
    /\ meta' = 2 * meta
    /\ UNCHANGED <<slab, total, min, pc, header>>

LimitsMore ==
    /\ InLimits
    /\ total > meta
    /\ ~TooFew(meta)
    /\ WorkersIn(meta) < MinNow
    /\ meta' = meta + 1
    /\ UNCHANGED <<slab, total, min, pc, header>>

LimitsFound == InLimits /\ total > meta /\ ~TooFew(meta) /\ WorkersIn(meta) >= MinNow

HeaderFor(m) ==
    LET layout == LayoutFor(WorkersIn(m), slab, total - m)
    IN  [num_workers |-> WorkersIn(m), num_slabs |-> layout.num_slabs, slab_size |-> slab,
         free_list_elements_offset |-> layout.free_list_elements_offset,
         slab_shared_meta_offset |-> layout.slab_shared_meta_offset,
         slab_free_stacks_offset |-> layout.slab_free_stacks_offset,
         slabs_offset |-> layout.slabs_offset]

\* create computes the layout and writes the header.
CreateDone ==
    /\ pc = "create_limits"
    /\ LimitsFound
    /\ header' = HeaderFor(meta)
    /\ pc' = "created"
    /\ UNCHANGED <<slab, total, min, meta>>

\* join compares what it computed with what it found.
JoinDone ==
    /\ pc = "join_limits"
    /\ LimitsFound
    /\ pc' = IF header = HeaderFor(meta) THEN "joined" ELSE "HeaderMismatch"
    /\ UNCHANGED <<slab, total, min, meta, header>>

Next ==
    \/ CreateRefuses \/ CreateStart \/ CreateDone
    \/ JoinStart \/ JoinDone
    \/ LimitsNone \/ LimitsRaise \/ LimitsMore

Spec == Init /\ [][Next]_vars

-----------------------------------------------------------------------------
TypeOK ==
    /\ slab \in SlabSizes /\ total \in TotalSlabs /\ min \in MinWorkers
    /\ pc \in {"create", "create_limits", "created", "join_limits", "joined"} \cup Errors
    /\ meta \in Nat
    /\ header = NoHeader \/ header.num_workers \in Nat \ {0}

Written == header # NoHeader

\* header.rs:52-60 and 88-89: the sections follow each other in this order without
\* overlapping, the slabs begin on a multiple of the slab size, and all of
\* them are inside the file.
SectionsInOrder ==
    Written =>
      LET n == header.num_slabs
      IN  /\ HEADER + header.num_workers * HEADS <= header.free_list_elements_offset
          /\ header.free_list_elements_offset + n * NODE <= header.slab_shared_meta_offset
          /\ header.slab_shared_meta_offset + n * META <= header.slab_free_stacks_offset
          /\ header.slab_free_stacks_offset + n * FreeStackSize(slab) <= header.slabs_offset
          /\ header.slab_shared_meta_offset % META_ALIGN = 0
          /\ header.slab_free_stacks_offset % STACK_ALIGN = 0
          /\ header.slabs_offset % slab = 0
          /\ header.slabs_offset \div slab + n <= total

\* create gives up only when no number of metadata slabs would do.
RefusesOnlyImpossible ==
    pc = "InvalidFileSize" /\ TotalSlabsOK(total) =>
        ~\E m \in 1 .. total - 1 : Needed(m) <= m /\ WorkersIn(m) >= min

\* join recomputes the limits from num_workers instead of min_workers, along
\* another path of the loop, and always finds what create found.
JoinAgrees == pc \notin {"HeaderMismatch", "InvalidHeader"}

\* The loop of max_workers ends.
LimitsEnd == <>(~InLimits /\ pc \notin {"create", "created"})

=============================================================================
