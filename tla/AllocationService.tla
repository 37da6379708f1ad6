------------------------- MODULE AllocationService -------------------------
(***************************************************************************)
(* What the allocator promises to applications, whichever handle, process  *)
(* or slab serves them: an allocation is a slot of its size, aligned to    *)
(* it within a slab, that shares no byte with another; it stays until an   *)
(* application frees it.  Allocations are told apart by their ids, not by  *)
(* their slots alone, so that two of one slot would be two elements of     *)
(* allocations; Disjoint then forbids the second.                          *)
(***************************************************************************)
EXTENDS Naturals

CONSTANTS Slabs, SlabSize, Sizes

VARIABLE allocations

Slots ==
    {a \in [slab : Slabs, offset : 0 .. SlabSize - 1, size : Sizes, id : Nat] :
        a.offset % a.size = 0 /\ a.offset + a.size <= SlabSize}

Disjoint(a, b) ==
    \/ a.slab # b.slab
    \/ a.offset + a.size <= b.offset
    \/ b.offset + b.size <= a.offset

ServiceInit == allocations = {}

Allocate(a) ==
    /\ a \in Slots
    /\ \A b \in allocations : Disjoint(a, b)
    /\ allocations' = allocations \cup {a}

Free(a) == a \in allocations /\ allocations' = allocations \ {a}

ServiceNext ==
    \/ \E a \in allocations' : Allocate(a)
    \/ \E a \in allocations : Free(a)

ServiceSpec == ServiceInit /\ [][ServiceNext]_allocations

=============================================================================
