----------------------------- MODULE Addressing -----------------------------
(***************************************************************************)
(* From the size of a request to an address and back, in a file that       *)
(* create laid out and join accepted: allocate picks a class and returns a *)
(* pointer into a slab, the application passes the pointer's offset to     *)
(* another process, and find_allocation_indexes there recovers the slab    *)
(* and the slot (src/src/allocator.rs).  A request counts bytes, Layout    *)
(* words of four bytes.                                                    *)
(***************************************************************************)
EXTENDS Layout

CONSTANTS
    Sizes,          \* the sizes allocate is called with
    NULL_U16,       \* the null link of a remote free list
    Served          \* BOUND: requests are made in files of so many slabs

ASSUME RequestsAssumption ==
    Sizes \subseteq Nat /\ Served \subseteq Nat /\ NULL_U16 = Classes!MAX_U16

VARIABLE request    \* one request, from allocate to the free of its offset

NoRequest == [stage |-> "none"]

AddressingInit == Init /\ request = NoRequest

SlabBytes == 4 * header.slab_size
SlabsStart == 4 * header.slabs_offset

-----------------------------------------------------------------------------
\* allocate: no class for a request that is empty or too large.
AllocateNone ==
    /\ pc = "joined" /\ total \in Served
    /\ request = NoRequest
    /\ \E size \in Sizes :
          /\ size = 0 \/ size > Classes!MAX_SIZE
          /\ request' = [stage |-> "refused", size |-> size]

AllocateClass ==
    /\ pc = "joined" /\ total \in Served
    /\ request = NoRequest
    /\ \E size \in Sizes :
          /\ size > 0 /\ size <= Classes!MAX_SIZE
          /\ request' = [stage |-> "class", size |-> size,
                         class |-> Classes!SizeClassIndex(size)]

\* slab_capacity as u16
Capacity(class) == (SlabBytes \div Classes!SizeClass(class)) % 2^16

\* BOUND.  Addresses are linear in the slab and the slot: the first, the
\* last, and some between.
SomeSlabs == {0, header.num_slabs - 1}
SomeSlots(class) ==
    LET n == Capacity(class) IN {0, 1, n \div 2, n - 2, n - 1} \cap 0 .. n - 1

\* Mutant of SlotOffset: slots are spaced by the requested size.
SlotOffsetTight(s, i, r) == SlabsStart + s * SlabBytes + i * r.size

\* AllocatorBase::slab, and byte_add in allocate_within_slab.
SlotOffset(s, i, r) == SlabsStart + s * SlabBytes + i * Classes!SizeClass(r.class)

AllocateWithin ==
    /\ request.stage = "class"
    /\ \E s \in SomeSlabs, i \in SomeSlots(request.class) :
          request' = [stage |-> "allocated", size |-> request.size, class |-> request.class,
                      slab_index |-> s, index_within_slab |-> i,
                      offset |-> SlotOffset(s, i, request)]

\* find_allocation_indexes: the slab's class is read from its metadata.
\* (The mask with slab_size - 1 is the remainder, for a power of two.)
FindAllocationIndexes(offset, class) ==
    LET fromStart == offset - SlabsStart
    IN  [slab_index |-> fromStart \div SlabBytes,
         index_within_slab |->
            ((fromStart % SlabBytes) \div Classes!SizeClass(class)) % 2^16]

Free ==
    /\ request.stage = "allocated"
    /\ request' = [stage |-> "freed", allocated |-> request,
                   found |-> FindAllocationIndexes(request.offset, request.class)]

Serve == AllocateNone \/ AllocateClass \/ AllocateWithin \/ Free

AddressingNext ==
    \/ Next /\ UNCHANGED request
    \/ Serve /\ UNCHANGED vars

\* The calls of create and join run to their end.
AddressingSpec ==
    /\ AddressingInit
    /\ [][AddressingNext]_<<vars, request>>
    /\ WF_vars(Next /\ UNCHANGED request)

-----------------------------------------------------------------------------
\* allocate's class is the smallest one that holds the request, and a
\* request is refused exactly when it is empty or larger than every class.
SmallestFit ==
    LET classes == 0 .. Classes!NUM_SIZE_CLASSES - 1
    IN  /\ request.stage = "class" =>
              /\ Classes!SizeClass(request.class) >= request.size
              /\ \A i \in 0 .. request.class - 1 : Classes!SizeClass(i) < request.size
        /\ request.stage = "refused" =>
              request.size = 0 \/ \A i \in classes : Classes!SizeClass(i) < request.size

\* The process that frees finds the slab and the slot that allocate used,
\* wherever the slabs of this file begin, with sixteen bits for the slot.
RoundTrip ==
    request.stage = "freed" =>
        \A field \in {"slab_index", "index_within_slab"} :
            request.found[field] = request.allocated[field]

\* Sixteen bits hold the number of slots of a slab, no slot has the index that
\* ends a remote free list, and the bytes handed out end inside the slab and
\* the file.
SlotNotNull ==
    /\ request.stage = "class" =>
          Capacity(request.class) * Classes!SizeClass(request.class) = SlabBytes
    /\ request.stage = "allocated" =>
          /\ request.index_within_slab < NULL_U16
          /\ request.offset + request.size
               <= SlabsStart + (request.slab_index + 1) * SlabBytes
          /\ request.offset + request.size <= total * SlabBytes

=============================================================================
