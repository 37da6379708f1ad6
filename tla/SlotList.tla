------------------------------ MODULE SlotList ------------------------------
(***************************************************************************)
(* What the remote free list of a slab promises: freed indices are pushed  *)
(* at one instant each; the owner takes the whole list at one instant and  *)
(* then gets every index of it once, newest first.  RemoteFreeList         *)
(* implements this module; Allocator uses its push and drain as steps.     *)
(***************************************************************************)
EXTENDS Naturals, Sequences

CONSTANT NumSlots       \* capacity of the slab

Slots == 0 .. NumSlots - 1

VARIABLES
    list,           \* the indices freed remotely, newest first
    taken           \* what the current drain has still to return

listVars == <<list, taken>>

ListInit == list = <<>> /\ taken = <<>>

Push(i) ==
    /\ \A j \in DOMAIN list : list[j] # i
    /\ list' = <<i>> \o list
    /\ UNCHANGED taken

TakeAll ==
    /\ taken = <<>>
    /\ taken' = list
    /\ list' = <<>>

Return ==
    /\ taken # <<>>
    /\ taken' = Tail(taken)
    /\ UNCHANGED list

ListNext == TakeAll \/ Return \/ \E i \in Slots : Push(i)

ListSpec == ListInit /\ [][ListNext]_listVars

=============================================================================
