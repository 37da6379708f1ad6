----------------------------- MODULE LocalLists -----------------------------
(***************************************************************************)
(* What a worker's local lists promise: sequences of slabs, a slab on one  *)
(* of them at a time, pushed at the head and removed from anywhere.  These *)
(* are the partial and full lists of module Allocator.                     *)
(***************************************************************************)
EXTENDS Naturals, Sequences

CONSTANTS Lists, Slabs

VARIABLE lists

\* The list without one of its elements.
Without(seq, s) ==
    LET i == CHOOSE j \in DOMAIN seq : seq[j] = s
    IN  SubSeq(seq, 1, i - 1) \o SubSeq(seq, i + 1, Len(seq))

SlabsOn(l) == {lists[l][i] : i \in DOMAIN lists[l]}

ListsInit == lists = [l \in Lists |-> <<>>]

PushOn(l, s) ==
    /\ \A m \in Lists : s \notin SlabsOn(m)
    /\ lists' = [lists EXCEPT ![l] = <<s>> \o @]

RemoveFrom(l, s) ==
    /\ s \in SlabsOn(l)
    /\ lists' = [lists EXCEPT ![l] = Without(@, s)]

ListsSpec ==
    ListsInit /\ [][\E l \in Lists, s \in Slabs : PushOn(l, s) \/ RemoveFrom(l, s)]_lists

=============================================================================
