----------------------------- MODULE IndexStack -----------------------------
(***************************************************************************)
(* What the free stack of a slab promises its owner: a sequence of free    *)
(* slot indices, top first, with atomic reset, pop and push.  This is the  *)
(* freeStack of module Allocator.                                          *)
(***************************************************************************)
EXTENDS Naturals, Sequences

CONSTANT Capacities     \* the capacities reset is called with

VARIABLE indices

StackInit == indices = <<>>

Reset(c) == indices' = [i \in 1 .. c |-> i - 1]

Pop == indices # <<>> /\ indices' = Tail(indices)

PushIndex(i) == indices' = <<i>> \o indices

StackNext ==
    \/ Pop
    \/ \E c \in Capacities : Reset(c) \/ \E i \in 0 .. c - 1 : PushIndex(i)

StackSpec == StackInit /\ [][StackNext]_indices

=============================================================================
