---------------------------- MODULE MCAllocator ----------------------------
(* The allocator for TLC: constants, and the symmetry of its processes. *)
EXTENDS Allocator, TLC

OneClass == <<2>>
TwoClasses == <<1, 2>>

Symmetry == Permutations(Workers) \cup Permutations(Freers)

=============================================================================
