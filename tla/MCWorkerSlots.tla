--------------------------- MODULE MCWorkerSlots ---------------------------
(* Worker slots for TLC: handles that share a fate are interchangeable. *)
EXTENDS WorkerSlots, TLC

Symmetry == Permutations(Handles \ Mortal)

=============================================================================
