------------------------- MODULE MCWorkerLocalList -------------------------
(* Local lists for TLC: slabs are interchangeable, and so are kinds. *)
EXTENDS WorkerLocalList, TLC

Symmetry == Permutations(Slabs) \cup Permutations(Kinds)

=============================================================================
