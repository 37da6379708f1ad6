-------------------------- MODULE MCRemoteFreeList --------------------------
(* The remote free list of one slab for TLC.  No symmetry: the run checks    *)
(* liveness too, for which TLC's symmetry reduction is not sound.            *)
EXTENDS RemoteFreeList

=============================================================================
