-------------------------- MODULE MCGlobalFreeList --------------------------
(* The global free list for TLC.  No symmetry: LockFree is a liveness        *)
(* property, for which TLC's symmetry reduction is not sound.                *)
EXTENDS GlobalFreeList

=============================================================================
