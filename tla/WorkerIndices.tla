--------------------------- MODULE WorkerIndices ---------------------------
(***************************************************************************)
(* What claiming a worker promises: an index is taken by one handle at a   *)
(* time, when nobody has it, and is free again only when that handle gives *)
(* it back.  A dead handle's index stays taken.                            *)
(***************************************************************************)
CONSTANTS Handles, Indices

VARIABLE owners     \* the handles that hold each index

IndicesInit == owners = [i \in Indices |-> {}]

Take(h, i) == owners[i] = {} /\ owners' = [owners EXCEPT ![i] = {h}]

GiveBack(h, i) == owners[i] = {h} /\ owners' = [owners EXCEPT ![i] = {}]

IndicesSpec ==
    IndicesInit /\ [][\E h \in Handles, i \in Indices : Take(h, i) \/ GiveBack(h, i)]_owners

=============================================================================
