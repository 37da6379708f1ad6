---------------------------- MODULE WorkerSlots ----------------------------
(***************************************************************************)
(* The claimed words of the workers (src/src/allocator.rs): a handle scans *)
(* the indices, one compare-exchange per step, until one succeeds, and     *)
(* stores 0 when it is dropped.  Processes die between any two steps.      *)
(***************************************************************************)
EXTENDS Naturals

CONSTANTS
    Handles,        \* places for Allocator handles, in any process
    Mortal,         \* those whose process may die
    NumWorkers,     \* header.num_workers
    NoIndex

ASSUME NumWorkersAssumption == NumWorkers \in Nat \ {0}
ASSUME MortalAssumption == Mortal \subseteq Handles
ASSUME NoIndexAssumption == NoIndex \notin Nat

Indices == 0 .. NumWorkers - 1

VARIABLES
    claimed,        \* WorkerLocalListHeads::claimed of every worker
    pc,             \* where each handle is
    next,           \* the index its scan tries next
    index,          \* the worker_index it holds
    free            \* history: indices free ever since its scan began

vars == <<claimed, pc, next, index, free>>

FreeIn(words) == {i \in Indices : words[i] = 0}

Init ==
    /\ claimed = [i \in Indices |-> 0]      \* worker_local_lists stores 0
    /\ pc = [h \in Handles |-> "none"]
    /\ next = [h \in Handles |-> 0]
    /\ index = [h \in Handles |-> NoIndex]
    /\ free = [h \in Handles |-> {}]

\* Every scan in progress sees the words change.
Observe == free' = [h \in Handles |-> free[h] \cap FreeIn(claimed')]

-----------------------------------------------------------------------------
\* Mutant of First: index 0 is left out.
FirstIsOne == 1

\* claim_any_worker_index, called by create, join and join_from_existing.
First == 0

ScanCall(h) ==
    /\ pc[h] = "none"
    /\ pc' = [pc EXCEPT ![h] = "scan"]
    /\ next' = [next EXCEPT ![h] = First]
    /\ free' = [free EXCEPT ![h] = FreeIn(claimed)]
    /\ UNCHANGED <<claimed, index>>

\* Mutant of Exchanged: the exchange is not checked.
ExchangedUnchecked(i) == TRUE

\* compare_exchange(0, 1) succeeds ...
Exchanged(i) == claimed[i] = 0

ScanClaims(h) ==
    LET i == next[h]
    IN  /\ pc[h] = "scan"
        /\ i < NumWorkers
        /\ Exchanged(i)
        /\ claimed' = [claimed EXCEPT ![i] = 1]
        /\ index' = [index EXCEPT ![h] = i]
        /\ pc' = [pc EXCEPT ![h] = "held"]
        /\ Observe
        /\ UNCHANGED next

\* ... or fails, and the scan goes on.
ScanSkips(h) ==
    /\ pc[h] = "scan"
    /\ next[h] < NumWorkers
    /\ ~Exchanged(next[h])
    /\ next' = [next EXCEPT ![h] = @ + 1]
    /\ UNCHANGED <<claimed, pc, index, free>>

\* NoAvailableWorkers.
ScanFails(h) ==
    /\ pc[h] = "scan"
    /\ next[h] = NumWorkers
    /\ pc' = [pc EXCEPT ![h] = "none"]
    /\ UNCHANGED <<claimed, next, index, free>>

\* Mutant of Released: nothing is stored.
ReleasedNot(h) == claimed[index[h]]

\* Drop for Allocator: release_worker.
Released(h) == 0

Drop(h) ==
    /\ pc[h] = "held"
    /\ claimed' = [claimed EXCEPT ![index[h]] = Released(h)]
    /\ index' = [index EXCEPT ![h] = NoIndex]
    /\ pc' = [pc EXCEPT ![h] = "none"]
    /\ Observe
    /\ UNCHANGED next

\* A dead process drops nothing: its index stays claimed.
Crash(h) ==
    /\ h \in Mortal
    /\ pc[h] # "dead"
    /\ pc' = [pc EXCEPT ![h] = "dead"]
    /\ UNCHANGED <<claimed, next, index, free>>

Next ==
    \E h \in Handles :
        ScanCall(h) \/ ScanClaims(h) \/ ScanSkips(h) \/ ScanFails(h) \/ Drop(h) \/ Crash(h)

Spec == Init /\ [][Next]_vars

-----------------------------------------------------------------------------
TypeOK ==
    /\ claimed \in [Indices -> {0, 1}]
    /\ pc \in [Handles -> {"none", "scan", "held", "dead"}]
    /\ next \in [Handles -> 0 .. NumWorkers]
    /\ index \in [Handles -> Indices \cup {NoIndex}]
    /\ free \in [Handles -> SUBSET Indices]

\* A claimed word has a holder, dead or alive, so that no scan or drop leaves an
\* index claimed for nobody, and a free one is held by nobody.  (What a dead
\* process held stays held: the code takes nothing over from it.)
ClaimedHeld ==
    \A i \in Indices : (claimed[i] = 1) <=> \E h \in Handles : index[h] = i

\* Exclusive ownership, on which everything that is not atomic in the
\* allocator relies: two handles never hold one index, although all of them
\* scan the same words from the start.
Owners == [i \in Indices |-> {h \in Handles : index[h] = i}]
Abstract == INSTANCE WorkerIndices WITH owners <- Owners
RefinesIndices == Abstract!IndicesSpec

\* A scan passes no index that was free all the time: it reports that no
\* worker is available only if each index was claimed at some moment of it.
ScanHonest ==
    \A h \in Handles : pc[h] = "scan" => \A i \in free[h] : i >= next[h]

=============================================================================
