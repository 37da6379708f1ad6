----------------------------- MODULE Lifecycle -----------------------------
(***************************************************************************)
(* The life of an allocator file (src/src/init.rs, src/src/allocator.rs):  *)
(* processes create, join, share mappings between handles, drop handles,   *)
(* fail and die, between any two accesses to the file.                     *)
(*                                                                         *)
(* Callers keep the contract of create: no two creates of one file run at  *)
(* once.  A handle is a place for an Allocator or FreeOnlyAllocator.       *)
(***************************************************************************)
EXTENDS Naturals, Sequences, FiniteSets

CONSTANTS
    Processes, Handles,
    ProcessOf,      \* the process of each handle
    Mortal,         \* processes that may die, and start again
    Regions,        \* names for mappings
    NumWorkers,
    None            \* no process, no handle, no region, no index

ASSUME ProcessOfAssumption ==
    ProcessOf \in [Handles -> Processes] /\ Mortal \subseteq Processes
ASSUME RegionsAssumption ==     \* a mapping for each handle
    /\ IsFiniteSet(Handles) /\ IsFiniteSet(Regions)
    /\ Cardinality(Regions) >= Cardinality(Handles)
ASSUME NumWorkersAssumption == NumWorkers \in Nat \ {0}
ASSUME NoneAssumption == None \notin Processes \cup Handles \cup Regions \cup Nat

Indices == 0 .. NumWorkers - 1

VARIABLES
    sized,          \* the file's length is file_size, no longer 0
    written,        \* the parts of the file that are initialized
    claimed,        \* the claimed words
    mapped,         \* the process that maps each region, or None
    pc,             \* where each handle is
    at,             \* its step in initialize, or the index its scan tries
    region,         \* its mapping
    lender,         \* the handle a join_from_existing borrows
    index,          \* its worker_index
    lost            \* history: the indices of handles that died

file == <<sized, written, claimed>>
locals == <<pc, at, region, lender, index>>
vars == <<file, mapped, locals, lost>>

Init ==
    /\ sized = FALSE /\ written = {}
    /\ claimed = [i \in Indices |-> 0]
    /\ mapped = [r \in Regions |-> None]
    /\ pc = [h \in Handles |-> "none"]
    /\ at = [h \in Handles |-> 0]
    /\ region = [h \in Handles |-> None]
    /\ lender = [h \in Handles |-> None]
    /\ index = [h \in Handles |-> None]
    /\ lost = {}

Goto(h, label) == pc' = [pc EXCEPT ![h] = label]

\* An operation of h that returns an error, or a drop, leaves no handle.
Gone(h) ==
    /\ Goto(h, "none")
    /\ at' = [at EXCEPT ![h] = 0]
    /\ region' = [region EXCEPT ![h] = None]
    /\ lender' = [lender EXCEPT ![h] = None]
    /\ index' = [index EXCEPT ![h] = None]

\* map_file, which fails or returns a new mapping.
Map(h, then) ==
    \/ Gone(h) /\ UNCHANGED mapped
    \/ \E r \in Regions :
          /\ mapped[r] = None
          /\ mapped' = [mapped EXCEPT ![r] = ProcessOf[h]]
          /\ region' = [region EXCEPT ![h] = r]
          /\ Goto(h, then)
          /\ UNCHANGED <<at, lender, index>>

Unmap(r) == mapped' = [mapped EXCEPT ![r] = None]

\* Mutant of DropRegion: the mapping goes with any of its handles.
DropRegionAlways(h) == Unmap(region[h])

\* Arc<MappedRegion>: the last handle of a mapping unmaps it.
DropRegion(h) ==
    IF \E g \in Handles \ {h} : region[g] = region[h] THEN UNCHANGED mapped ELSE Unmap(region[h])

-----------------------------------------------------------------------------
Creating == {"create_len", "create_resize", "create_map", "initialize"}

CreateCall(h) ==
    /\ pc[h] = "none"
    /\ \A g \in Handles : pc[g] \notin Creating
    /\ Goto(h, "create_len")
    /\ UNCHANGED <<file, mapped, at, region, lender, index, lost>>

\* Mutant of MayCreate: the length is not checked.
MayCreateAny == TRUE

\* file.metadata()?.len() != 0 is an error ...
MayCreate == ~sized

CreateLen(h) ==
    /\ pc[h] = "create_len"
    /\ IF MayCreate
       THEN Goto(h, "create_resize") /\ UNCHANGED <<at, region, lender, index>>
       ELSE Gone(h)
    /\ UNCHANGED <<file, mapped, lost>>

\* ... and so may be set_len and map_file.
CreateResize(h) ==
    /\ pc[h] = "create_resize"
    /\ \/ Gone(h) /\ UNCHANGED sized
       \/ /\ sized' = TRUE
          /\ Goto(h, "create_map")
          /\ UNCHANGED <<at, region, lender, index>>
    /\ UNCHANGED <<written, claimed, mapped, lost>>

CreateMap(h) ==
    /\ pc[h] = "create_map"
    /\ Map(h, "initialize")
    /\ UNCHANGED <<file, lost>>

\* Mutant of InitOrder: the magic number goes with the header.
InitOrderMagicFirst == <<"magic", "header", "worker_local_lists", "free_list_elements",
                         "slab_shared_meta">>

\* initialize::allocator.
InitOrder == <<"header", "worker_local_lists", "free_list_elements", "slab_shared_meta",
               "magic">>

Initialize(h) ==
    LET step == at[h] + 1
    IN  /\ pc[h] = "initialize"
        /\ written' = written \cup {InitOrder[step]}
        /\ claimed' = IF InitOrder[step] = "worker_local_lists"
                      THEN [i \in Indices |-> 0]
                      ELSE claimed
        /\ IF step = Len(InitOrder)
           THEN Goto(h, "scan") /\ at' = [at EXCEPT ![h] = 0]
           ELSE at' = [at EXCEPT ![h] = step] /\ UNCHANGED pc
        /\ UNCHANGED <<sized, mapped, region, lender, index, lost>>

-----------------------------------------------------------------------------
\* init::join: the length is read (a shorter file than the header is refused
\* at once), and the file mapped.
JoinLen(h) ==
    /\ pc[h] = "none"
    /\ sized
    /\ Goto(h, "join_map")
    /\ UNCHANGED <<file, mapped, at, region, lender, index, lost>>

JoinMap(h) ==
    /\ pc[h] = "join_map"
    /\ Map(h, "join_verify")
    /\ UNCHANGED <<file, lost>>

\* Mutant of Refuse: the mapping is left.
RefuseLeaks(h) == UNCHANGED mapped

\* An error of join_inner unmaps.
Refuse(h) == Unmap(region[h])

\* join_inner loads the magic number, which vouches for the fields it compares
\* then.  An Allocator goes on to claim; a FreeOnlyAllocator is complete.
JoinVerify(h) ==
    /\ pc[h] = "join_verify"
    /\ IF "magic" \in written
       THEN /\ Goto(h, "scan") \/ Goto(h, "free_only")
            /\ UNCHANGED <<mapped, at, region, lender, index>>
       ELSE Refuse(h) /\ Gone(h)
    /\ UNCHANGED <<file, lost>>

\* join_from_existing: an Allocator first claims through the mapping of g,
\* which it borrows; a FreeOnlyAllocator clones the Arc.
Usable(g) == pc[g] \in {"live", "free_only"}

JoinExisting(h, g) ==
    /\ pc[h] = "none"
    /\ Usable(g) /\ ProcessOf[g] = ProcessOf[h]
    /\ \/ Goto(h, "scan") /\ lender' = [lender EXCEPT ![h] = g] /\ UNCHANGED region
       \/ /\ Goto(h, "free_only")
          /\ region' = [region EXCEPT ![h] = region[g]]
          /\ UNCHANGED lender
    /\ UNCHANGED <<file, mapped, at, index, lost>>

\* The mapping h reads and writes.
Through(h) == IF lender[h] = None THEN region[h] ELSE region[lender[h]]

\* claim_any_worker_index: one compare-exchange after the other.  A join that
\* borrowed clones the Arc when it has an index.
ScanClaims(h) ==
    /\ pc[h] = "scan"
    /\ at[h] < NumWorkers
    /\ claimed[at[h]] = 0
    /\ claimed' = [claimed EXCEPT ![at[h]] = 1]
    /\ index' = [index EXCEPT ![h] = at[h]]
    /\ at' = [at EXCEPT ![h] = 0]
    /\ region' = [region EXCEPT ![h] = Through(h)]
    /\ lender' = [lender EXCEPT ![h] = None]
    /\ Goto(h, "live")
    /\ UNCHANGED <<sized, written, mapped, lost>>

ScanSkips(h) ==
    /\ pc[h] = "scan"
    /\ at[h] < NumWorkers
    /\ claimed[at[h]] # 0
    /\ at' = [at EXCEPT ![h] = @ + 1]
    /\ UNCHANGED <<file, mapped, pc, region, lender, index, lost>>

\* NoAvailableWorkers: a mapping of its own is dropped with the base.
ScanFails(h) ==
    /\ pc[h] = "scan"
    /\ at[h] = NumWorkers
    /\ IF lender[h] = None THEN DropRegion(h) ELSE UNCHANGED mapped
    /\ Gone(h)
    /\ UNCHANGED <<file, lost>>

\* Drop for Allocator: release_worker, then its mapping as for every handle.
\* What is borrowed is not dropped.
Released(h) == 0

NotBorrowed(h) == \A g \in Handles : lender[g] # h

Release(h) ==
    /\ pc[h] = "live" /\ NotBorrowed(h)
    /\ claimed' = [claimed EXCEPT ![index[h]] = Released(h)]
    /\ index' = [index EXCEPT ![h] = None]
    /\ Goto(h, "drop_region")
    /\ UNCHANGED <<sized, written, mapped, at, region, lender, lost>>

ReleaseRegion(h) ==
    /\ pc[h] = "drop_region" \/ (pc[h] = "free_only" /\ NotBorrowed(h))
    /\ DropRegion(h)
    /\ Gone(h)
    /\ UNCHANGED <<file, lost>>

\* A process dies: handles and mappings go, the file stays as it is.
Crash(p) ==
    LET dying == {h \in Handles : ProcessOf[h] = p}
        Reset(f, value) == [h \in Handles |-> IF h \in dying THEN value ELSE f[h]]
    IN  /\ p \in Mortal
        /\ lost' = lost \cup {index[h] : h \in {g \in dying : index[g] # None}}
        /\ pc' = Reset(pc, "none")
        /\ at' = Reset(at, 0)
        /\ region' = Reset(region, None)
        /\ lender' = Reset(lender, None)
        /\ index' = Reset(index, None)
        /\ mapped' = [r \in Regions |-> IF mapped[r] = p THEN None ELSE mapped[r]]
        /\ UNCHANGED file

Next ==
    \/ \E h \in Handles :
          \/ CreateCall(h) \/ CreateLen(h) \/ CreateResize(h) \/ CreateMap(h) \/ Initialize(h)
          \/ JoinLen(h) \/ JoinMap(h) \/ JoinVerify(h)
          \/ \E g \in Handles : JoinExisting(h, g)
          \/ ScanClaims(h) \/ ScanSkips(h) \/ ScanFails(h)
          \/ Release(h) \/ ReleaseRegion(h)
    \/ \E p \in Processes : Crash(p)

Spec == Init /\ [][Next]_vars

-----------------------------------------------------------------------------
PCs == {"none", "create_len", "create_resize", "create_map", "initialize", "join_map",
        "join_verify", "scan", "live", "free_only", "drop_region"}

TypeOK ==
    /\ sized \in BOOLEAN /\ written \subseteq {InitOrder[i] : i \in DOMAIN InitOrder}
    /\ claimed \in [Indices -> {0, 1}]
    /\ mapped \in [Regions -> Processes \cup {None}]
    /\ pc \in [Handles -> PCs]
    /\ at \in [Handles -> 0 .. Len(InitOrder) + NumWorkers]
    /\ region \in [Handles -> Regions \cup {None}]
    /\ lender \in [Handles -> Handles \cup {None}]
    /\ index \in [Handles -> Indices \cup {None}]
    /\ lost \subseteq Indices

\* init.rs:173-175: a handle that claims, allocates or frees does so in a file
\* that is wholly initialized, although joins run at any moment of a create
\* and a create may die or fail at any point and leave the file as it is.
HandlesComplete ==
    \A h \in Handles : pc[h] \in {"scan", "live", "free_only", "drop_region"} =>
        \A i \in DOMAIN InitOrder : InitOrder[i] \in written

\* One handle per worker index, over creates that come too late, joins,
\* failed scans, drops and deaths: the claimed indices are those of living
\* handles, each of one, and those lost with a process, which nobody gets.
IndicesOwned ==
    /\ \A h, g \in Handles : index[h] # None /\ index[h] = index[g] => h = g
    /\ \A i \in Indices :
          (claimed[i] = 1) <=> i \in lost \/ \E h \in Handles : index[h] = i
    /\ \A h \in Handles : index[h] \notin lost

\* Nothing is accessed through a mapping that is gone: a handle that
\* initializes, verifies, scans (also through a borrowed mapping), works or
\* still has to drop has its process's mapping.
MappedWhenUsed ==
    \A h \in Handles :
        pc[h] \in {"initialize", "join_verify", "scan", "live", "free_only", "drop_region"} =>
            Through(h) \in Regions /\ mapped[Through(h)] = ProcessOf[h]

\* No mapping outlives its handles, whichever operation fails.
NoMappingLeaks ==
    \A r \in Regions : mapped[r] # None =>
        \E h \in Handles : region[h] = r /\ ProcessOf[h] = mapped[r]

=============================================================================
