--------------------------- MODULE LifecycleProofs ---------------------------
(***************************************************************************)
(* The life of an allocator file is safe for every number of processes,    *)
(* handles, workers and deaths: no handle works in a file that is not      *)
(* wholly initialized, indices have one owner, mappings outlive their uses *)
(* and nothing else.                                                       *)
(***************************************************************************)
EXTENDS Lifecycle, TLAPS

USE ProcessOfAssumption, NumWorkersAssumption, NoneAssumption

\* What a create has done so far: it is alone with the file until the magic
\* number is there, for the length is set once and a later create sees it.
Parts(n) == {InitOrder[i] : i \in 1 .. n}
CreatorAlone ==
    /\ ~sized => written = {}
    /\ "magic" \in written => written = Parts(5)
    /\ \A h, g \in Handles : pc[h] \in Creating /\ pc[g] \in Creating => h = g
    /\ \A h \in Handles :
          /\ pc[h] = "create_resize" => ~sized
          /\ pc[h] = "create_map" => sized /\ written = {}
          /\ pc[h] = "initialize" => sized /\ at[h] \in 0 .. 4 /\ written = Parts(at[h])
          /\ pc[h] \notin {"initialize", "scan"} => at[h] = 0

\* Whoever got past the magic number, or died with an index, saw it.
Complete ==
    /\ lost # {} => "magic" \in written
    /\ \A h \in Handles :
          pc[h] \in {"scan", "live", "free_only", "drop_region"} => "magic" \in written

\* A handle has an index exactly while it is a live Allocator.
IndexHeld == \A h \in Handles : index[h] # None <=> pc[h] = "live"

\* A handle has a mapping of its process from map_file to its end, alone
\* until the file is verified; or it borrows that of a usable handle.
Mapless == {"none", "create_len", "create_resize", "create_map", "join_map"}
HoldsMapping ==
    \A h \in Handles :
        /\ region[h] # None => mapped[region[h]] = ProcessOf[h]
        /\ pc[h] \in Mapless => region[h] = None
        /\ pc[h] \notin Mapless => (region[h] = None <=> lender[h] # None)
        /\ pc[h] = "join_verify" => \A g \in Handles : region[g] = region[h] => g = h
Borrows ==
    \A h \in Handles : lender[h] # None =>
        /\ pc[h] = "scan"
        /\ Usable(lender[h]) /\ ProcessOf[lender[h]] = ProcessOf[h]

IInv ==
    /\ TypeOK /\ CreatorAlone /\ Complete
    /\ IndexHeld /\ IndicesOwned
    /\ HoldsMapping /\ Borrows /\ NoMappingLeaks

-----------------------------------------------------------------------------
\* The five parts, and what the first n of them are.
LEMMA PartsFacts ==
  /\ Len(InitOrder) = 5 /\ DOMAIN InitOrder = 1 .. 5
  /\ InitOrder[5] = "magic" /\ Parts(0) = {}
  /\ \A n \in 1 .. 4 : InitOrder[n] # "magic"
  /\ \A n \in 0 .. 4 : "magic" \notin Parts(n)
  /\ \A n \in 0 .. 4 : Parts(n + 1) = Parts(n) \cup {InitOrder[n + 1]}
<1>1. /\ Len(InitOrder) = 5 /\ DOMAIN InitOrder = 1 .. 5
      /\ InitOrder[5] = "magic"
      /\ \A n \in 1 .. 4 : InitOrder[n] # "magic"
  <2>1. /\ InitOrder[1] = "header" /\ InitOrder[2] = "worker_local_lists"
        /\ InitOrder[3] = "free_list_elements" /\ InitOrder[4] = "slab_shared_meta"
        /\ InitOrder[5] = "magic"
        /\ Len(InitOrder) = 5 /\ DOMAIN InitOrder = 1 .. 5
    BY DEF InitOrder
  <2>2. \A n \in 1 .. 4 : n = 1 \/ n = 2 \/ n = 3 \/ n = 4
    OBVIOUS
  <2> QED BY <2>1, <2>2
<1>2. Parts(0) = {}
  BY DEF Parts
<1>3. \A n \in 0 .. 4 : "magic" \notin Parts(n)
  BY <1>1 DEF Parts
<1>4. \A n \in 0 .. 4 : Parts(n + 1) = Parts(n) \cup {InitOrder[n + 1]}
  <2> TAKE n \in 0 .. 4
  <2>1. \A i : i \in 1 .. n + 1 <=> (i \in 1 .. n \/ i = n + 1)
    OBVIOUS
  <2> QED BY <2>1 DEF Parts
<1> QED BY <1>1, <1>2, <1>3, <1>4

\* None is not an index.
LEMMA NoneNoIndex == None \notin Indices
  BY DEF Indices

\* At first there is an empty file and no handle.
LEMMA InitIInv == Init => IInv
<1> SUFFICES ASSUME Init PROVE IInv
  OBVIOUS
<1>1. TypeOK
  <2>1. 0 \in 0 .. Len(InitOrder) + NumWorkers
    BY PartsFacts
  <2> QED BY <2>1 DEF Init, TypeOK, PCs
<1>2. CreatorAlone /\ Complete /\ IndexHeld /\ IndicesOwned
  BY DEF Init, CreatorAlone, Complete, IndexHeld, IndicesOwned, Creating, Indices
<1>3. HoldsMapping /\ Borrows /\ NoMappingLeaks
  BY DEF Init, HoldsMapping, Borrows, NoMappingLeaks, Mapless
<1> QED BY <1>1, <1>2, <1>3 DEF IInv

\* What going to a label, or to nothing, does to every handle.
LEMMA GotoFields ==
  ASSUME TypeOK, NEW h \in Handles, NEW label \in PCs, Goto(h, label)
  PROVE  /\ pc' \in [Handles -> PCs]
         /\ \A g \in Handles : pc'[g] = IF g = h THEN label ELSE pc[g]
  BY DEF TypeOK, Goto

\* What a handle that goes leaves in the fields of every handle.
LEMMA GoneFields ==
  ASSUME TypeOK, NEW h \in Handles, Gone(h)
  PROVE  /\ pc' \in [Handles -> PCs]
         /\ at' \in [Handles -> 0 .. Len(InitOrder) + NumWorkers]
         /\ region' \in [Handles -> Regions \cup {None}]
         /\ lender' \in [Handles -> Handles \cup {None}]
         /\ index' \in [Handles -> Indices \cup {None}]
         /\ \A g \in Handles :
               /\ pc'[g] = IF g = h THEN "none" ELSE pc[g]
               /\ at'[g] = IF g = h THEN 0 ELSE at[g]
               /\ region'[g] = IF g = h THEN None ELSE region[g]
               /\ lender'[g] = IF g = h THEN None ELSE lender[g]
               /\ index'[g] = IF g = h THEN None ELSE index[g]
  BY PartsFacts DEF TypeOK, Gone, Goto, PCs

\* What every handle that may go away, on an error or on a drop, does with
\* its mapping: unmap it if it is the last one to have it.
LetGo(h) == IF region[h] = None THEN UNCHANGED mapped ELSE DropRegion(h)

\* What letting go does to the mappings: the last holder unmaps.
LEMMA LetGoFields ==
  ASSUME IInv, NEW h \in Handles, LetGo(h)
  PROVE  /\ mapped' \in [Regions -> Processes \cup {None}]
         /\ \A r \in Regions : mapped'[r] =
               IF region[h] = r /\ (\A g \in Handles \ {h} : region[g] # r)
               THEN None ELSE mapped[r]
<1> USE DEF IInv
<1>1. CASE region[h] = None
  BY <1>1 DEF LetGo, TypeOK
<1>2. CASE region[h] # None
  BY <1>2 DEF LetGo, DropRegion, Unmap, TypeOK
<1> QED BY <1>1, <1>2

\* A handle that has no index and lends no mapping may go away.
LEMMA GoneStep ==
  ASSUME IInv, NEW h \in Handles, Gone(h), LetGo(h), UNCHANGED <<file, lost>>,
         pc[h] # "live", NotBorrowed(h)
  PROVE  IInv'
<1>1. TypeOK /\ index[h] = None
  BY DEF IInv, IndexHeld
<1>2. \A g \in Handles :
               /\ pc'[g] = IF g = h THEN "none" ELSE pc[g]
               /\ at'[g] = IF g = h THEN 0 ELSE at[g]
               /\ region'[g] = IF g = h THEN None ELSE region[g]
               /\ lender'[g] = IF g = h THEN None ELSE lender[g]
               /\ index'[g] = index[g]
  BY <1>1, GoneFields
<1>3. \A r \in Regions : mapped'[r] =
         IF region[h] = r /\ (\A g \in Handles \ {h} : region[g] # r) THEN None ELSE mapped[r]
  BY LetGoFields
<1>4. sized' = sized /\ written' = written /\ claimed' = claimed /\ lost' = lost
  BY DEF file
<1>5. TypeOK'
  BY <1>1, <1>4, GoneFields, LetGoFields DEF TypeOK
<1>6. CreatorAlone'
  BY <1>2, <1>4 DEF IInv, CreatorAlone, Creating
<1>7. Complete' /\ IndexHeld'
  BY <1>1, <1>2, <1>4 DEF IInv, Complete, IndexHeld
<1>8. IndicesOwned'
  BY <1>2, <1>4 DEF IInv, IndicesOwned
<1>9. HoldsMapping'
  <2> SUFFICES ASSUME NEW g \in Handles
               PROVE  /\ region'[g] # None => mapped'[region'[g]] = ProcessOf[g]
                      /\ pc'[g] \in Mapless => region'[g] = None
                      /\ pc'[g] \notin Mapless => (region'[g] = None <=> lender'[g] # None)
                      /\ pc'[g] = "join_verify" =>
                            \A f \in Handles : region'[f] = region'[g] => f = g
    BY DEF HoldsMapping
  <2>1. CASE g = h
    BY <2>1, <1>2 DEF Mapless
  <2>2. CASE g # h
    <3>1. region[g] # None => region[g] \in Regions /\ mapped'[region[g]] = mapped[region[g]]
      BY <1>1, <1>3, <2>2 DEF TypeOK
    <3>2. pc[g] = "join_verify" => region[g] # None
      BY DEF IInv, HoldsMapping, Mapless, Borrows
    <3> QED BY <2>2, <3>1, <3>2, <1>2 DEF IInv, HoldsMapping
  <2> QED BY <2>1, <2>2
<1>10. Borrows'
  BY <1>1, <1>2 DEF IInv, Borrows, NotBorrowed, Usable, TypeOK
<1>11. NoMappingLeaks'
  BY <1>2, <1>3 DEF IInv, NoMappingLeaks, HoldsMapping
<1> QED BY <1>5, <1>6, <1>7, <1>8, <1>9, <1>10, <1>11 DEF IInv

-----------------------------------------------------------------------------
\* Steps that only move a handle on: a create is called alone, finds the
\* length 0; a join is called; join_inner finds the magic number.
Moves(h) ==
    \/ CreateCall(h)
    \/ CreateLen(h) /\ pc'[h] = "create_resize"
    \/ JoinLen(h)
    \/ JoinVerify(h) /\ pc'[h] # "none"

\* Steps that only move a handle on, in a call that changes nothing shared.
LEMMA MoveStep ==
  ASSUME IInv, NEW h \in Handles, Moves(h)
  PROVE  IInv'
<1>0. TypeOK
  BY DEF IInv
<1>1. PICK label \in {"create_len", "create_resize", "join_map", "scan", "free_only"} :
         Goto(h, label)
  BY <1>0 DEF Moves, CreateCall, CreateLen, JoinLen, JoinVerify, Gone, Goto, TypeOK
<1>2. /\ pc' \in [Handles -> PCs]
      /\ \A g \in Handles : pc'[g] = IF g = h THEN label ELSE pc[g]
  BY <1>0, <1>1, GotoFields DEF PCs
<1>3. UNCHANGED <<file, mapped, at, region, lender, index, lost>>
  BY <1>0, <1>1, <1>2 DEF Moves, CreateCall, CreateLen, JoinLen, JoinVerify, Gone, Goto, TypeOK
<1>4. /\ label = "create_len" => pc[h] = "none" /\ \A g \in Handles : pc[g] \notin Creating
      /\ label = "create_resize" => pc[h] = "create_len" /\ ~sized
      /\ label = "join_map" => pc[h] = "none"
      /\ label \in {"scan", "free_only"} => pc[h] = "join_verify" /\ "magic" \in written
  BY <1>0, <1>2 DEF Moves, CreateCall, CreateLen, JoinLen, JoinVerify, MayCreate, Gone, Goto,
                    TypeOK
<1>5. TypeOK'
  BY <1>0, <1>2, <1>3 DEF TypeOK, file
<1>6. CreatorAlone'
  BY <1>2, <1>3, <1>4 DEF IInv, CreatorAlone, Creating, file
<1>7. Complete'
  BY <1>2, <1>3, <1>4 DEF IInv, Complete, file
<1>8. IndexHeld' /\ IndicesOwned'
  BY <1>2, <1>3, <1>4 DEF IInv, IndexHeld, IndicesOwned, file
<1>9. HoldsMapping'
  BY <1>2, <1>3, <1>4 DEF IInv, HoldsMapping, Mapless
<1>10. Borrows'
  BY <1>0, <1>1, <1>2, <1>3, <1>4 DEF IInv, Borrows, Usable, TypeOK
<1>11. NoMappingLeaks'
  BY <1>3 DEF IInv, NoMappingLeaks
<1> QED BY <1>5, <1>6, <1>7, <1>8, <1>9, <1>10, <1>11 DEF IInv

\* A handle that ends: on an error of create or join, on a scan that finds no
\* index, or when it is dropped.
Ends(h) ==
    \/ (CreateLen(h) \/ CreateResize(h) \/ CreateMap(h) \/ JoinMap(h) \/ JoinVerify(h)) /\ Gone(h)
    \/ ScanFails(h) \/ ReleaseRegion(h)

\* Steps that end a call with an error, or a drop: the handle and its share of
\* the mapping go.
LEMMA EndStep ==
  ASSUME IInv, NEW h \in Handles, Ends(h)
  PROVE  IInv'
<1>0. TypeOK
  BY DEF IInv
<1>1. CASE (CreateLen(h) \/ CreateResize(h) \/ CreateMap(h) \/ JoinMap(h)) /\ Gone(h)
  <2>1. pc'[h] = "none"
    BY <1>0, <1>1, GoneFields
  <2>2. UNCHANGED <<file, lost, mapped>>
    BY <1>0, <1>1, <2>1 DEF CreateLen, CreateResize, CreateMap, JoinMap, Map, Goto, TypeOK, file
  <2>3. pc[h] \in Mapless \ {"none"}
    BY <1>1 DEF CreateLen, CreateResize, CreateMap, JoinMap, Mapless
  <2>4. region[h] = None /\ NotBorrowed(h)
    BY <2>3 DEF IInv, HoldsMapping, Borrows, NotBorrowed, Usable, Mapless
  <2> QED BY <1>1, <2>2, <2>3, <2>4, GoneStep DEF LetGo, Mapless
<1>2. CASE JoinVerify(h) /\ Gone(h)
  <2>1. pc'[h] = "none" /\ pc[h] = "join_verify"
    BY <1>0, <1>2, GoneFields DEF JoinVerify
  <2>2. UNCHANGED <<file, lost>> /\ Refuse(h)
    BY <1>0, <1>2, <2>1 DEF JoinVerify, Goto, TypeOK
  <2>3. region[h] # None /\ \A g \in Handles : region[g] = region[h] => g = h
    BY <2>1 DEF IInv, HoldsMapping, Mapless, Borrows
  <2>4. LetGo(h)
    BY <2>2, <2>3 DEF LetGo, DropRegion, Refuse
  <2>5. NotBorrowed(h)
    BY <2>1 DEF IInv, Borrows, NotBorrowed, Usable
  <2> QED BY <1>2, <2>1, <2>2, <2>4, <2>5, GoneStep
<1>3. CASE ScanFails(h)
  <2>1. pc[h] = "scan"
    BY <1>3 DEF ScanFails
  <2>2. LetGo(h)
    BY <1>3, <2>1 DEF ScanFails, LetGo, IInv, HoldsMapping, Mapless
  <2>3. NotBorrowed(h)
    BY <2>1 DEF IInv, Borrows, NotBorrowed, Usable
  <2> QED BY <1>3, <2>1, <2>2, <2>3, GoneStep DEF ScanFails
<1>4. CASE ReleaseRegion(h)
  <2>1. pc[h] \in {"drop_region", "free_only"}
    BY <1>4 DEF ReleaseRegion
  <2>2. region[h] # None
    BY <2>1 DEF IInv, HoldsMapping, Borrows, Mapless
  <2>3. NotBorrowed(h)
    BY <1>4 DEF ReleaseRegion, IInv, Borrows, NotBorrowed, Usable
  <2> QED BY <1>4, <2>1, <2>2, <2>3, GoneStep DEF ReleaseRegion, LetGo
<1> QED BY <1>1, <1>2, <1>3, <1>4 DEF Ends


\* set_len succeeds: from now on nobody else may create.
LEMMA ResizeStep ==
  ASSUME IInv, NEW h \in Handles, CreateResize(h), ~Gone(h)
  PROVE  IInv'
<1>0. TypeOK
  BY DEF IInv
<1>1. /\ pc[h] = "create_resize" /\ sized' = TRUE
      /\ Goto(h, "create_map")
      /\ UNCHANGED <<written, claimed, mapped, at, region, lender, index, lost>>
  BY DEF CreateResize
<1>2. /\ pc' \in [Handles -> PCs]
      /\ \A g \in Handles : pc'[g] = IF g = h THEN "create_map" ELSE pc[g]
  BY <1>0, <1>1, GotoFields DEF PCs
<1>3. TypeOK'
  BY <1>0, <1>1, <1>2 DEF TypeOK
<1>4. CreatorAlone'
  BY <1>1, <1>2 DEF IInv, CreatorAlone, Creating
<1>5. Complete' /\ IndexHeld' /\ IndicesOwned'
  BY <1>1, <1>2 DEF IInv, Complete, IndexHeld, IndicesOwned
<1>6. HoldsMapping'
  BY <1>1, <1>2 DEF IInv, HoldsMapping, Mapless
<1>7. Borrows' /\ NoMappingLeaks'
  BY <1>0, <1>1, <1>2 DEF IInv, Borrows, Usable, NoMappingLeaks, TypeOK
<1> QED BY <1>3, <1>4, <1>5, <1>6, <1>7 DEF IInv

\* map_file succeeds: the new mapping is this handle's alone.
LEMMA MapStep ==
  ASSUME IInv, NEW h \in Handles, CreateMap(h) \/ JoinMap(h), ~Gone(h)
  PROVE  IInv'
<1>0. TypeOK
  BY DEF IInv
<1>1. PICK then \in {"initialize", "join_verify"}, r \in Regions :
         /\ pc[h] = IF then = "initialize" THEN "create_map" ELSE "join_map"
         /\ mapped[r] = None
         /\ mapped' = [mapped EXCEPT ![r] = ProcessOf[h]]
         /\ region' = [region EXCEPT ![h] = r]
         /\ Goto(h, then)
         /\ UNCHANGED <<file, at, lender, index, lost>>
  BY DEF CreateMap, JoinMap, Map
<1>2. /\ pc' \in [Handles -> PCs]
      /\ \A g \in Handles : pc'[g] = IF g = h THEN then ELSE pc[g]
  BY <1>0, <1>1, GotoFields DEF PCs
<1>3. /\ \A g \in Handles : region'[g] = IF g = h THEN r ELSE region[g]
      /\ \A q \in Regions : mapped'[q] = IF q = r THEN ProcessOf[h] ELSE mapped[q]
  BY <1>0, <1>1 DEF TypeOK
<1>4. \A g \in Handles : region[g] # r
  BY <1>1 DEF IInv, HoldsMapping
<1>5. region[h] = None /\ lender[h] = None
  BY <1>1 DEF IInv, HoldsMapping, Borrows, Mapless
<1>6. TypeOK'
  BY <1>0, <1>1, <1>2 DEF TypeOK, file
<1>7. CreatorAlone'
  <2>1. at[h] = 0 /\ (then = "initialize" => sized /\ written = Parts(0))
    BY <1>1, PartsFacts DEF IInv, CreatorAlone
  <2> QED BY <2>1, <1>1, <1>2 DEF IInv, CreatorAlone, Creating, file
<1>8. Complete' /\ IndexHeld' /\ IndicesOwned'
  BY <1>1, <1>2 DEF IInv, Complete, IndexHeld, IndicesOwned, file
<1>9. HoldsMapping'
  BY <1>0, <1>1, <1>2, <1>3, <1>4, <1>5 DEF IInv, HoldsMapping, Mapless, TypeOK
<1>10. Borrows'
  BY <1>0, <1>1, <1>2 DEF IInv, Borrows, Usable, TypeOK
<1>11. NoMappingLeaks'
  BY <1>3, <1>5 DEF IInv, NoMappingLeaks
<1> QED BY <1>6, <1>7, <1>8, <1>9, <1>10, <1>11 DEF IInv

\* The creator, alone with the file, writes the next part.  It clears the
\* claimed words before anybody could have claimed one.
LEMMA InitializeStep ==
  ASSUME IInv, NEW h \in Handles, Initialize(h)
  PROVE  IInv'
<1>0. TypeOK
  BY DEF IInv
<1>1. PICK n \in 0 .. 4 : at[h] = n
  BY DEF IInv, CreatorAlone, Initialize
<1>2. /\ pc[h] = "initialize" /\ sized /\ written = Parts(n) /\ "magic" \notin written
      /\ lost = {} /\ \A g \in Handles : index[g] = None
  BY <1>1, PartsFacts DEF Initialize, IInv, CreatorAlone, Complete, IndexHeld
<1>3. /\ written' = Parts(n + 1)
      /\ claimed' = [i \in Indices |-> 0] \/ claimed' = claimed
      /\ UNCHANGED <<sized, mapped, region, lender, index, lost>>
      /\ IF n = 4 THEN Goto(h, "scan") /\ at' = [at EXCEPT ![h] = 0]
                  ELSE at' = [at EXCEPT ![h] = n + 1] /\ UNCHANGED pc
  BY <1>1, <1>2, PartsFacts DEF Initialize
<1>4. /\ pc' \in [Handles -> PCs]
      /\ \A g \in Handles : pc'[g] = IF g = h /\ n = 4 THEN "scan" ELSE pc[g]
      /\ at' \in [Handles -> 0 .. Len(InitOrder) + NumWorkers]
      /\ \A g \in Handles : at'[g] = IF g = h THEN IF n = 4 THEN 0 ELSE n + 1 ELSE at[g]
  <2>1. CASE n = 4
    BY <1>0, <1>3, <2>1, PartsFacts DEF TypeOK, Goto, PCs
  <2>2. CASE n # 4
    BY <1>0, <1>2, <1>3, <2>2, PartsFacts DEF TypeOK
  <2> QED BY <2>1, <2>2
<1>5. \A g \in Handles : pc[g] \in Creating => g = h
  BY <1>2 DEF IInv, CreatorAlone, Creating
<1>6. TypeOK'
  <2>1. Parts(n + 1) \subseteq {InitOrder[i] : i \in DOMAIN InitOrder}
    BY PartsFacts DEF Parts
  <2> QED BY <1>0, <1>3, <1>4, <2>1 DEF TypeOK
<1>7. CreatorAlone'
  <2>1. "magic" \in written' => written' = Parts(5)
    <3>1. CASE n = 4
      BY <3>1, <1>3
    <3>2. CASE n # 4
      BY <3>2, <1>3, PartsFacts
    <3> QED BY <3>1, <3>2
  <2> QED BY <2>1, <1>2, <1>3, <1>4, <1>5 DEF IInv, CreatorAlone, Creating
<1>8. Complete'
  <2>1. n = 4 => "magic" \in written'
    BY <1>3, PartsFacts DEF Parts
  <2> QED BY <2>1, <1>2, <1>3, <1>4 DEF IInv, Complete
<1>9. IndexHeld' /\ IndicesOwned'
  BY <1>2, <1>3, <1>4 DEF IInv, IndexHeld, IndicesOwned, Indices
<1>10. HoldsMapping'
  BY <1>2, <1>3, <1>4 DEF IInv, HoldsMapping, Mapless
<1>11. Borrows' /\ NoMappingLeaks'
  BY <1>0, <1>2, <1>3, <1>4 DEF IInv, Borrows, Usable, NoMappingLeaks, TypeOK
<1> QED BY <1>6, <1>7, <1>8, <1>9, <1>10, <1>11 DEF IInv


\* join_from_existing borrows the mapping of a handle in the same process, or
\* shares it.
LEMMA JoinExistingStep ==
  ASSUME IInv, NEW h \in Handles, NEW g \in Handles, JoinExisting(h, g)
  PROVE  IInv'
<1>0. TypeOK
  BY DEF IInv
<1>1. /\ pc[h] = "none" /\ h # g /\ Usable(g) /\ ProcessOf[g] = ProcessOf[h]
      /\ UNCHANGED <<file, mapped, at, index, lost>>
  BY DEF JoinExisting, Usable
<1>2. /\ region[h] = None /\ lender[h] = None /\ region[g] \in Regions
      /\ mapped[region[g]] = ProcessOf[g] /\ "magic" \in written
  <2>1. region[h] = None /\ lender[h] = None
    BY <1>1 DEF IInv, HoldsMapping, Borrows, Mapless
  <2>2. region[g] # None
    BY <1>1 DEF IInv, HoldsMapping, Borrows, Usable, Mapless
  <2>3. mapped[region[g]] = ProcessOf[g] /\ "magic" \in written
    BY <1>1, <2>2 DEF IInv, HoldsMapping, Complete, Usable
  <2> QED BY <1>0, <2>1, <2>2, <2>3 DEF TypeOK
<1>3. PICK label \in {"scan", "free_only"} :
         /\ Goto(h, label)
         /\ region' = IF label = "scan" THEN region ELSE [region EXCEPT ![h] = region[g]]
         /\ lender' = IF label = "scan" THEN [lender EXCEPT ![h] = g] ELSE lender
  BY DEF JoinExisting
<1>4. /\ pc' \in [Handles -> PCs]
      /\ \A f \in Handles : pc'[f] = IF f = h THEN label ELSE pc[f]
  BY <1>0, <1>3, GotoFields DEF PCs
<1>5. /\ region' \in [Handles -> Regions \cup {None}]
      /\ lender' \in [Handles -> Handles \cup {None}]
      /\ \A f \in Handles :
            /\ region'[f] = IF f = h /\ label = "free_only" THEN region[g] ELSE region[f]
            /\ lender'[f] = IF f = h /\ label = "scan" THEN g ELSE lender[f]
  BY <1>0, <1>2, <1>3 DEF TypeOK
<1>6. TypeOK'
  BY <1>0, <1>1, <1>4, <1>5 DEF TypeOK, file
<1>7. CreatorAlone'
  BY <1>1, <1>3, <1>4 DEF IInv, CreatorAlone, Creating, file
<1>8. Complete'
  BY <1>1, <1>2, <1>4 DEF IInv, Complete, file
<1>9. IndexHeld' /\ IndicesOwned'
  BY <1>1, <1>3, <1>4 DEF IInv, IndexHeld, IndicesOwned, file
<1>10. HoldsMapping'
  <2>1. \A f \in Handles : pc[f] = "join_verify" => region[f] # region[g]
    BY <1>1 DEF IInv, HoldsMapping, Usable
  <2> QED BY <2>1, <1>1, <1>2, <1>3, <1>4, <1>5 DEF IInv, HoldsMapping, Mapless, Borrows
<1>11. Borrows'
  <2> SUFFICES ASSUME NEW f \in Handles, lender'[f] # None
               PROVE  /\ pc'[f] = "scan"
                      /\ Usable(lender[f])' /\ ProcessOf[lender'[f]] = ProcessOf[f]
    BY DEF Borrows
  <2>1. CASE f = h
    BY <2>1, <1>1, <1>2, <1>3, <1>4, <1>5 DEF Usable
  <2>2. CASE f # h
    <3>1. lender'[f] = lender[f] /\ lender[f] \in Handles /\ pc[f] = "scan"
      BY <1>0, <1>5, <2>2 DEF IInv, Borrows, TypeOK
    <3>2. Usable(lender[f]) /\ ProcessOf[lender[f]] = ProcessOf[f] /\ lender[f] # h
      BY <1>1, <1>5, <2>2 DEF IInv, Borrows, Usable
    <3> QED BY <1>4, <2>2, <3>1, <3>2 DEF Usable
  <2> QED BY <2>1, <2>2
<1>12. NoMappingLeaks'
  BY <1>1, <1>2, <1>5 DEF IInv, NoMappingLeaks
<1> QED BY <1>6, <1>7, <1>8, <1>9, <1>10, <1>11, <1>12 DEF IInv

\* The exchange succeeds on an index that is neither held nor lost; a join
\* that borrowed gets its share of the mapping.
LEMMA ScanClaimsStep ==
  ASSUME IInv, NEW h \in Handles, ScanClaims(h)
  PROVE  IInv'
<1>0. TypeOK
  BY DEF IInv
<1>1. PICK i \in Indices :
         /\ claimed[i] = 0
         /\ claimed' = [claimed EXCEPT ![i] = 1]
         /\ index' = [index EXCEPT ![h] = i]
  <2>1. at[h] \in Indices
    BY <1>0, PartsFacts DEF ScanClaims, TypeOK, Indices
  <2> QED BY <2>1 DEF ScanClaims
<1>2. /\ pc[h] = "scan" /\ Goto(h, "live")
      /\ at' = [at EXCEPT ![h] = 0]
      /\ region' = [region EXCEPT ![h] = Through(h)]
      /\ lender' = [lender EXCEPT ![h] = None]
      /\ UNCHANGED <<sized, written, mapped, lost>>
  BY DEF ScanClaims
<1>3. Through(h) \in Regions /\ mapped[Through(h)] = ProcessOf[h]
  <2>1. CASE lender[h] = None
    BY <1>0, <1>2, <2>1 DEF Through, IInv, HoldsMapping, Mapless, TypeOK
  <2>2. CASE lender[h] # None
    <3>1. Usable(lender[h]) /\ ProcessOf[lender[h]] = ProcessOf[h] /\ lender[h] \in Handles
      BY <1>0, <2>2 DEF IInv, Borrows, TypeOK
    <3>2. region[lender[h]] # None
      BY <3>1 DEF IInv, HoldsMapping, Borrows, Usable, Mapless
    <3> QED BY <1>0, <2>2, <3>1, <3>2 DEF Through, IInv, HoldsMapping, TypeOK
  <2> QED BY <2>1, <2>2
<1>4. /\ pc' \in [Handles -> PCs]
      /\ \A g \in Handles : pc'[g] = IF g = h THEN "live" ELSE pc[g]
  BY <1>0, <1>2, GotoFields DEF PCs
<1>5. /\ at' \in [Handles -> 0 .. Len(InitOrder) + NumWorkers]
      /\ region' \in [Handles -> Regions \cup {None}]
      /\ lender' \in [Handles -> Handles \cup {None}]
      /\ \A g \in Handles :
            /\ at'[g] = IF g = h THEN 0 ELSE at[g]
            /\ region'[g] = IF g = h THEN Through(h) ELSE region[g]
            /\ lender'[g] = IF g = h THEN None ELSE lender[g]
  BY <1>0, <1>2, <1>3, PartsFacts DEF TypeOK
<1>6. TypeOK'
  BY <1>0, <1>1, <1>2, <1>4, <1>5 DEF TypeOK
<1>7. CreatorAlone'
  BY <1>2, <1>4, <1>5 DEF IInv, CreatorAlone, Creating
<1>8. Complete'
  BY <1>2, <1>4 DEF IInv, Complete
<1>9. IndexHeld'
  BY <1>0, <1>1, <1>4 DEF IInv, IndexHeld, Indices, TypeOK
<1>10. IndicesOwned'
  <2>1. i \notin lost /\ (\A g \in Handles : index[g] # i) /\ index[h] = None
    BY <1>1, <1>2 DEF IInv, IndicesOwned, IndexHeld
  <2>2. /\ \A g \in Handles : index'[g] = IF g = h THEN i ELSE index[g]
        /\ \A j \in Indices : claimed'[j] = IF j = i THEN 1 ELSE claimed[j]
    BY <1>0, <1>1 DEF TypeOK
  <2> QED BY <1>2, <2>1, <2>2 DEF IInv, IndicesOwned, Indices
<1>11. HoldsMapping'
  <2>1. \A g \in Handles : pc[g] = "join_verify" => region[g] # Through(h)
    <3> SUFFICES ASSUME NEW g \in Handles, pc[g] = "join_verify", region[g] = Through(h)
                 PROVE  FALSE
      OBVIOUS
    <3>1. \E f \in Handles : region[f] = Through(h) /\ pc[f] # "join_verify"
      BY <1>0, <1>2 DEF Through, IInv, Borrows, Usable, TypeOK
    <3> QED BY <3>1 DEF IInv, HoldsMapping
  <2> QED BY <2>1, <1>2, <1>3, <1>4, <1>5 DEF IInv, HoldsMapping, Mapless
<1>12. Borrows'
  BY <1>0, <1>2, <1>4, <1>5 DEF IInv, Borrows, Usable, TypeOK
<1>13. NoMappingLeaks'
  <2>1. region[h] # None => Through(h) = region[h]
    BY <1>2 DEF Through, IInv, HoldsMapping, Mapless
  <2> QED BY <2>1, <1>2, <1>5 DEF IInv, NoMappingLeaks
<1> QED BY <1>6, <1>7, <1>8, <1>9, <1>10, <1>11, <1>12, <1>13 DEF IInv

\* An exchange that fails tries the next index.
LEMMA ScanSkipsStep ==
  ASSUME IInv, NEW h \in Handles, ScanSkips(h)
  PROVE  IInv'
<1>0. TypeOK
  BY DEF IInv
<1>1. /\ pc[h] = "scan" /\ at[h] < NumWorkers
      /\ at' = [at EXCEPT ![h] = at[h] + 1]
      /\ UNCHANGED <<sized, written, claimed, mapped, pc, region, lender, index, lost>>
  BY DEF ScanSkips, file
<1>2. /\ at' \in [Handles -> 0 .. Len(InitOrder) + NumWorkers]
      /\ \A g \in Handles : g # h => at'[g] = at[g]
  BY <1>0, <1>1, PartsFacts DEF TypeOK
<1>3. TypeOK'
  BY <1>0, <1>1, <1>2 DEF TypeOK
<1>4. CreatorAlone'
  BY <1>1, <1>2 DEF IInv, CreatorAlone
<1>5. Complete' /\ IndexHeld' /\ IndicesOwned'
  BY <1>1 DEF IInv, Complete, IndexHeld, IndicesOwned
<1>6. HoldsMapping' /\ Borrows' /\ NoMappingLeaks'
  BY <1>1 DEF IInv, HoldsMapping, Borrows, Usable, NoMappingLeaks
<1> QED BY <1>3, <1>4, <1>5, <1>6 DEF IInv

\* A dropped Allocator gives its index back.
LEMMA ReleaseStep ==
  ASSUME IInv, NEW h \in Handles, Release(h)
  PROVE  IInv'
<1>0. TypeOK
  BY DEF IInv
<1>1. PICK i \in Indices : index[h] = i
  BY <1>0 DEF Release, IInv, IndexHeld, TypeOK
<1>2. /\ pc[h] = "live" /\ NotBorrowed(h)
      /\ claimed' = [claimed EXCEPT ![i] = 0]
      /\ index' = [index EXCEPT ![h] = None]
      /\ Goto(h, "drop_region")
      /\ UNCHANGED <<sized, written, mapped, at, region, lender, lost>>
  BY <1>1 DEF Release, Released
<1>3. /\ pc' \in [Handles -> PCs]
      /\ \A g \in Handles : pc'[g] = IF g = h THEN "drop_region" ELSE pc[g]
  BY <1>0, <1>2, GotoFields DEF PCs
<1>4. /\ \A g \in Handles : index'[g] = IF g = h THEN None ELSE index[g]
      /\ \A j \in Indices : claimed'[j] = IF j = i THEN 0 ELSE claimed[j]
  BY <1>0, <1>2 DEF TypeOK
<1>5. TypeOK'
  BY <1>0, <1>2, <1>3 DEF TypeOK
<1>6. CreatorAlone'
  BY <1>2, <1>3 DEF IInv, CreatorAlone, Creating
<1>7. Complete' /\ IndexHeld'
  BY <1>2, <1>3, <1>4 DEF IInv, Complete, IndexHeld
<1>8. IndicesOwned'
  <2>1. i \notin lost /\ \A g \in Handles : index[g] = i => g = h
    BY <1>1 DEF IInv, IndicesOwned, Indices
  <2>2. None \notin lost
    BY <1>0, NoneNoIndex DEF TypeOK
  <2> QED BY <2>1, <2>2, <1>1, <1>2, <1>4 DEF IInv, IndicesOwned, Indices
<1>9. HoldsMapping'
  BY <1>2, <1>3 DEF IInv, HoldsMapping, Mapless
<1>10. Borrows' /\ NoMappingLeaks'
  BY <1>0, <1>2, <1>3 DEF IInv, Borrows, Usable, NotBorrowed, NoMappingLeaks, TypeOK
<1> QED BY <1>5, <1>6, <1>7, <1>8, <1>9, <1>10 DEF IInv

\* A process dies with all its handles and mappings; the file, and the claims
\* in it, stay.
LEMMA CrashStep ==
  ASSUME IInv, NEW p \in Processes, Crash(p)
  PROVE  IInv'
<1>0. TypeOK
  BY DEF IInv
<1>1. /\ pc' = [h \in Handles |-> IF ProcessOf[h] = p THEN "none" ELSE pc[h]]
      /\ at' = [h \in Handles |-> IF ProcessOf[h] = p THEN 0 ELSE at[h]]
      /\ region' = [h \in Handles |-> IF ProcessOf[h] = p THEN None ELSE region[h]]
      /\ lender' = [h \in Handles |-> IF ProcessOf[h] = p THEN None ELSE lender[h]]
      /\ index' = [h \in Handles |-> IF ProcessOf[h] = p THEN None ELSE index[h]]
      /\ mapped' = [r \in Regions |-> IF mapped[r] = p THEN None ELSE mapped[r]]
      /\ \A i : i \in lost' <=>
            (i \in lost \/ \E h \in Handles :
                              ProcessOf[h] = p /\ index[h] # None /\ index[h] = i)
      /\ UNCHANGED <<sized, written, claimed>>
  BY DEF Crash, file
<1>2. TypeOK'
  BY <1>0, <1>1, PartsFacts DEF TypeOK, PCs
<1>3. CreatorAlone'
  BY <1>1 DEF IInv, CreatorAlone, Creating
<1>4. Complete' /\ IndexHeld'
  BY <1>1 DEF IInv, Complete, IndexHeld
<1>5. IndicesOwned'
  <2>1. \A h, g \in Handles : index'[h] # None /\ index'[h] = index'[g] => h = g
    BY <1>1 DEF IInv, IndicesOwned
  <2>2. ASSUME NEW i \in Indices
        PROVE  (i \in lost \/ \E h \in Handles : index[h] = i)
                  <=> (i \in lost' \/ \E h \in Handles : index'[h] = i)
    <3>1. i # None
      BY DEF Indices
    <3> QED BY <1>1, <3>1
  <2>3. \A h \in Handles : index'[h] \notin lost'
    <3>1. None \notin lost'
      BY <1>2, NoneNoIndex DEF TypeOK
    <3> QED BY <1>1, <3>1 DEF IInv, IndicesOwned
  <2> QED BY <2>1, <2>2, <2>3, <1>1 DEF IInv, IndicesOwned
<1>6. HoldsMapping'
  BY <1>0, <1>1 DEF IInv, HoldsMapping, Mapless, Borrows, TypeOK
<1>7. Borrows'
  BY <1>0, <1>1 DEF IInv, Borrows, Usable, TypeOK
<1>8. NoMappingLeaks'
  BY <1>0, <1>1 DEF IInv, NoMappingLeaks, TypeOK
<1> QED BY <1>2, <1>3, <1>4, <1>5, <1>6, <1>7, <1>8 DEF IInv


\* Every step preserves the inductive invariant.
LEMMA NextIInv == IInv /\ [Next]_vars => IInv'
<1> SUFFICES ASSUME IInv, [Next]_vars PROVE IInv'
  OBVIOUS
<1>1. ASSUME NEW h \in Handles,
             CreateCall(h) \/ CreateLen(h) \/ CreateResize(h) \/ CreateMap(h)
      PROVE  IInv'
  <2>1. CreateLen(h) => Gone(h) \/ pc'[h] = "create_resize"
    BY DEF CreateLen, Goto, IInv, TypeOK
  <2> QED BY <1>1, <2>1, MoveStep, EndStep, ResizeStep, MapStep DEF Moves, Ends
<1>2. ASSUME NEW h \in Handles, Initialize(h) PROVE IInv'
  BY <1>2, InitializeStep
<1>3. ASSUME NEW h \in Handles, JoinLen(h) \/ JoinMap(h) \/ JoinVerify(h)
      PROVE  IInv'
  <2>1. JoinVerify(h) => Gone(h) \/ pc'[h] # "none"
    BY DEF JoinVerify, Goto, IInv, TypeOK
  <2> QED BY <1>3, <2>1, MoveStep, EndStep, MapStep DEF Moves, Ends
<1>4. ASSUME NEW h \in Handles, NEW g \in Handles, JoinExisting(h, g) PROVE IInv'
  BY <1>4, JoinExistingStep
<1>5. ASSUME NEW h \in Handles, ScanClaims(h) \/ ScanSkips(h) \/ ScanFails(h)
      PROVE  IInv'
  BY <1>5, ScanClaimsStep, ScanSkipsStep, EndStep DEF Ends
<1>6. ASSUME NEW h \in Handles, Release(h) \/ ReleaseRegion(h) PROVE IInv'
  BY <1>6, ReleaseStep, EndStep DEF Ends
<1>7. ASSUME NEW p \in Processes, Crash(p) PROVE IInv'
  BY <1>7, CrashStep
<1>8. CASE UNCHANGED vars
  BY <1>8 DEF vars, file, locals, IInv, TypeOK, CreatorAlone, Complete, IndexHeld, IndicesOwned,
              HoldsMapping, Borrows, Usable, NoMappingLeaks
<1> QED BY <1>1, <1>2, <1>3, <1>4, <1>5, <1>6, <1>7, <1>8 DEF Next

-----------------------------------------------------------------------------
\* The inductive invariant holds in every reachable state.
THEOREM Invariance == Spec => []IInv
  BY InitIInv, NextIInv, PTL DEF Spec

\* Every variable keeps its type.
THEOREM TypeCorrect == Spec => []TypeOK
<1>1. IInv => TypeOK
  BY DEF IInv
<1> QED BY <1>1, Invariance, PTL

\* No handle claims, allocates or frees in a file that is not wholly
\* initialized, whenever creates run, fail or die.
THEOREM CompleteBeforeUse == Spec => []HandlesComplete
<1>1. IInv => HandlesComplete
  <2>1. DOMAIN InitOrder = 1 .. 5
    BY PartsFacts
  <2> QED BY <2>1 DEF IInv, CreatorAlone, Complete, HandlesComplete, Parts
<1> QED BY <1>1, Invariance, PTL

\* A worker index has one owner: a live handle, or the dead one it was lost
\* with.
THEOREM OneOwner == Spec => []IndicesOwned
<1>1. IInv => IndicesOwned
  BY DEF IInv
<1> QED BY <1>1, Invariance, PTL

\* A mapping is there as long as a handle uses it, its own or a borrowed one.
THEOREM MappingOutlivesUse == Spec => []MappedWhenUsed
<1>1. ASSUME IInv PROVE MappedWhenUsed
  <2> SUFFICES ASSUME NEW h \in Handles,
                      pc[h] \in {"initialize", "join_verify", "scan", "live", "free_only",
                                 "drop_region"}
               PROVE  Through(h) \in Regions /\ mapped[Through(h)] = ProcessOf[h]
    BY DEF MappedWhenUsed
  <2> USE <1>1 DEF IInv
  <2>1. CASE lender[h] = None
    BY <2>1 DEF Through, HoldsMapping, Mapless, TypeOK
  <2>2. CASE lender[h] # None
    <3>1. Usable(lender[h]) /\ ProcessOf[lender[h]] = ProcessOf[h] /\ lender[h] \in Handles
      BY <2>2 DEF Borrows, TypeOK
    <3>2. region[lender[h]] # None
      BY <3>1 DEF HoldsMapping, Borrows, Usable, Mapless
    <3> QED BY <2>2, <3>1, <3>2 DEF Through, HoldsMapping, TypeOK
  <2> QED BY <2>1, <2>2
<1> QED BY <1>1, Invariance, PTL

\* Whichever operation fails or process dies, no mapping is left behind.
THEOREM MappingsReleased == Spec => []NoMappingLeaks
<1>1. IInv => NoMappingLeaks
  BY DEF IInv
<1> QED BY <1>1, Invariance, PTL

=============================================================================
