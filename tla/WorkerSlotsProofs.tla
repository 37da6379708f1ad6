------------------------- MODULE WorkerSlotsProofs -------------------------
(***************************************************************************)
(* Claims of worker indices are exclusive and scans are honest, for every  *)
(* number of handles, workers and deaths.                                  *)
(***************************************************************************)
EXTENDS WorkerSlots, TLAPS

USE NumWorkersAssumption, NoIndexAssumption

\* An index has one holder, and a handle between calls has an index.
OneHolder ==
    \A h, g \in Handles : index[h] = index[g] /\ index[h] # NoIndex => h = g
HoldersHold ==
    \A h \in Handles :
        /\ pc[h] = "held" => index[h] \in Indices
        /\ pc[h] \in {"none", "scan"} => index[h] = NoIndex

\* What the history of a scan calls free is free now.
FreeStill == \A h \in Handles : free[h] \subseteq FreeIn(claimed)

IInv == TypeOK /\ ClaimedHeld /\ OneHolder /\ HoldersHold /\ FreeStill /\ ScanHonest

-----------------------------------------------------------------------------
\* No index is claimed at first, and no handle holds one.
LEMMA InitIInv == Init => IInv
  BY DEF Init, IInv, TypeOK, ClaimedHeld, OneHolder, HoldersHold, FreeStill, ScanHonest,
         Indices, FreeIn

\* Observing the words keeps the history typed and free.
LEMMA ObserveStep ==
  ASSUME TypeOK, Observe
  PROVE  /\ free' \in [Handles -> SUBSET Indices]
         /\ FreeStill'
         /\ \A h \in Handles : free'[h] \subseteq free[h]
  BY DEF TypeOK, Observe, FreeStill, FreeIn

\* The beginning of a scan touches no word.
LEMMA ScanCallStep ==
  ASSUME IInv, NEW h \in Handles, ScanCall(h)
  PROVE  IInv'
<1> USE DEF IInv
<1>1. TypeOK'
  BY DEF ScanCall, TypeOK, First, FreeIn, Indices
<1>2. ClaimedHeld' /\ OneHolder' /\ HoldersHold'
  BY DEF ScanCall, TypeOK, ClaimedHeld, OneHolder, HoldersHold
<1>3. FreeStill'
  BY DEF ScanCall, TypeOK, FreeStill, FreeIn
<1>4. ScanHonest'
  BY DEF ScanCall, TypeOK, ScanHonest, First, FreeIn, Indices
<1> QED BY <1>1, <1>2, <1>3, <1>4

\* A successful exchange makes h the one holder of an index that had none.
LEMMA ScanClaimsStep ==
  ASSUME IInv, NEW h \in Handles, ScanClaims(h)
  PROVE  IInv'
<1> DEFINE i == next[h]
<1> USE DEF IInv
<1>1. i \in Indices /\ claimed[i] = 0 /\ index[h] = NoIndex
  BY DEF ScanClaims, TypeOK, HoldersHold, Exchanged, Indices
<1>2. \A g \in Handles : index[g] # i
  BY <1>1 DEF ClaimedHeld
<1>3. /\ claimed' = [claimed EXCEPT ![i] = 1]
      /\ index' = [index EXCEPT ![h] = i]
      /\ pc' = [pc EXCEPT ![h] = "held"]
      /\ next' = next
      /\ Observe
  BY DEF ScanClaims
<1> HIDE DEF i
<1>4. TypeOK'
  BY <1>1, <1>3, ObserveStep DEF TypeOK
<1>5. ClaimedHeld'
  BY <1>1, <1>2, <1>3 DEF TypeOK, ClaimedHeld, Indices
<1>6. OneHolder'
  BY <1>2, <1>3 DEF TypeOK, OneHolder
<1>7. HoldersHold'
  BY <1>1, <1>3 DEF TypeOK, HoldersHold
<1>8. FreeStill'
  BY <1>3, ObserveStep
<1>9. ScanHonest'
  BY <1>3, ObserveStep DEF TypeOK, ScanHonest
<1> QED BY <1>4, <1>5, <1>6, <1>7, <1>8, <1>9

\* A scan that skips an index knows that it is not free.
LEMMA ScanSkipsStep ==
  ASSUME IInv, NEW h \in Handles, ScanSkips(h)
  PROVE  IInv'
<1> USE DEF IInv
<1>1. TypeOK'
  BY DEF ScanSkips, TypeOK
<1>2. ClaimedHeld' /\ OneHolder' /\ HoldersHold' /\ FreeStill'
  BY DEF ScanSkips, ClaimedHeld, OneHolder, HoldersHold, FreeStill, FreeIn
<1>3. next[h] \notin free[h]
  BY DEF ScanSkips, Exchanged, FreeStill, FreeIn
<1>4. ScanHonest'
  BY <1>3 DEF ScanSkips, TypeOK, ScanHonest, Indices
<1> QED BY <1>1, <1>2, <1>4

\* A failed scan and a death touch neither words nor holders.
LEMMA ScanFailsStep ==
  ASSUME IInv, NEW h \in Handles, ScanFails(h) \/ Crash(h)
  PROVE  IInv'
<1> USE DEF IInv
<1>1. TypeOK'
  BY DEF ScanFails, Crash, TypeOK
<1>2. ClaimedHeld' /\ OneHolder' /\ FreeStill'
  BY DEF ScanFails, Crash, ClaimedHeld, OneHolder, FreeStill, FreeIn
<1>3. HoldersHold' /\ ScanHonest'
  BY DEF ScanFails, Crash, TypeOK, HoldersHold, ScanHonest
<1> QED BY <1>1, <1>2, <1>3

\* A drop frees an index of which h was the one holder.
LEMMA DropStep ==
  ASSUME IInv, NEW h \in Handles, Drop(h)
  PROVE  IInv'
<1> DEFINE i == index[h]
<1> USE DEF IInv
<1>1. i \in Indices /\ i # NoIndex
  BY DEF Drop, HoldersHold, Indices
<1>2. \A g \in Handles : index[g] = i => g = h
  BY <1>1 DEF OneHolder
<1>3. /\ claimed' = [claimed EXCEPT ![i] = 0]
      /\ index' = [index EXCEPT ![h] = NoIndex]
      /\ pc' = [pc EXCEPT ![h] = "none"]
      /\ next' = next
      /\ Observe
  BY DEF Drop, Released
<1>a. h \in DOMAIN index
  BY DEF TypeOK
<1> HIDE DEF i
<1>4. TypeOK'
  BY <1>1, <1>3, ObserveStep DEF TypeOK
<1>5. ClaimedHeld'
  <2> SUFFICES ASSUME NEW j \in Indices
               PROVE  (claimed'[j] = 1) <=> \E g \in Handles : index'[g] = j
    BY DEF ClaimedHeld
  <2>1. CASE j = i
    BY <2>1, <1>1, <1>2, <1>3 DEF TypeOK, Indices
  <2>2. CASE j # i
    <3>1. claimed'[j] = claimed[j]
      BY <2>2, <1>3 DEF TypeOK
    <3>2. \A g \in Handles : index'[g] = j <=> index[g] = j
      BY <2>2, <1>3 DEF TypeOK, Indices, i
    <3> QED BY <3>1, <3>2 DEF ClaimedHeld
  <2> QED BY <2>1, <2>2
<1>6. OneHolder'
  BY <1>3 DEF TypeOK, OneHolder
<1>7. HoldersHold'
  BY <1>3 DEF TypeOK, HoldersHold
<1>8. FreeStill'
  BY <1>3, ObserveStep
<1>9. ScanHonest'
  BY <1>3, ObserveStep DEF TypeOK, ScanHonest
<1> QED BY <1>4, <1>5, <1>6, <1>7, <1>8, <1>9

\* Every step preserves the invariant.
LEMMA NextIInv == IInv /\ [Next]_vars => IInv'
<1> SUFFICES ASSUME IInv, [Next]_vars PROVE IInv'
  OBVIOUS
<1>1. CASE UNCHANGED vars
  BY <1>1 DEF IInv, TypeOK, ClaimedHeld, OneHolder, HoldersHold, FreeStill, ScanHonest,
              FreeIn, vars
<1>2. ASSUME NEW h \in Handles,
             \/ ScanCall(h) \/ ScanClaims(h) \/ ScanSkips(h)
             \/ ScanFails(h) \/ Drop(h) \/ Crash(h)
      PROVE  IInv'
  BY <1>2, ScanCallStep, ScanClaimsStep, ScanSkipsStep, ScanFailsStep, DropStep
<1> QED BY <1>1, <1>2 DEF Next

\* The inductive invariant.
THEOREM ClaimInvariance == Spec => []IInv
  BY InitIInv, NextIInv, PTL DEF Spec

-----------------------------------------------------------------------------
\* Words, scans and held indices stay in range: claim_any_worker_index never
\* returns an index that Allocator::new refuses.
THEOREM ClaimTypeCorrect == Spec => []TypeOK
  BY ClaimInvariance, PTL DEF IInv

\* A claimed word has a holder and a free one has none.
THEOREM ClaimsHeld == Spec => []ClaimedHeld
  BY ClaimInvariance, PTL DEF IInv

\* A scan passes no index that was free throughout.
THEOREM ScansHonest == Spec => []ScanHonest
  BY ClaimInvariance, PTL DEF IInv

\* At first every index is free in the abstract state.
LEMMA InitMaps == Init => Abstract!IndicesInit
  BY DEF Init, Abstract!IndicesInit, Owners, Indices

\* Every step takes or gives back one index, or leaves them alone.
LEMMA NextMaps ==
  IInv /\ [Next]_vars =>
    [\E h \in Handles, i \in Indices : Abstract!Take(h, i) \/ Abstract!GiveBack(h, i)]_Owners
<1> SUFFICES ASSUME IInv, [Next]_vars
             PROVE  \/ Owners' = Owners
                    \/ \E h \in Handles, i \in Indices :
                          Abstract!Take(h, i) \/ Abstract!GiveBack(h, i)
  OBVIOUS
<1> USE DEF IInv
<1>1. CASE UNCHANGED index
  BY <1>1 DEF Owners
<1>2. ASSUME NEW h \in Handles, ScanClaims(h)
      PROVE  Abstract!Take(h, next[h]) /\ next[h] \in Indices
  <2> DEFINE i == next[h]
  <2>1. i \in Indices /\ claimed[i] = 0 /\ index[h] = NoIndex /\ i # NoIndex
    BY <1>2 DEF ScanClaims, TypeOK, HoldersHold, Exchanged, Indices
  <2>2. \A g \in Handles : index[g] # i
    BY <2>1 DEF ClaimedHeld
  <2>3. index' = [index EXCEPT ![h] = i]
    BY <1>2 DEF ScanClaims
  <2> HIDE DEF i
  <2>4. Owners[i] = {}
    BY <2>1, <2>2 DEF Owners
  <2>5. ASSUME NEW j \in Indices
        PROVE  Owners'[j] = IF j = i THEN {h} ELSE Owners[j]
    BY <2>1, <2>2, <2>3 DEF Owners, TypeOK, Indices
  <2>6. Owners' = [Owners EXCEPT ![i] = {h}]
    BY <2>5 DEF Owners
  <2> QED BY <2>1, <2>4, <2>6 DEF Abstract!Take, i
<1>3. ASSUME NEW h \in Handles, Drop(h)
      PROVE  Abstract!GiveBack(h, index[h]) /\ index[h] \in Indices
  <2> DEFINE i == index[h]
  <2>1. i \in Indices /\ i # NoIndex
    BY <1>3 DEF Drop, HoldersHold, Indices
  <2>2. \A g \in Handles : index[g] = i <=> g = h
    BY <2>1 DEF OneHolder
  <2>3. index' = [index EXCEPT ![h] = NoIndex]
    BY <1>3 DEF Drop
  <2> HIDE DEF i
  <2>4. Owners[i] = {h}
    BY <2>1, <2>2 DEF Owners
  <2>5. ASSUME NEW j \in Indices
        PROVE  Owners'[j] = IF j = i THEN {} ELSE Owners[j]
    BY <2>1, <2>2, <2>3 DEF Owners, TypeOK, Indices
  <2>6. Owners' = [Owners EXCEPT ![i] = {}]
    BY <2>5 DEF Owners
  <2> QED BY <2>1, <2>4, <2>6 DEF Abstract!GiveBack, i
<1>4. ASSUME NEW h \in Handles,
             ScanCall(h) \/ ScanSkips(h) \/ ScanFails(h) \/ Crash(h)
      PROVE  UNCHANGED index
  BY <1>4 DEF ScanCall, ScanSkips, ScanFails, Crash
<1> QED BY <1>1, <1>2, <1>3, <1>4 DEF Next, vars

\* Claiming by scan and releasing by a store implement exclusive ownership.
THEOREM ClaimsExclusive == Spec => RefinesIndices
<1>1. Init => Abstract!IndicesInit
  BY InitMaps
<1>2. IInv /\ [Next]_vars =>
        [\E h \in Handles, i \in Indices : Abstract!Take(h, i) \/ Abstract!GiveBack(h, i)]_Owners
  BY NextMaps
<1> QED BY <1>1, <1>2, ClaimInvariance, PTL DEF Spec, RefinesIndices, Abstract!IndicesSpec

=============================================================================
