------------------------ MODULE RemoteFreeListProofs ------------------------
(***************************************************************************)
(* Safety of the remote free list for every number of pushers, slots and   *)
(* deaths: the links spell the lists although they live in slots that are  *)
(* reused, every slot is at one place, and the list implements SlotList.   *)
(***************************************************************************)
EXTENDS RemoteFreeList, Integers, SequenceTheorems, TLAPS

USE NumSlotsAssumption, MarksAssumption

Listed == {list[j] : j \in 1 .. Len(list)}
Walked == {taken[j] : j \in 1 .. Len(taken)}
Pushed == {item[p] : p \in Pushers}

\* OnePlace, place by place: every slot is somewhere ...
Somewhere ==
    \A i \in Slots :
        i \in free \/ i \in live \/ i \in Pushed \/ i \in Listed \/ i \in Walked \/ yielded = i

\* ... not at two places ...
Apart ==
    \A i \in Slots :
        /\ i \in free => i \notin live /\ i \notin Pushed /\ i \notin Listed /\ i \notin Walked /\ yielded # i
        /\ i \in live => i \notin Pushed /\ i \notin Listed /\ i \notin Walked /\ yielded # i
        /\ i \in Pushed => i \notin Listed /\ i \notin Walked /\ yielded # i
        /\ i \in Listed => i \notin Walked /\ yielded # i
        /\ i \in Walked => yielded # i

\* ... and not twice at one.
Once ==
    /\ \A p, q \in Pushers : item[p] = item[q] /\ item[p] # NULL_U16 => p = q
    /\ \A j, k \in 1 .. Len(list) : list[j] = list[k] => j = k
    /\ \A j, k \in 1 .. Len(taken) : taken[j] = taken[k] => j = k

\* A pusher inside push has a slot, and when it tries its exchange that slot
\* links to the head it loaded: whether another push of the same index has
\* come and gone meanwhile does not matter.
PushersLinked ==
    \A p \in Pushers :
        /\ pc[p] = "idle" => item[p] = NULL_U16
        /\ pc[p] \in {"load", "link", "cas"} => item[p] \in Slots
        /\ pc[p] = "cas" => mem[item[p]] = snap[p]

\* The owner holds an index exactly inside the loop body, and a drain that is
\* over has returned everything.
OwnerState ==
    /\ (owner = "body" <=> yielded # NULL_U16)
    /\ owner = "idle" => taken = <<>>

IInv ==
    /\ TypeOK /\ ChainsIntact
    /\ Somewhere /\ Apart /\ Once
    /\ PushersLinked /\ OwnerState

-----------------------------------------------------------------------------
\* At first every slot is free.
LEMMA InitIInv == Init => IInv
  BY DEF Init, IInv, TypeOK, ChainsIntact, Spells, Somewhere, Apart, Once, PushersLinked,
         OwnerState, Pushed, Listed, Walked, Links, PCs

\* Elements of the two histories are slots.
LEMMA ListElements ==
  ASSUME TypeOK
  PROVE  /\ Len(list) \in Nat /\ \A j \in 1 .. Len(list) : list[j] \in Slots
         /\ Len(taken) \in Nat /\ \A j \in 1 .. Len(taken) : taken[j] \in Slots
  BY ElementOfSeq, LenProperties DEF TypeOK

\* A step that leaves both lists alone, and the links of the slots on them,
\* leaves the chains intact.
LEMMA ChainsFrame ==
  ASSUME TypeOK, ChainsIntact,
         UNCHANGED <<head, cursor, list, taken>>,
         \A i \in Slots : i \in Listed \/ i \in Walked => mem'[i] = mem[i]
  PROVE  ChainsIntact'
<1>1. \A j \in 1 .. Len(list) : mem'[list[j]] = mem[list[j]]
  BY ListElements DEF Listed
<1>2. \A j \in 1 .. Len(taken) : mem'[taken[j]] = mem[taken[j]]
  BY ListElements DEF Walked
<1> QED BY <1>1, <1>2 DEF ChainsIntact, Spells

\* A free slot is on neither list and nobody pushes it, so writing over its
\* link does no harm.
LEMMA AllocateStep ==
  ASSUME IInv, NEW i \in Slots, Allocate(i)
  PROVE  IInv'
<1> USE DEF IInv
<1>1. TypeOK'
  BY DEF Allocate, pusherVars, ownerVars, TypeOK
<1>2. i \notin Listed /\ i \notin Walked /\ i \notin Pushed
  BY DEF Allocate, Apart
<1>3. \A j \in Slots : j # i => mem'[j] = mem[j]
  BY DEF Allocate, TypeOK
<1>4. ChainsIntact'
  BY <1>2, <1>3, ChainsFrame DEF Allocate, ownerVars
<1>5. Somewhere' /\ Apart' /\ Once'
  BY DEF Allocate, pusherVars, ownerVars, Somewhere, Apart, Once, Pushed, Listed, Walked
<1>6. PushersLinked' /\ OwnerState'
  BY <1>2, <1>3 DEF Allocate, pusherVars, ownerVars, PushersLinked, OwnerState, Pushed
<1> QED BY <1>1, <1>4, <1>5, <1>6

\* The slot goes from the application to the pusher.
LEMMA PushCallStep ==
  ASSUME IInv, NEW p \in Pushers, NEW i \in Slots, PushCall(p, i)
  PROVE  IInv'
<1> USE DEF IInv
<1>1. TypeOK'
  BY DEF PushCall, Goto, ownerVars, TypeOK, Links, PCs
<1>2. ChainsIntact'
  BY ChainsFrame DEF PushCall, ownerVars
<1>3. \A q \in Pushers : item[q] # i
  BY DEF PushCall, Apart, Pushed
<1>4. \A q \in Pushers : item'[q] = IF q = p THEN i ELSE item[q]
  BY DEF PushCall, TypeOK
<1>5. item[p] = NULL_U16
  BY DEF PushCall, PushersLinked
<1>6. \A j \in Slots : j \in Pushed' <=> (j \in Pushed \/ j = i)
  BY <1>4, <1>5 DEF Pushed
<1>7. Somewhere' /\ Apart'
  BY <1>6 DEF PushCall, ownerVars, Somewhere, Apart, Listed, Walked
<1>8. Once'
  BY <1>3, <1>4 DEF PushCall, Once
<1>9. PushersLinked' /\ OwnerState'
  BY <1>4 DEF PushCall, Goto, ownerVars, PushersLinked, OwnerState, TypeOK
<1> QED BY <1>1, <1>2, <1>7, <1>8, <1>9

\* Steps that change nothing but where a pusher is and what it has loaded.
LEMMA LocalSteps ==
  ASSUME IInv, NEW p \in Pushers, PushLoad(p) \/ PushCASFails(p) \/ Crash(p)
  PROVE  IInv'
<1> USE DEF IInv
<1>1. TypeOK'
  BY DEF PushLoad, PushCASFails, Crash, Retry, Goto, ownerVars, TypeOK, Links, PCs
<1>2. ChainsIntact'
  BY ChainsFrame DEF PushLoad, PushCASFails, Crash, ownerVars
<1>3. Somewhere' /\ Apart' /\ Once'
  BY DEF PushLoad, PushCASFails, Crash, ownerVars, Somewhere, Apart, Once, Pushed, Listed,
         Walked
<1>4. PushersLinked' /\ OwnerState'
  BY DEF PushLoad, PushCASFails, Crash, Retry, Goto, ownerVars, PushersLinked, OwnerState, TypeOK
<1> QED BY <1>1, <1>2, <1>3, <1>4

\* Only the pusher's own slot is written.
LEMMA PushLinkStep ==
  ASSUME IInv, NEW p \in Pushers, PushLink(p)
  PROVE  IInv'
<1> USE DEF IInv
<1>1. item[p] \in Slots /\ item[p] \in Pushed
  BY DEF PushLink, PushersLinked, Pushed
<1>2. \A j \in Slots : mem'[j] = IF j = item[p] THEN snap[p] ELSE mem[j]
  BY DEF PushLink, LinkItem, TypeOK
<1>3. TypeOK'
  BY <1>1 DEF PushLink, LinkItem, Goto, ownerVars, TypeOK, PCs
<1>4. ChainsIntact'
  BY <1>1, <1>2, ChainsFrame DEF PushLink, ownerVars, Apart
<1>5. Somewhere' /\ Apart' /\ Once'
  BY DEF PushLink, ownerVars, Somewhere, Apart, Once, Pushed, Listed, Walked
<1>6. \A q \in Pushers : pc'[q] = IF q = p THEN "cas" ELSE pc[q]
  BY DEF PushLink, Goto, TypeOK
<1>7. \A q \in Pushers : q # p /\ item[q] \in Slots => item[q] # item[p]
  BY <1>1 DEF Once
<1>8. PushersLinked'
  BY <1>1, <1>2, <1>6, <1>7 DEF PushLink, PushersLinked
<1>9. OwnerState'
  BY DEF PushLink, ownerVars, OwnerState
<1> QED BY <1>3, <1>4, <1>5, <1>8, <1>9

\* A successful exchange puts the slot, which links to the head it replaces,
\* in front of the list.
LEMMA PushCASStep ==
  ASSUME IInv, NEW p \in Pushers, PushCAS(p)
  PROVE  IInv'
<1> USE DEF IInv
<1>0. PICK i \in Slots : item[p] = i
  BY DEF PushCAS, PushersLinked
<1>1. i \in Pushed /\ mem[i] = head
  BY <1>0 DEF PushCAS, PushersLinked, Pushed
<1>2. i \notin Listed /\ i \notin Walked /\ i \notin free /\ i \notin live /\ yielded # i
  BY <1>1 DEF Apart
<1>3. list \in Seq(Slots)
  BY DEF TypeOK
<1>4. list' = <<i>> \o list /\ head' = i /\ taken' = taken /\ mem' = mem
  BY <1>0 DEF PushCAS
<1>5. /\ Len(list') = Len(list) + 1 /\ Len(list) \in Nat
      /\ list'[1] = i
      /\ \A j \in 1 .. Len(list) : list'[j + 1] = list[j]
  BY <1>1, <1>3, <1>4, LenProperties, ConcatProperties
<1>6. list' \in Seq(Slots) /\ list' # <<>>
  BY <1>1, <1>3, <1>4, <1>5, LenProperties, ConcatProperties, EmptySeq
<1>7. \A q \in Pushers : item'[q] = IF q = p THEN NULL_U16 ELSE item[q]
  BY DEF PushCAS, TypeOK
<1>8. TypeOK'
  BY <1>1, <1>6 DEF PushCAS, Goto, ownerVars, TypeOK, Links, PCs
<1>9. ChainsIntact'
  <2>1. Spells(head, list)'
    <3>1. head' = list'[1]
      BY <1>4, <1>5
    <3>2. mem[list'[1]] = IF 1 = Len(list') THEN NULL_U16 ELSE list'[2]
      <4>1. head = IF list = <<>> THEN NULL_U16 ELSE list[1]
        BY DEF ChainsIntact, Spells
      <4>2. CASE list = <<>>
        BY <4>1, <4>2, <1>1, <1>3, <1>5, EmptySeq
      <4>3. CASE list # <<>>
        <5>1. 1 \in 1 .. Len(list) /\ list'[2] = list[1]
          BY <4>3, <1>3, <1>5, EmptySeq
        <5> QED BY <4>1, <4>3, <5>1, <1>1, <1>5
      <4> QED BY <4>2, <4>3
    <3>3. ASSUME NEW j \in 2 .. Len(list')
          PROVE  mem[list'[j]] = IF j = Len(list') THEN NULL_U16 ELSE list'[j + 1]
      <4>1. j - 1 \in 1 .. Len(list) /\ list'[(j - 1) + 1] = list[j - 1]
        BY <1>5
      <4>2. mem[list[j - 1]] = IF j - 1 = Len(list) THEN NULL_U16 ELSE list[(j - 1) + 1]
        BY <4>1 DEF ChainsIntact, Spells
      <4>3. CASE j = Len(list')
        BY <4>1, <4>2, <4>3, <1>5
      <4>4. CASE j # Len(list')
        <5>1. j \in 1 .. Len(list) /\ list'[j + 1] = list[j]
          BY <4>4, <1>5
        <5> QED BY <4>1, <4>2, <4>4, <5>1, <1>5
      <4> QED BY <4>3, <4>4
    <3> QED BY <3>1, <3>2, <3>3, <1>4, <1>5, <1>6 DEF Spells
  <2>2. Spells(cursor, taken)'
    BY DEF PushCAS, ownerVars, ChainsIntact, Spells
  <2> QED BY <2>1, <2>2 DEF ChainsIntact
<1>10. \A j \in Slots : /\ (j \in Listed' <=> (j \in Listed \/ j = i))
                       /\ (j \in Pushed' <=> (j \in Pushed /\ j # i))
                       /\ (j \in Walked' <=> j \in Walked)
  <2> TAKE j \in Slots
  <2>1. j \in Listed' <=> (j \in Listed \/ j = i)
    <3>1. j \in Listed' => j \in Listed \/ j = i
      <4> SUFFICES ASSUME NEW k \in 1 .. Len(list'), list'[k] = j, j # i
                   PROVE  j \in Listed
        BY DEF Listed
      <4>1. k - 1 \in 1 .. Len(list) /\ list'[(k - 1) + 1] = list[k - 1]
        BY <1>5
      <4> QED BY <4>1 DEF Listed
    <3>2. j \in Listed => j \in Listed'
      <4> SUFFICES ASSUME NEW k \in 1 .. Len(list), list[k] = j
                   PROVE  j \in Listed'
        BY DEF Listed
      <4>1. k + 1 \in 1 .. Len(list') /\ list'[k + 1] = j
        BY <1>5
      <4> QED BY <4>1 DEF Listed
    <3>3. i \in Listed'
      BY <1>5 DEF Listed
    <3> QED BY <3>1, <3>2, <3>3
  <2>2. j \in Pushed' <=> (j \in Pushed /\ j # i)
    BY <1>0, <1>1, <1>7 DEF Pushed, Once
  <2>3. j \in Walked' <=> j \in Walked
    BY <1>4 DEF Walked
  <2> QED BY <2>1, <2>2, <2>3
<1>11. Somewhere' /\ Apart'
  BY <1>2, <1>10 DEF PushCAS, ownerVars, Somewhere, Apart
<1>12. Once'
  <2>1. \A q, r \in Pushers : item'[q] = item'[r] /\ item'[q] # NULL_U16 => q = r
    BY <1>7 DEF Once
  <2>2. ASSUME NEW j \in 1 .. Len(list'), NEW k \in 1 .. Len(list'), list'[j] = list'[k]
        PROVE  j = k
    <3>1. \A m \in 2 .. Len(list') : m - 1 \in 1 .. Len(list) /\ list'[m] = list[m - 1]
      <4> TAKE m \in 2 .. Len(list')
      <4>1. m - 1 \in 1 .. Len(list) /\ list'[(m - 1) + 1] = list[m - 1]
        BY <1>5
      <4> QED BY <4>1, <1>5
    <3>2. \A m \in 2 .. Len(list') : list'[m] # i
      BY <3>1, <1>2 DEF Listed
    <3>3. CASE j = 1 \/ k = 1
      BY <2>2, <3>2, <3>3, <1>5
    <3>4. CASE j # 1 /\ k # 1
      <4>1. j \in 2 .. Len(list') /\ k \in 2 .. Len(list')
        BY <3>4, <1>5
      <4>2. j - 1 = k - 1
        BY <2>2, <3>1, <4>1 DEF Once
      <4> QED BY <4>1, <4>2
    <3> QED BY <3>3, <3>4
  <2>3. \A j, k \in 1 .. Len(taken') : taken'[j] = taken'[k] => j = k
    BY <1>4 DEF Once
  <2> QED BY <2>1, <2>2, <2>3 DEF Once
<1>13. PushersLinked' /\ OwnerState'
  BY <1>7 DEF PushCAS, Goto, ownerVars, PushersLinked, OwnerState, TypeOK
<1> QED BY <1>8, <1>9, <1>11, <1>12, <1>13


\* The drain gets the whole list; its chain was over, so nothing is lost.
LEMMA DrainSwapStep ==
  ASSUME IInv, DrainSwap
  PROVE  IInv'
<1> USE DEF IInv
<1>1. taken = <<>> /\ taken' = list /\ list' = <<>> /\ mem' = mem
  BY DEF DrainSwap, OwnerState
<1>2. TypeOK'
  BY DEF DrainSwap, SwapHead, pusherVars, TypeOK, Links
<1>3. ChainsIntact'
  BY <1>1 DEF DrainSwap, SwapHead, ChainsIntact, Spells
<1>4. Walked' = Listed /\ Listed' = {} /\ Walked = {}
  BY <1>1 DEF Listed, Walked
<1>5. Somewhere' /\ Apart'
  BY <1>4 DEF DrainSwap, pusherVars, Somewhere, Apart, Pushed
<1>6. Once'
  BY <1>1 DEF DrainSwap, pusherVars, Once
<1>7. PushersLinked' /\ OwnerState'
  BY DEF DrainSwap, pusherVars, PushersLinked, OwnerState
<1> QED BY <1>2, <1>3, <1>5, <1>6, <1>7

\* The iterator returns the slot at the front and follows its link, which is
\* still the one the chain was swapped out with.
LEMMA IterNextStep ==
  ASSUME IInv, IterNext
  PROVE  /\ IInv'
         /\ taken # <<>> /\ taken' = Tail(taken)
<1> USE DEF IInv
<1>1. PICK i \in Slots : cursor = i
  BY DEF IterNext, TypeOK, Links
<1>2. taken \in Seq(Slots) /\ taken # <<>> /\ taken[1] = i
  BY <1>1 DEF IterNext, TypeOK, ChainsIntact, Spells
<1>3. taken' = Tail(taken)
  BY <1>2, TailIsSubSeq DEF IterNext
<1>4. /\ Len(taken) \in Nat \ {0} /\ taken' \in Seq(Slots)
      /\ Len(taken') = Len(taken) - 1
      /\ \A j \in 1 .. Len(taken') : taken'[j] = taken[j + 1]
  BY <1>2, <1>3, EmptySeq, ElementOfSeq, HeadTailProperties
<1>5. cursor' = mem[i] /\ yielded' = i /\ mem' = mem /\ list' = list
  BY <1>1 DEF IterNext
<1>6. mem[i] = IF Len(taken) = 1 THEN NULL_U16 ELSE taken[2]
  BY <1>2, <1>4 DEF ChainsIntact, Spells
<1>7. i \in Walked /\ i \notin free /\ i \notin live /\ i \notin Pushed /\ i \notin Listed
  BY <1>2, <1>4 DEF Walked, Apart
<1>8. TypeOK'
  <2>1. mem[i] \in Links
    BY <1>2, <1>4, <1>6, ElementOfSeq DEF Links
  <2> QED BY <2>1, <1>4, <1>5 DEF IterNext, pusherVars, TypeOK, Links
<1>9. ChainsIntact'
  <2>1. Spells(head, list)'
    BY DEF IterNext, ChainsIntact, Spells
  <2>2. cursor' = IF taken' = <<>> THEN NULL_U16 ELSE taken'[1]
    BY <1>4, <1>5, <1>6, EmptySeq
  <2>3. ASSUME NEW j \in 1 .. Len(taken')
        PROVE  mem[taken'[j]] = IF j = Len(taken') THEN NULL_U16 ELSE taken'[j + 1]
    <3>1. j + 1 \in 1 .. Len(taken) /\ taken'[j] = taken[j + 1]
      BY <1>4
    <3>2. mem[taken[j + 1]] = IF j + 1 = Len(taken) THEN NULL_U16 ELSE taken[(j + 1) + 1]
      BY <3>1 DEF ChainsIntact, Spells
    <3>3. CASE j = Len(taken')
      BY <3>1, <3>2, <3>3, <1>4
    <3>4. CASE j # Len(taken')
      <4>1. j + 1 \in 1 .. Len(taken') /\ taken'[j + 1] = taken[(j + 1) + 1]
        BY <3>4, <1>4
      <4> QED BY <3>1, <3>2, <3>4, <4>1, <1>4
    <3> QED BY <3>3, <3>4
  <2> QED BY <2>1, <2>2, <2>3, <1>5 DEF ChainsIntact, Spells
<1>10. ASSUME NEW j \in Slots
       PROVE  j \in Walked' <=> (j \in Walked /\ j # i)
  <2>1. j \in Walked' => j \in Walked /\ j # i
    <3> SUFFICES ASSUME NEW k \in 1 .. Len(taken'), taken'[k] = j
                 PROVE  j \in Walked /\ j # i
      BY DEF Walked
    <3>1. k + 1 \in 1 .. Len(taken) /\ taken[k + 1] = j /\ k + 1 # 1
      BY <1>4
    <3>2. j \in Walked
      BY <3>1 DEF Walked
    <3>3. j # i
      BY <3>1, <1>2, <1>4 DEF Once
    <3> QED BY <3>2, <3>3
  <2>2. ASSUME NEW k \in 1 .. Len(taken), taken[k] = j, j # i
        PROVE  j \in Walked'
    <3>1. k - 1 \in 1 .. Len(taken') /\ taken'[k - 1] = taken[(k - 1) + 1]
      BY <2>2, <1>2, <1>4
    <3> QED BY <3>1, <2>2, <1>4 DEF Walked
  <2> QED BY <2>1, <2>2 DEF Walked
<1>11. yielded = NULL_U16
  BY DEF IterNext, OwnerState
<1>12. Listed' = Listed /\ Pushed' = Pushed /\ free' = free /\ live' = live
  BY DEF IterNext, pusherVars, Listed, Pushed
<1>13. Somewhere' /\ Apart'
  BY <1>5, <1>7, <1>10, <1>11, <1>12 DEF Somewhere, Apart
<1>14. Once'
  <2>1. ASSUME NEW j \in 1 .. Len(taken'), NEW k \in 1 .. Len(taken'), taken'[j] = taken'[k]
        PROVE  j = k
    <3>1. j + 1 \in 1 .. Len(taken) /\ k + 1 \in 1 .. Len(taken) /\ taken[j + 1] = taken[k + 1]
      BY <2>1, <1>4
    <3>2. j + 1 = k + 1
      BY <3>1 DEF Once
    <3> QED BY <3>2, <1>4
  <2> QED BY <2>1 DEF IterNext, pusherVars, Once
<1>15. PushersLinked' /\ OwnerState'
  BY <1>5 DEF IterNext, pusherVars, PushersLinked, OwnerState
<1> QED BY <1>2, <1>3, <1>8, <1>9, <1>13, <1>14, <1>15

\* A null link is the end of the chain: everything has been returned.
LEMMA IterEndStep ==
  ASSUME IInv, IterEnd
  PROVE  IInv'
<1> USE DEF IInv
<1>1. taken = <<>>
  <2>1. taken # <<>> => taken[1] \in Slots
    BY ElementOfSeq, EmptySeq DEF TypeOK
  <2> QED BY <2>1 DEF IterEnd, ChainsIntact, Spells
<1>2. TypeOK' /\ OwnerState'
  BY <1>1 DEF IterEnd, pusherVars, TypeOK, OwnerState
<1>3. ChainsIntact'
  BY DEF IterEnd, ChainsIntact, Spells
<1>4. Somewhere' /\ Apart' /\ Once' /\ PushersLinked'
  BY DEF IterEnd, pusherVars, Somewhere, Apart, Once, Pushed, Listed, Walked, PushersLinked
<1> QED BY <1>2, <1>3, <1>4

\* The returned slot becomes free; the chain does not need its link any more.
LEMMA LocalFreeStep ==
  ASSUME IInv, LocalFree
  PROVE  IInv'
<1> USE DEF IInv
<1>1. PICK i \in Slots : yielded = i
  BY DEF LocalFree, OwnerState, TypeOK, Links
<1>2. free' = free \cup {i} /\ yielded' = NULL_U16
  BY <1>1 DEF LocalFree
<1>3. TypeOK' /\ OwnerState'
  BY <1>2 DEF LocalFree, pusherVars, TypeOK, OwnerState, Links
<1>4. ChainsIntact'
  BY DEF LocalFree, ChainsIntact, Spells
<1>5. Somewhere' /\ Apart'
  BY <1>1, <1>2 DEF LocalFree, pusherVars, Somewhere, Apart, Pushed, Listed, Walked
<1>6. Once' /\ PushersLinked'
  BY DEF LocalFree, pusherVars, Once, PushersLinked
<1> QED BY <1>3, <1>4, <1>5, <1>6

\* Every step preserves the inductive invariant.
LEMMA NextIInv == IInv /\ [Next]_vars => IInv'
<1> SUFFICES ASSUME IInv, [Next]_vars PROVE IInv'
  OBVIOUS
<1>1. ASSUME NEW i \in Slots, Allocate(i) PROVE IInv'
  BY <1>1, AllocateStep
<1>2. ASSUME NEW i \in Slots, NEW p \in Pushers, PushCall(p, i) PROVE IInv'
  BY <1>2, PushCallStep
<1>3. ASSUME NEW p \in Pushers, PushStep(p) \/ Crash(p) PROVE IInv'
  BY <1>3, LocalSteps, PushLinkStep, PushCASStep DEF PushStep
<1>4. CASE DrainSwap
  BY <1>4, DrainSwapStep
<1>5. CASE WalkStep
  BY <1>5, IterNextStep, IterEndStep, LocalFreeStep DEF WalkStep
<1>6. CASE UNCHANGED vars
  BY <1>6 DEF vars, IInv, TypeOK, ChainsIntact, Spells, Somewhere, Apart, Once, Pushed, Listed,
              Walked, PushersLinked, OwnerState
<1> QED BY <1>1, <1>2, <1>3, <1>4, <1>5, <1>6 DEF Next

-----------------------------------------------------------------------------
\* The inductive invariant holds in every reachable state.
THEOREM Invariance == Spec => []IInv
  BY InitIInv, NextIInv, PTL DEF Spec

\* Every variable keeps its type: heads, links and cursors name slots of the
\* slab or nothing, never what an application wrote.
THEOREM TypeCorrect == Spec => []TypeOK
<1>1. IInv => TypeOK
  BY DEF IInv
<1> QED BY <1>1, Invariance, PTL

\* The chain of pushed slots and the chain being walked are never broken:
\* not by pushes, nor by allocations and writes to slots just freed.
THEOREM ChainsStayIntact == Spec => []ChainsIntact
<1>1. IInv => ChainsIntact
  BY DEF IInv
<1> QED BY <1>1, Invariance, PTL

\* No slot is lost or handed out twice on its way from the application
\* through push and drain back to the free slots.
THEOREM SlotsAtOnePlace == Spec => []OnePlace
<1>1. ASSUME IInv PROVE OnePlace
  <2> SUFFICES ASSUME NEW i \in Slots
               PROVE  \E place \in PlacesOf(i) : PlacesOf(i) = {place}
    BY DEF OnePlace
  <2> USE <1>1 DEF IInv, PlacesOf
  <2>1. CASE i \in free
    <3>1. PlacesOf(i) = {<<"free", 0>>}
      BY <2>1 DEF Apart, Pushed, Listed, Walked
    <3> QED BY <3>1
  <2>2. CASE i \in live
    <3>1. PlacesOf(i) = {<<"live", 0>>}
      BY <2>2 DEF Apart, Pushed, Listed, Walked
    <3> QED BY <3>1
  <2>3. CASE i \in Pushed
    <3>1. PICK p \in Pushers : item[p] = i
      BY <2>3 DEF Pushed
    <3>2. \A q \in Pushers : item[q] = i <=> q = p
      BY <3>1 DEF Once
    <3>3. PlacesOf(i) = {<<"push", p>>}
      BY <2>3, <3>2 DEF Apart, Listed, Walked
    <3> QED BY <3>3
  <2>4. CASE i \in Listed
    <3>1. PICK k \in 1 .. Len(list) : list[k] = i
      BY <2>4 DEF Listed
    <3>2. \A j \in 1 .. Len(list) : list[j] = i <=> j = k
      BY <3>1 DEF Once
    <3>3. PlacesOf(i) = {<<"list", k>>}
      BY <2>4, <3>2 DEF Apart, Pushed, Walked
    <3> QED BY <3>3
  <2>5. CASE i \in Walked
    <3>1. PICK k \in 1 .. Len(taken) : taken[k] = i
      BY <2>5 DEF Walked
    <3>2. \A j \in 1 .. Len(taken) : taken[j] = i <=> j = k
      BY <3>1 DEF Once
    <3>3. PlacesOf(i) = {<<"taken", k>>}
      BY <2>5, <3>2 DEF Apart, Pushed, Listed
    <3> QED BY <3>3
  <2>6. CASE yielded = i
    <3>1. PlacesOf(i) = {<<"body", 0>>}
      BY <2>6 DEF Apart, Pushed, Listed, Walked
    <3> QED BY <3>1
  <2> QED BY <2>1, <2>2, <2>3, <2>4, <2>5, <2>6 DEF Somewhere
<1> QED BY <1>1, Invariance, PTL

\* Pushes are atomic, a drain takes everything pushed before it at once, and
\* returns each index once, newest first: the exchange is the push, the swap
\* takes the list, next() returns, and every other step is a stutter.
THEOREM ImplementsSlotList == Spec => RefinesSlotList
<1> USE DEF Abstract!Slots, Abstract!listVars
<1>1. Init => Abstract!ListInit
  BY DEF Init, Abstract!ListInit
<1>2. ASSUME IInv, [Next]_vars
      PROVE  [Abstract!ListNext]_(Abstract!listVars)
  <2>1. ASSUME NEW i \in Slots, NEW p \in Pushers, PushCall(p, i)
        PROVE  UNCHANGED <<list, taken>>
    BY <2>1 DEF PushCall
  <2>2. ASSUME NEW i \in Slots, Allocate(i)
        PROVE  UNCHANGED <<list, taken>>
    BY <2>2 DEF Allocate
  <2>3. ASSUME NEW p \in Pushers, PushLoad(p) \/ PushLink(p) \/ PushCASFails(p) \/ Crash(p)
        PROVE  UNCHANGED <<list, taken>>
    BY <2>3 DEF PushLoad, PushLink, PushCASFails, Crash
  <2>4. ASSUME NEW p \in Pushers, PushCAS(p)
        PROVE  Abstract!ListNext
    <3>1. PICK i \in Slots : item[p] = i
      BY <1>2, <2>4 DEF IInv, PushersLinked, PushCAS
    <3>2. i \notin Listed
      BY <1>2, <3>1 DEF IInv, Apart, Pushed
    <3>3. \A j \in DOMAIN list : list[j] # i
      BY <1>2, <3>2, LenProperties DEF IInv, TypeOK, Listed
    <3>4. Abstract!Push(i)
      BY <2>4, <3>1, <3>3 DEF PushCAS, Abstract!Push
    <3> QED BY <3>4 DEF Abstract!ListNext, Slots
  <2>5. CASE DrainSwap
    BY <1>2, <2>5 DEF DrainSwap, IInv, OwnerState, Abstract!TakeAll, Abstract!ListNext
  <2>6. CASE IterNext
    <3>1. list' = list
      BY <2>6 DEF IterNext
    <3> QED BY <1>2, <2>6, <3>1, IterNextStep DEF Abstract!Return, Abstract!ListNext
  <2>7. CASE IterEnd \/ LocalFree \/ UNCHANGED vars
    BY <2>7 DEF IterEnd, LocalFree, vars
  <2> QED BY <1>2, <2>1, <2>2, <2>3, <2>4, <2>5, <2>6, <2>7 DEF Next, PushStep, WalkStep
<1> QED BY <1>1, <1>2, Invariance, PTL DEF Spec, RefinesSlotList, Abstract!ListSpec

=============================================================================
