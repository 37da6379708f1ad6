------------------------ MODULE GlobalFreeListProofs ------------------------
(***************************************************************************)
(* Safety of the global free list for every number of workers, slabs and   *)
(* generations: the inductive invariant IInv, its consequences, and the    *)
(* refinement of SlabPool.                                                 *)
(***************************************************************************)
EXTENDS GlobalFreeList, Integers, SequenceTheorems, TLAPS

-----------------------------------------------------------------------------
(* The initial state. *)

\* The new list is intact, and nobody is in a call.
LEMMA InitIInv == Init => IInv
<1> SUFFICES ASSUME Init PROVE IInv
    OBVIOUS
<1> USE NumSlabsAssumption, GenModulusAssumption, NullAssumption
<1>1. stack \in Seq(Slabs) /\ Len(stack) = NumSlabs
    <2>1. \A i \in 1 .. NumSlabs : i - 1 \in Slabs
        BY DEF Slabs
    <2>2. stack \in [1 .. NumSlabs -> Slabs]
        BY <2>1 DEF Init
    <2>3. QED
        BY <2>2
<1>2. TypeOK
    BY <1>1 DEF Init, TypeOK, Heads, Gens, Links, Slabs, PCs, NoSnap
<1>3. ListIntact
    <2>1. \A i \in 1 .. NumSlabs : stack[i] = i - 1 /\ i - 1 \in Slabs
        BY DEF Init, Slabs
    <2>2. stack # <<>>
        BY <1>1, EmptySeq
    <2>3. head.index = stack[1]
        BY <2>1 DEF Init
    <2>4. ASSUME NEW i \in 1 .. NumSlabs
          PROVE  globalNext[stack[i]] = IF i = NumSlabs THEN NULL_U32 ELSE stack[i + 1]
        <3>1. globalNext[i - 1] = IF i - 1 = NumSlabs - 1 THEN NULL_U32 ELSE (i - 1) + 1
            BY <2>1 DEF Init
        <3>2. QED
            BY <2>1, <3>1
    <2>5. \A i, j \in 1 .. NumSlabs : stack[i] = stack[j] => i = j
        BY <2>1
    <2>6. QED
        BY <1>1, <2>2, <2>3, <2>4, <2>5 DEF ListIntact
<1>4. Conservation
    <2>1. ASSUME NEW s \in Slabs PROVE InStack(s)
        <3>1. s + 1 \in 1 .. Len(stack) /\ stack[s + 1] = s
            BY <1>1 DEF Init, Slabs
        <3>2. QED
            BY <3>1 DEF InStack
    <2>2. QED
        BY <2>1 DEF Init, Conservation
<1>5. LinksCleared /\ Snapshots
    BY DEF Init, LinksCleared, Snapshots, SnapshotOK, PushPCs, PopPCs, Loaded
<1>6. QED
    BY <1>2, <1>3, <1>4, <1>5 DEF IInv

-----------------------------------------------------------------------------
(* Steps that leave the list alone. *)

\* A head that is not null is the top of the abstract stack.
LEMMA HeadInStack ==
    ASSUME TypeOK, ListIntact, head.index \in Slabs
    PROVE  stack # <<>> /\ head.index = stack[1] /\ InStack(head.index)
<1>1. stack # <<>> /\ head.index = stack[1]
    BY NullAssumption DEF ListIntact
<1>2. 1 \in 1 .. Len(stack)
    BY <1>1, EmptySeq DEF TypeOK
<1>3. QED
    BY <1>1, <1>2 DEF InStack

\* The list and the ownership stay good when only links of slabs that are off
\* the list change: a worker may write global_next of a slab it owns.
LEMMA OffListFrame ==
    ASSUME TypeOK, ListIntact, Conservation,
           UNCHANGED <<head, held, stack>>,
           \A s \in Slabs : InStack(s) => globalNext'[s] = globalNext[s]
    PROVE  ListIntact' /\ Conservation'
<1>1. \A i \in 1 .. Len(stack) : stack[i] \in Slabs
    BY ElementOfSeq DEF TypeOK
<1>2. \A i \in 1 .. Len(stack) : globalNext'[stack[i]] = globalNext[stack[i]]
    BY <1>1 DEF InStack
<1>3. ListIntact'
    BY <1>2 DEF ListIntact
<1>4. Conservation'
    BY DEF Conservation, InStack
<1>5. QED
    BY <1>3, <1>4

\* The calls, the load of pop that finds an empty list and death.
LEMMA LocalSteps ==
    ASSUME IInv, NEW w \in Workers, PopCall(w) \/ PushCall(w) \/ Crash(w)
    PROVE  IInv'
<1>1. TypeOK'
    BY DEF IInv, TypeOK, PopCall, PushCall, Crash, Goto, PCs, PopPCs, PushPCs, Links
<1>2. ListIntact' /\ Conservation'
    BY OffListFrame DEF IInv, PopCall, PushCall, Crash
<1>3. LinksCleared'
    BY DEF IInv, TypeOK, LinksCleared, PopCall, PushCall, Crash, Goto, PushPCs
<1>4. Snapshots'
    BY DEF IInv, TypeOK, Snapshots, SnapshotOK, PopCall, PushCall, Crash, Goto, PushPCs, PopPCs, Loaded
<1>5. QED
    BY <1>1, <1>2, <1>3, <1>4 DEF IInv

\* A loaded head is current when it is loaded.
LEMMA LoadSteps ==
    ASSUME IInv, NEW w \in Workers, PopLoad(w) \/ PushLoad(w)
    PROVE  IInv'
<1>1. TypeOK'
    BY DEF IInv, TypeOK, PopLoad, PushLoad, LoadHead, Goto, PCs, PopPCs, PushPCs
<1>2. ListIntact' /\ Conservation'
    BY OffListFrame DEF IInv, PopLoad, PushLoad
<1>3. LinksCleared'
    BY DEF IInv, TypeOK, LinksCleared, PopLoad, PushLoad, LoadHead, Goto, PushPCs
<1>4. Snapshots'
    BY DEF IInv, TypeOK, Snapshots, SnapshotOK, PopLoad, PushLoad, LoadHead, Goto, PushPCs, PopPCs,
           Loaded, Heads, Links
<1>5. QED
    BY <1>1, <1>2, <1>3, <1>4 DEF IInv

\* A link read while the head is still the loaded one is the link of the head.
LEMMA ReadNextStep ==
    ASSUME IInv, NEW w \in Workers, PopReadNext(w)
    PROVE  IInv'
<1>1. TypeOK'
    BY DEF IInv, TypeOK, Snapshots, SnapshotOK, PopReadNext, Goto, PCs, PopPCs
<1>2. ListIntact' /\ Conservation'
    BY OffListFrame DEF IInv, PopReadNext
<1>3. LinksCleared'
    BY DEF IInv, TypeOK, LinksCleared, PopReadNext, Goto, PushPCs
<1>4. Snapshots'
    BY DEF IInv, TypeOK, Snapshots, SnapshotOK, PopReadNext, Goto, PushPCs, PopPCs, Loaded
<1>5. QED
    BY <1>1, <1>2, <1>3, <1>4 DEF IInv

\* A failed exchange only goes back to the load.
LEMMA RetrySteps ==
    ASSUME IInv, NEW w \in Workers, PopCASFails(w) \/ PushCASFails(w)
    PROVE  IInv'
<1> USE GenModulusAssumption
<1>1. NoSnap \in Heads
    BY DEF NoSnap, Heads, Gens, Links
<1>2. TypeOK'
    BY <1>1 DEF IInv, TypeOK, PopCASFails, PushCASFails, Retry, Goto, PCs, PopPCs,
                PushPCs, Links
<1>3. ListIntact' /\ Conservation'
    BY OffListFrame DEF IInv, PopCASFails, PushCASFails
<1>4. LinksCleared'
    BY DEF IInv, TypeOK, LinksCleared, PopCASFails, PushCASFails, Retry, Goto, PushPCs
<1>5. Snapshots'
    BY DEF IInv, TypeOK, Snapshots, SnapshotOK, PopCASFails, PushCASFails, Retry, Goto, PushPCs, PopPCs, Loaded
<1>6. QED
    BY <1>2, <1>3, <1>4, <1>5 DEF IInv

-----------------------------------------------------------------------------
(* Stores to global_next: always of a slab the worker owns. *)

\* A popped slab's link is cleared off the list.
LEMMA PopClearStep ==
    ASSUME IInv, NEW w \in Workers, PopClear(w)
    PROVE  IInv'
<1> USE GenModulusAssumption
<1>1. snap[w].index \in held[w] /\ snap[w].index \in Slabs /\ ~InStack(snap[w].index)
    BY DEF IInv, TypeOK, Snapshots, SnapshotOK, Conservation, PopClear
<1>2. NoSnap \in Heads
    BY DEF NoSnap, Heads, Gens, Links
<1>3. TypeOK'
    BY <1>2 DEF IInv, TypeOK, PopClear, ClearLink, Goto, PCs, Links
<1>4. ListIntact' /\ Conservation'
    BY <1>1, OffListFrame DEF IInv, TypeOK, PopClear, ClearLink
<1>5. LinksCleared'
    BY <1>1 DEF IInv, TypeOK, LinksCleared, PopClear, ClearLink, Goto, PushPCs
<1>6. Snapshots'
    <2> SUFFICES ASSUME NEW v \in Workers
                 PROVE  SnapshotOK(v)'
        BY DEF Snapshots
    <2>1. SnapshotOK(v)
        BY DEF IInv, Snapshots
    <2>2. CASE v = w
        BY <2>1, <2>2 DEF IInv, TypeOK, PopClear, ClearLink, Goto, SnapshotOK, PushPCs, PopPCs, Loaded
    <2>3. CASE v # w
        <3>1. arg[v] \in held[v] => globalNext'[arg[v]] = globalNext[arg[v]]
            BY <1>1, <2>3 DEF IInv, TypeOK, Conservation, PopClear, ClearLink
        <3>2. head.index \in Slabs => globalNext'[head.index] = globalNext[head.index]
            BY <1>1, HeadInStack DEF IInv, TypeOK, PopClear, ClearLink
        <3>3. QED
            BY <2>1, <2>3, <3>1, <3>2
               DEF IInv, TypeOK, PopClear, ClearLink, Goto, SnapshotOK, PushPCs, PopPCs, Loaded
    <2>4. QED
        BY <2>2, <2>3
<1>7. QED
    BY <1>3, <1>4, <1>5, <1>6 DEF IInv

\* A slab about to be pushed is linked while it is off the list.
LEMMA PushLinkStep ==
    ASSUME IInv, NEW w \in Workers, PushLink(w)
    PROVE  IInv'
<1>1. arg[w] \in held[w] /\ arg[w] \in Slabs /\ ~InStack(arg[w])
    BY DEF IInv, TypeOK, Snapshots, SnapshotOK, Conservation, PushLink, PushPCs
<1>2. TypeOK'
    BY DEF IInv, TypeOK, PushLink, Goto, PCs, PushPCs, Heads
<1>3. ListIntact' /\ Conservation'
    BY <1>1, OffListFrame DEF IInv, TypeOK, PushLink
<1>4. LinksCleared'
    BY <1>1 DEF IInv, TypeOK, LinksCleared, Conservation, PushLink, Goto, PushPCs
<1>5. Snapshots'
    <2> SUFFICES ASSUME NEW v \in Workers
                 PROVE  SnapshotOK(v)'
        BY DEF Snapshots
    <2>1. SnapshotOK(v)
        BY DEF IInv, Snapshots
    <2>2. CASE v = w
        BY <1>1, <2>1, <2>2
           DEF IInv, TypeOK, PushLink, Goto, SnapshotOK, PushPCs, PopPCs, Loaded
    <2>3. CASE v # w
        <3>1. arg[v] \in held[v] => globalNext'[arg[v]] = globalNext[arg[v]]
            BY <1>1, <2>3 DEF IInv, TypeOK, Conservation, PushLink
        <3>2. head.index \in Slabs => globalNext'[head.index] = globalNext[head.index]
            BY <1>1, HeadInStack DEF IInv, TypeOK, PushLink
        <3>3. QED
            BY <2>1, <2>3, <3>1, <3>2
               DEF IInv, TypeOK, PushLink, Goto, SnapshotOK, PushPCs, PopPCs, Loaded
    <2>4. QED
        BY <2>2, <2>3
<1>6. QED
    BY <1>2, <1>3, <1>4, <1>5 DEF IInv

-----------------------------------------------------------------------------
(* The two compare-exchanges. *)

\* A successful exchange never reinstates a generation that another worker
\* has loaded, so it makes every other snapshot stale.
LEMMA OthersGoStale ==
    ASSUME IInv, NEW w \in Workers, NoGenWrap(w), NEW index, SwingHead(w, index),
           NEW v \in Workers \ {w}, Loaded(v)
    PROVE  snap[v].gen # head'.gen /\ snap[v] # head'
BY DEF NoGenWrap, SwingHead

\* A successful pop takes the head off, with the link it read earlier.
LEMMA PopCASStep ==
    ASSUME IInv, NEW w \in Workers, PopCAS(w)
    PROVE  IInv'
<1> DEFINE s == head.index
<1>1. s \in Slabs /\ snap[w] = head /\ next[w] = globalNext[s]
    BY DEF IInv, Snapshots, SnapshotOK, PopCAS, HeadUnchanged
<1>2. stack # <<>> /\ s = stack[1] /\ InStack(s)
    BY <1>1, HeadInStack DEF IInv
<1>3. /\ Len(stack) \in Nat \ {0}
      /\ stack' \in Seq(Slabs)
      /\ Len(stack') = Len(stack) - 1
      /\ \A i \in 1 .. Len(stack') : stack'[i] = stack[i + 1]
    BY <1>2, EmptySeq, ElementOfSeq, HeadTailProperties DEF IInv, TypeOK, PopCAS
<1>4. TypeOK'
    BY <1>1, <1>3, GenModulusAssumption
       DEF IInv, TypeOK, PopCAS, SwingHead, NextGen, Goto, PCs, Heads, Gens
<1>5. ListIntact'
    <2>1. head'.index = globalNext[stack[1]]
        BY <1>1, <1>2 DEF PopCAS, SwingHead
    <2>2. stack' = <<>> <=> Len(stack) = 1
        BY <1>3, EmptySeq
    <2>3. head'.index = IF stack' = <<>> THEN NULL_U32 ELSE stack'[1]
        BY <1>3, <2>1, <2>2 DEF IInv, ListIntact
    <2>4. \A i \in 1 .. Len(stack') :
              globalNext[stack'[i]] = IF i = Len(stack') THEN NULL_U32 ELSE stack'[i + 1]
        BY <1>3 DEF IInv, ListIntact
    <2>5. \A i, j \in 1 .. Len(stack') : stack'[i] = stack'[j] => i = j
        BY <1>3 DEF IInv, ListIntact
    <2>6. QED
        BY <2>3, <2>4, <2>5 DEF ListIntact, PopCAS
<1>6. \A t \in Slabs : InStack(t)' <=> InStack(t) /\ t # s
    <2>1. ASSUME NEW t \in Slabs, InStack(t)' PROVE InStack(t) /\ t # s
        BY <1>2, <1>3, <2>1 DEF IInv, ListIntact, InStack
    <2>2. ASSUME NEW t \in Slabs, InStack(t), t # s PROVE InStack(t)'
        <3>1. PICK i \in 1 .. Len(stack) : stack[i] = t
            BY <2>2 DEF InStack
        <3>2. i - 1 \in 1 .. Len(stack') /\ stack'[i - 1] = t
            BY <1>2, <1>3, <2>2, <3>1
        <3>3. QED
            BY <3>2 DEF InStack
    <2>3. QED
        BY <2>1, <2>2
<1>7. held' = [held EXCEPT ![w] = @ \cup {s}]
    BY <1>1 DEF PopCAS
<1>8. Conservation'
    <2>1. \A v \in Workers : s \notin held[v]
        BY <1>2 DEF IInv, Conservation
    <2>2. \A v \in Workers : \A t \in held'[v] : ~InStack(t)'
        BY <1>1, <1>6, <1>7 DEF IInv, TypeOK, Conservation
    <2>3. \A u, v \in Workers : u # v => held'[u] \cap held'[v] = {}
        BY <1>7, <2>1 DEF IInv, TypeOK, Conservation
    <2>4. \A t \in Slabs : InStack(t)' \/ \E v \in Workers : t \in held'[v]
        BY <1>6, <1>7 DEF IInv, TypeOK, Conservation
    <2>5. QED
        BY <2>2, <2>3, <2>4 DEF Conservation
<1>9. LinksCleared'
    BY <1>1, <1>7 DEF IInv, TypeOK, LinksCleared, PopCAS, Goto, PushPCs
<1>10. Snapshots'
    <2> SUFFICES ASSUME NEW v \in Workers
                 PROVE  SnapshotOK(v)'
        BY DEF Snapshots
    <2>1. SnapshotOK(v)
        BY DEF IInv, Snapshots
    <2>2. CASE v = w
        BY <1>1, <1>7, <2>1, <2>2 DEF IInv, TypeOK, PopCAS, Goto, SnapshotOK, PushPCs, PopPCs, Loaded
    <2>3. CASE v # w
        <3>1. Loaded(v) => snap[v].gen # head'.gen /\ snap[v] # head'
            BY <2>3, OthersGoStale DEF PopCAS
        <3>2. QED
            BY <1>7, <2>1, <2>3, <3>1
               DEF IInv, TypeOK, PopCAS, Goto, SnapshotOK, PushPCs, PopPCs, Loaded
    <2>4. QED
        BY <2>2, <2>3
<1>11. QED
    BY <1>4, <1>5, <1>8, <1>9, <1>10 DEF IInv

\* A successful push puts its slab on, linked to the head it replaces.
LEMMA PushCASStep ==
    ASSUME IInv, NEW w \in Workers, PushCAS(w)
    PROVE  IInv'
<1> DEFINE s == arg[w]
<1>1. /\ s \in held[w] /\ s \in Slabs /\ ~InStack(s)
      /\ snap[w] = head /\ globalNext[s] = head.index
    BY DEF IInv, TypeOK, Conservation, Snapshots, SnapshotOK, PushCAS, HeadUnchanged, PushPCs
<1>2. /\ Len(stack) \in Nat
      /\ stack' \in Seq(Slabs)
      /\ Len(stack') = Len(stack) + 1
      /\ stack'[1] = s
      /\ \A i \in 1 .. Len(stack) : stack'[i + 1] = stack[i]
    BY <1>1, LenProperties, ConcatProperties DEF IInv, TypeOK, PushCAS
<1>3. NoSnap \in Heads
    BY GenModulusAssumption DEF NoSnap, Heads, Gens, Links
<1>4. TypeOK'
    BY <1>1, <1>2, <1>3, GenModulusAssumption
       DEF IInv, TypeOK, PushCAS, SwingHead, NextGen, Goto, PCs, Heads, Gens, Links
<1>5. \A i \in 1 .. Len(stack') : i # 1 => i - 1 \in 1 .. Len(stack) /\ stack'[i] = stack[i - 1]
    BY <1>2
<1>6. ListIntact'
    <2>1. head'.index = IF stack' = <<>> THEN NULL_U32 ELSE stack'[1]
        BY <1>2, EmptySeq DEF PushCAS, SwingHead
    <2>2. globalNext[stack'[1]] = IF 1 = Len(stack') THEN NULL_U32 ELSE stack'[2]
        <3>1. stack = <<>> <=> Len(stack) = 0
            BY EmptySeq DEF IInv, TypeOK
        <3>2. QED
            BY <1>1, <1>2, <3>1 DEF IInv, ListIntact
    <2>3. ASSUME NEW i \in 1 .. Len(stack'), i # 1
          PROVE  globalNext[stack'[i]] = IF i = Len(stack') THEN NULL_U32 ELSE stack'[i + 1]
        <3>1. i - 1 \in 1 .. Len(stack) /\ stack'[i] = stack[i - 1]
            BY <1>5, <2>3
        <3>2. globalNext[stack[i - 1]] = IF i - 1 = Len(stack) THEN NULL_U32 ELSE stack[(i - 1) + 1]
            BY <3>1 DEF IInv, ListIntact
        <3>3. (i - 1) + 1 = i /\ (i - 1 = Len(stack) <=> i = Len(stack'))
            BY <1>2
        <3>4. i # Len(stack') => stack'[i + 1] = stack[i]
            BY <1>2, <2>3
        <3>5. QED
            BY <3>1, <3>2, <3>3, <3>4
    <2>4. \A i \in 1 .. Len(stack') : i # 1 => stack'[i] # s
        BY <1>1, <1>5 DEF InStack
    <2>5. \A i, j \in 1 .. Len(stack') : stack'[i] = stack'[j] => i = j
        <3> SUFFICES ASSUME NEW i \in 1 .. Len(stack'), NEW j \in 1 .. Len(stack'),
                            stack'[i] = stack'[j]
                     PROVE  i = j
            OBVIOUS
        <3>1. CASE i = 1 \/ j = 1
            BY <1>2, <2>4, <3>1
        <3>2. CASE i # 1 /\ j # 1
            <4>1. i - 1 = j - 1
                BY <1>5, <3>2 DEF IInv, ListIntact
            <4>2. QED
                BY <4>1
        <3>3. QED
            BY <3>1, <3>2
    <2>6. \A i \in 1 .. Len(stack') :
              globalNext[stack'[i]] = IF i = Len(stack') THEN NULL_U32 ELSE stack'[i + 1]
        BY <2>2, <2>3
    <2>7. QED
        BY <2>1, <2>5, <2>6 DEF ListIntact, PushCAS
<1>7. \A t \in Slabs : InStack(t)' <=> InStack(t) \/ t = s
    <2>1. ASSUME NEW t \in Slabs, InStack(t)' PROVE InStack(t) \/ t = s
        <3>1. PICK i \in 1 .. Len(stack') : stack'[i] = t
            BY <2>1 DEF InStack
        <3>2. CASE i = 1
            BY <1>2, <3>1, <3>2
        <3>3. CASE i # 1
            BY <1>5, <3>1, <3>3 DEF InStack
        <3>4. QED
            BY <3>2, <3>3
    <2>2. ASSUME NEW t \in Slabs, t = s PROVE InStack(t)'
        <3>1. 1 \in 1 .. Len(stack') /\ stack'[1] = t
            BY <1>2, <2>2
        <3>2. QED
            BY <3>1 DEF InStack
    <2>3. ASSUME NEW t \in Slabs, InStack(t) PROVE InStack(t)'
        <3>1. PICK i \in 1 .. Len(stack) : stack[i] = t
            BY <2>3 DEF InStack
        <3>2. i + 1 \in 1 .. Len(stack') /\ stack'[i + 1] = t
            BY <1>2, <3>1
        <3>3. QED
            BY <3>2 DEF InStack
    <2>4. QED
        BY <2>1, <2>2, <2>3
<1>8. held' = [held EXCEPT ![w] = @ \ {s}]
    BY DEF PushCAS
<1>9. Conservation'
    BY <1>1, <1>7, <1>8 DEF IInv, TypeOK, Conservation
<1>10. LinksCleared'
    BY <1>1, <1>8 DEF IInv, TypeOK, LinksCleared, PushCAS, Goto, PushPCs
<1>11. Snapshots'
    <2> SUFFICES ASSUME NEW v \in Workers
                 PROVE  SnapshotOK(v)'
        BY DEF Snapshots
    <2>1. SnapshotOK(v)
        BY DEF IInv, Snapshots
    <2>2. CASE v = w
        BY <2>1, <2>2 DEF IInv, TypeOK, PushCAS, Goto, SnapshotOK, PushPCs, PopPCs, Loaded
    <2>3. CASE v # w
        <3>1. Loaded(v) => snap[v].gen # head'.gen /\ snap[v] # head'
            BY <2>3, OthersGoStale DEF PushCAS
        <3>2. QED
            BY <1>8, <2>1, <2>3, <3>1
               DEF IInv, TypeOK, PushCAS, Goto, SnapshotOK, PushPCs, PopPCs, Loaded
    <2>4. QED
        BY <2>2, <2>3
<1>12. QED
    BY <1>4, <1>6, <1>9, <1>10, <1>11 DEF IInv

-----------------------------------------------------------------------------
(* The theorems. *)

\* Every step of every worker preserves the inductive invariant.
LEMMA NextIInv == IInv /\ [Next]_vars => IInv'
<1> SUFFICES ASSUME IInv, [Next]_vars PROVE IInv'
    OBVIOUS
<1>1. CASE UNCHANGED vars
    BY <1>1 DEF vars, IInv, TypeOK, ListIntact, Conservation, InStack, LinksCleared,
                Snapshots, SnapshotOK, Loaded
<1>2. ASSUME NEW w \in Workers, Step(w) PROVE IInv'
    <2>1. CASE PopLoad(w) \/ PushLoad(w)
        BY <2>1, LoadSteps
    <2>2. CASE PopReadNext(w)
        BY <2>2, ReadNextStep
    <2>3. CASE PopCASFails(w) \/ PushCASFails(w)
        BY <2>3, RetrySteps
    <2>4. CASE PopCAS(w)
        BY <2>4, PopCASStep
    <2>5. CASE PopClear(w)
        BY <2>5, PopClearStep
    <2>6. CASE PushLink(w)
        BY <2>6, PushLinkStep
    <2>7. CASE PushCAS(w)
        BY <2>7, PushCASStep
    <2>8. QED
        BY <1>2, <2>1, <2>2, <2>3, <2>4, <2>5, <2>6, <2>7 DEF Step
<1>3. ASSUME NEW w \in Workers, PopCall(w) \/ PushCall(w) \/ Crash(w) PROVE IInv'
    BY <1>3, LocalSteps
<1>4. QED
    BY <1>1, <1>2, <1>3 DEF Next

\* The inductive invariant holds of every behaviour.
THEOREM Invariance == Spec => []IInv
<1>1. Init => IInv
    BY InitIInv
<1>2. IInv /\ [Next]_vars => IInv'
    BY NextIInv
<1>3. QED
    BY <1>1, <1>2, PTL DEF Spec

\* Every link, head and local of push and pop stays in range.
THEOREM TypeCorrect == Spec => []TypeOK
<1>1. IInv => TypeOK
    BY DEF IInv
<1>2. QED
    BY <1>1, Invariance, PTL

\* The links reachable from the packed head are the stack of unowned slabs,
\* in order and without repetition, between any two atomic accesses of push
\* and pop: the ABA race cannot damage the list while no operation is
\* overtaken by a whole round of generations (the bound in the model).
THEOREM ListAlwaysIntact == Spec => []ListIntact
<1>1. IInv => ListIntact
    BY DEF IInv
<1>2. QED
    BY <1>1, Invariance, PTL

\* A slab is on the list or owned by exactly one worker, dead or alive: pop
\* never hands a slab to two workers and push never loses one.
THEOREM SlabsConserved == Spec => []Conservation
<1>1. IInv => Conservation
    BY DEF IInv
<1>2. QED
    BY <1>1, Invariance, PTL

\* The link of a slab that a worker has finished popping is null.
THEOREM PoppedLinksCleared == Spec => []LinksCleared
<1>1. IInv => LinksCleared
    BY DEF IInv
<1>2. QED
    BY <1>1, Invariance, PTL

\* What push and pop rely on between their load and their exchange.
THEOREM SnapshotsGood == Spec => []Snapshots
<1>1. IInv => Snapshots
    BY DEF IInv
<1>2. QED
    BY <1>1, Invariance, PTL

-----------------------------------------------------------------------------
(* Refinement: push and pop are atomic. *)

\* The initial chain of links is the abstract pool with every slab in it.
LEMMA InitRefines == Init => Pool!PoolInit
BY DEF Init, Pool!PoolInit

\* A successful exchange of pop is the abstract Take.
LEMMA PopCASTakes ==
    ASSUME IInv, NEW w \in Workers, PopCAS(w)
    PROVE  Pool!Take(w)
<1>1. head.index \in Slabs /\ snap[w] = head /\ answer[w] = "Pending"
    BY DEF IInv, Snapshots, SnapshotOK, PopCAS, HeadUnchanged, PopPCs
<1>2. stack # <<>> /\ head.index = stack[1]
    BY <1>1, HeadInStack DEF IInv
<1>3. Head(stack) = stack[1]
    BY <1>2, EmptySeq, ElementOfSeq, HeadTailProperties DEF IInv, TypeOK
<1>4. QED
    BY <1>1, <1>2, <1>3 DEF PopCAS, Pool!Take

\* A load of pop that finds a null head is the abstract TakeNone.
LEMMA EmptyLoadTakesNone ==
    ASSUME IInv, NEW w \in Workers, PopLoad(w), head.index = NULL_U32
    PROVE  Pool!TakeNone(w)
<1>1. answer[w] = "Pending"
    BY DEF IInv, Snapshots, SnapshotOK, PopLoad, PopPCs
<1>2. stack = <<>>
    <2> SUFFICES ASSUME stack # <<>> PROVE FALSE
        OBVIOUS
    <2>1. stack[1] \in Slabs
        BY EmptySeq, ElementOfSeq, HeadTailProperties DEF IInv, TypeOK
    <2>2. QED
        BY <2>1, NullAssumption DEF IInv, ListIntact
<1>3. QED
    BY <1>1, <1>2 DEF PopLoad, Pool!TakeNone

\* Every step is a step of the pool or leaves it alone.
LEMMA NextRefines == IInv /\ [Next]_vars => [Pool!PoolNext]_(Pool!poolVars)
<1> SUFFICES ASSUME IInv, [Next]_vars
             PROVE  Pool!PoolNext \/ UNCHANGED <<stack, held, answer>>
    BY DEF Pool!poolVars
<1>1. CASE UNCHANGED vars
    BY <1>1 DEF vars
<1>2. ASSUME NEW w \in Workers, Step(w) \/ PopCall(w) \/ PushCall(w) \/ Crash(w)
      PROVE  Pool!PoolNext \/ UNCHANGED <<stack, held, answer>>
    <2>1. CASE PopCall(w)
        <3>1. answer[w] # "Pending"
            BY <2>1 DEF IInv, Snapshots, SnapshotOK, PopCall, PopPCs
        <3>2. Pool!Call(w)
            BY <2>1, <3>1 DEF PopCall, Pool!Call
        <3>3. QED
            BY <3>2 DEF Pool!PoolNext
    <2>2. CASE PopLoad(w)
        <3>1. CASE head.index = NULL_U32
            BY <2>2, <3>1, EmptyLoadTakesNone DEF Pool!PoolNext
        <3>2. CASE head.index # NULL_U32
            BY <2>2, <3>2 DEF PopLoad
        <3>3. QED
            BY <3>1, <3>2
    <2>3. CASE PopCAS(w)
        BY <2>3, PopCASTakes DEF Pool!PoolNext
    <2>4. CASE PushCAS(w)
        <3>1. arg[w] \in held[w]
            BY <2>4 DEF IInv, Snapshots, SnapshotOK, PushCAS, PushPCs
        <3>2. Pool!Give(w, arg[w])
            BY <2>4, <3>1 DEF PushCAS, Pool!Give
        <3>3. QED
            BY <3>1, <3>2 DEF Pool!PoolNext
    <2>5. CASE \/ PopReadNext(w) \/ PopCASFails(w) \/ PopClear(w) \/ PushCall(w)
               \/ PushLoad(w) \/ PushLink(w) \/ PushCASFails(w) \/ Crash(w)
        BY <2>5 DEF PopReadNext, PopCASFails, PopClear, PushCall, PushLoad, PushLink,
                    PushCASFails, Crash
    <2>6. QED
        BY <1>2, <2>1, <2>2, <2>3, <2>4, <2>5 DEF Step
<1>3. QED
    BY <1>1, <1>2 DEF Next

\* The list implements the abstract stack of slabs: to its callers each push
\* and each pop takes effect at one instant, and pop answers None only at an
\* instant at which no slab is free.
THEOREM Refinement == Spec => RefinesPool
<1>1. Init => Pool!PoolInit
    BY InitRefines
<1>2. IInv /\ [Next]_vars => [Pool!PoolNext]_(Pool!poolVars)
    BY NextRefines
<1>3. QED
    BY <1>1, <1>2, Invariance, PTL DEF Spec, RefinesPool, Pool!PoolSpec

=============================================================================
