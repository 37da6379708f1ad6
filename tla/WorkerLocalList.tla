-------------------------- MODULE WorkerLocalList --------------------------
(***************************************************************************)
(* The doubly linked lists of slabs of every worker                        *)
(* (src/src/worker_local_list.rs): push, remove, and an iterator whose     *)
(* caller removes the slab it was given and pushes it on another list.     *)
(* All lists share one array of nodes; every access to it is a step, and   *)
(* workers interleave between them.                                        *)
(*                                                                         *)
(* The callers are those of src/src/allocator.rs: a worker pushes a slab   *)
(* that it took from the pool or has just removed from a list, removes     *)
(* slabs of its own lists, and inside an iteration does so only with the   *)
(* slab it was given.                                                      *)
(***************************************************************************)
EXTENDS Naturals, Sequences, FiniteSets

CONSTANTS
    Workers,
    Mortal,         \* workers that may die
    Kinds,          \* the lists of a worker: partial or full, of a class
    Slabs,
    NULL_U32        \* no slab, no worker, no list

ASSUME SlabsAssumption == IsFiniteSet(Slabs)
ASSUME MortalAssumption == Mortal \subseteq Workers
ASSUME NullAssumption ==
    NULL_U32 \notin Slabs \cup Workers \cup Kinds \cup (Workers \X (Kinds \cup {NULL_U32}))

Lists == Workers \X Kinds
Links == Slabs \cup {NULL_U32}

VARIABLES
    head,           \* the head of every list
    prev, next,     \* worker_local_prev, worker_local_next of every slab
    place,          \* history: the list each slab was put on, <<w, NULL_U32>> in the
                    \* hands of worker w, or NULL_U32 in the pool
    pc,             \* where each worker is
    kind,           \* the list it is working on
    slab,           \* the slab it pushes or removes
    left, right,    \* current_head in push; prev and next in remove
    walk,           \* the list it iterates over
    cursor,         \* the iterator's current_head
    given,          \* the slab the iterator returned last
    before,         \* history: the list as it was when the operation began
    todo            \* history: what the iteration has still to return

nodes == <<prev, next>>
op == <<kind, slab, left, right, before>>
iteration == <<walk, cursor, given, todo>>
vars == <<head, nodes, place, pc, op, iteration>>

Init ==
    /\ head = [l \in Lists |-> NULL_U32]
    /\ prev = [s \in Slabs |-> NULL_U32] /\ next = [s \in Slabs |-> NULL_U32]
    /\ place = [s \in Slabs |-> NULL_U32]
    /\ pc = [w \in Workers |-> "idle"]
    /\ kind = [w \in Workers |-> NULL_U32] /\ slab = [w \in Workers |-> NULL_U32]
    /\ left = [w \in Workers |-> NULL_U32] /\ right = [w \in Workers |-> NULL_U32]
    /\ walk = [w \in Workers |-> NULL_U32] /\ cursor = [w \in Workers |-> NULL_U32]
    /\ given = [w \in Workers |-> NULL_U32]
    /\ before = [w \in Workers |-> <<>>] /\ todo = [w \in Workers |-> <<>>]

Goto(w, label) == pc' = [pc EXCEPT ![w] = label]

\* The slabs that the links spell from s on, at most n; a cycle shows in the length.
Spelled[n \in 0 .. Cardinality(Slabs) + 1] ==
    [s \in Links |-> IF s = NULL_U32 \/ n = 0 THEN <<>> ELSE <<s>> \o Spelled[n - 1][next[s]]]
From(s) == Spelled[Cardinality(Slabs) + 1][s]
On(seq) == {seq[i] : i \in DOMAIN seq}

Operating == {"push_prev", "push_next", "push_link", "push_head", "remove_next",
              "remove_left", "remove_right"}
Ready(w) == pc[w] \in {"idle", "body"}

\* The slabs the worker may work on now.
Reach(w) == IF pc[w] = "idle" THEN Slabs ELSE {given[w]} \ {NULL_U32}

Begin(w, k, s, label) ==
    /\ kind' = [kind EXCEPT ![w] = k]
    /\ slab' = [slab EXCEPT ![w] = s]
    /\ before' = [before EXCEPT ![w] = From(head[<<w, k>>])]
    /\ Goto(w, label)

End(w) ==
    /\ Goto(w, IF walk[w] = NULL_U32 THEN "idle" ELSE "body")
    /\ kind' = [kind EXCEPT ![w] = NULL_U32]
    /\ slab' = [slab EXCEPT ![w] = NULL_U32]
    /\ left' = [left EXCEPT ![w] = NULL_U32]
    /\ right' = [right EXCEPT ![w] = NULL_U32]
    /\ before' = [before EXCEPT ![w] = <<>>]

List(w) == <<w, kind[w]>>
InHand(w) == <<w, NULL_U32>>

-----------------------------------------------------------------------------
\* push: load the head, then the two links of the new node, the back link of
\* the old head, and the head.
PushCall(w, k, s) ==
    /\ Ready(w)
    /\ s \in Reach(w)
    /\ place[s] \in {NULL_U32, InHand(w)}
    /\ walk[w] # k
    /\ Begin(w, k, s, "push_prev")
    /\ left' = [left EXCEPT ![w] = head[<<w, k>>]]
    /\ place' = [place EXCEPT ![s] = InHand(w)]
    /\ UNCHANGED <<head, nodes, right, iteration>>

PushPrev(w) ==
    /\ pc[w] = "push_prev"
    /\ prev' = [prev EXCEPT ![slab[w]] = NULL_U32]
    /\ Goto(w, "push_next")
    /\ UNCHANGED <<head, next, place, op, iteration>>

PushNext(w) ==
    /\ pc[w] = "push_next"
    /\ next' = [next EXCEPT ![slab[w]] = left[w]]
    /\ Goto(w, "push_link")
    /\ UNCHANGED <<head, prev, place, op, iteration>>

\* Mutant of LinkBack: the old head keeps its back link.
LinkBackNot(w) == UNCHANGED prev

LinkBack(w) ==
    IF left[w] # NULL_U32 THEN prev' = [prev EXCEPT ![left[w]] = slab[w]] ELSE UNCHANGED prev

PushLink(w) ==
    /\ pc[w] = "push_link"
    /\ LinkBack(w)
    /\ Goto(w, "push_head")
    /\ UNCHANGED <<head, next, place, op, iteration>>

PushHead(w) ==
    /\ pc[w] = "push_head"
    /\ head' = [head EXCEPT ![List(w)] = slab[w]]
    /\ place' = [place EXCEPT ![slab[w]] = List(w)]
    /\ End(w)
    /\ UNCHANGED <<nodes, iteration>>

\* remove: swap both links out, then join the neighbours, or the head.
RemoveCall(w, k, s) ==
    /\ Ready(w)
    /\ s \in Reach(w)
    /\ place[s] = <<w, k>>
    /\ Begin(w, k, s, "remove_next")
    /\ left' = [left EXCEPT ![w] = prev[s]]
    /\ prev' = [prev EXCEPT ![s] = NULL_U32]
    /\ UNCHANGED <<head, next, place, right, iteration>>

RemoveNext(w) ==
    /\ pc[w] = "remove_next"
    /\ right' = [right EXCEPT ![w] = next[slab[w]]]
    /\ next' = [next EXCEPT ![slab[w]] = NULL_U32]
    /\ Goto(w, "remove_left")
    /\ UNCHANGED <<head, prev, place, kind, slab, left, before, iteration>>

\* Mutant of JoinLeft: the head always follows.
JoinLeftHead(w) ==
    /\ head' = [head EXCEPT ![List(w)] = right[w]]
    /\ UNCHANGED next

JoinLeft(w) ==
    IF left[w] # NULL_U32
    THEN next' = [next EXCEPT ![left[w]] = right[w]] /\ UNCHANGED head
    ELSE head' = [head EXCEPT ![List(w)] = right[w]] /\ UNCHANGED next

RemoveLeft(w) ==
    /\ pc[w] = "remove_left"
    /\ JoinLeft(w)
    /\ Goto(w, "remove_right")
    /\ UNCHANGED <<prev, place, op, iteration>>

RemoveRight(w) ==
    /\ pc[w] = "remove_right"
    /\ prev' = IF right[w] # NULL_U32 THEN [prev EXCEPT ![right[w]] = left[w]] ELSE prev
    /\ place' = [place EXCEPT ![slab[w]] = InHand(w)]
    /\ End(w)
    /\ UNCHANGED <<head, next, iteration>>

\* A slab on no list goes back to the pool, where any worker may take it.
GiveBack(w, s) ==
    /\ Ready(w)
    /\ s \in Reach(w)
    /\ place[s] = InHand(w)
    /\ place' = [place EXCEPT ![s] = NULL_U32]
    /\ UNCHANGED <<head, nodes, pc, op, iteration>>

-----------------------------------------------------------------------------
\* Mutant of Advance: the link is read when the next slab is wanted.
AdvanceLate(w) ==
    LET now == IF given[w] = NULL_U32 THEN cursor[w] ELSE next[given[w]]
    IN  given' = [given EXCEPT ![w] = now] /\ cursor' = [cursor EXCEPT ![w] = now]

\* iterate: load the head; then return a slab having read its link, so that
\* the loop body may remove it.
IterateCall(w, k) ==
    /\ pc[w] = "idle"
    /\ walk' = [walk EXCEPT ![w] = k]
    /\ cursor' = [cursor EXCEPT ![w] = head[<<w, k>>]]
    /\ todo' = [todo EXCEPT ![w] = From(head[<<w, k>>])]
    /\ Goto(w, "body")
    /\ UNCHANGED <<head, nodes, place, op, given>>

Advance(w) ==
    /\ given' = [given EXCEPT ![w] = cursor[w]]
    /\ cursor' = [cursor EXCEPT ![w] = next[cursor[w]]]

IterateNext(w) ==
    /\ pc[w] = "body"
    /\ cursor[w] # NULL_U32
    /\ Advance(w)
    /\ todo' = [todo EXCEPT ![w] = IF @ = <<>> THEN @ ELSE Tail(@)]
    /\ UNCHANGED <<head, nodes, place, pc, op, walk>>

IterateEnd(w) ==
    /\ pc[w] = "body"
    /\ cursor[w] = NULL_U32
    /\ walk' = [walk EXCEPT ![w] = NULL_U32]
    /\ given' = [given EXCEPT ![w] = NULL_U32]
    /\ todo' = [todo EXCEPT ![w] = <<>>]
    /\ Goto(w, "idle")
    /\ UNCHANGED <<head, nodes, place, op, cursor>>

Crash(w) ==
    /\ w \in Mortal
    /\ pc[w] # "dead"
    /\ Goto(w, "dead")
    /\ UNCHANGED <<head, nodes, place, op, iteration>>

Step(w) ==
    \/ PushPrev(w) \/ PushNext(w) \/ PushLink(w) \/ PushHead(w)
    \/ RemoveNext(w) \/ RemoveLeft(w) \/ RemoveRight(w)
    \/ IterateNext(w) \/ IterateEnd(w)

Next ==
    \E w \in Workers :
        \/ Step(w) \/ Crash(w)
        \/ \E k \in Kinds : IterateCall(w, k)
        \/ \E s \in Slabs :
              GiveBack(w, s) \/ \E k \in Kinds : PushCall(w, k, s) \/ RemoveCall(w, k, s)

Spec == Init /\ [][Next]_vars

-----------------------------------------------------------------------------
\* No slab is ever linked to itself.
TypeOK ==
    /\ head \in [Lists -> Links]
    /\ prev \in [Slabs -> Links] /\ next \in [Slabs -> Links]
    /\ \A s \in Slabs : prev[s] # s /\ next[s] # s
    /\ place \in [Slabs -> Lists \cup {InHand(w) : w \in Workers} \cup {NULL_U32}]
    /\ pc \in [Workers -> {"idle", "body", "dead"} \cup Operating]
    /\ kind \in [Workers -> Kinds \cup {NULL_U32}] /\ slab \in [Workers -> Links]
    /\ left \in [Workers -> Links] /\ right \in [Workers -> Links]
    /\ walk \in [Workers -> Kinds \cup {NULL_U32}]
    /\ cursor \in [Workers -> Links] /\ given \in [Workers -> Links]
    /\ before \in [Workers -> Seq(Slabs)] /\ todo \in [Workers -> Seq(Slabs)]

\* The list an unfinished operation, of a living worker or a dead one, is on.
Busy(l) == kind[l[1]] = l[2]

\* Every list on which nobody is at work holds the slabs that were put on it,
\* and is linked back as it is linked forth, whatever the other workers, who
\* share the array of nodes, are doing or died doing.
LinksMirrored ==
    \A l \in Lists : ~Busy(l) =>
        LET seq == From(head[l])
        IN  /\ Len(seq) <= Cardinality(Slabs)
            /\ On(seq) = {s \in Slabs : place[s] = l}
            /\ \A i \in DOMAIN seq :
                  prev[seq[i]] = IF i = 1 THEN NULL_U32 ELSE seq[i - 1]

\* The iterator returns the slabs that were on the list when it began, in
\* order and each once, though the body unlinks them and links them elsewhere.
IterationExact ==
    \A w \in Workers : pc[w] \in {"body"} \cup Operating => From(cursor[w]) = todo[w]

\* push and remove are atomic operations on sequences, disjoint over all
\* lists of all workers; an operation happens when it stores its last link.
Abstract == INSTANCE LocalLists
    WITH lists <- [l \in Lists |-> IF Busy(l) THEN before[l[1]] ELSE From(head[l])]
RefinesLocalLists == Abstract!ListsSpec

=============================================================================
