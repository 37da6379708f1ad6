--------------------------- MODULE GlobalFreeList ---------------------------
(***************************************************************************)
(* The lock-free stack of unassigned slabs (src/src/global_free_list.rs):  *)
(* an atomic head that packs a generation and an index, and one atomic     *)
(* global_next link per slab.  Every atomic load, store and                *)
(* compare-exchange is a step of its own, so the workers interleave        *)
(* between any two of them; a worker may also die between any two.         *)
(*                                                                         *)
(* The module implements SlabPool: the history variable "stack" is the     *)
(* abstract stack, updated where a compare-exchange succeeds.              *)
(***************************************************************************)
EXTENDS Naturals, Sequences

CONSTANTS
    Workers,        \* worker indices using the list
    Mortal,         \* the workers whose process may die
    NumSlabs,       \* header.num_slabs
    GenModulus,     \* number of generations, 2^32 in the code
    NULL_U32        \* the null link

ASSUME NumSlabsAssumption == NumSlabs \in Nat \ {0}
ASSUME GenModulusAssumption == GenModulus \in Nat \ {0}
ASSUME MortalAssumption == Mortal \subseteq Workers

Slabs == 0 .. NumSlabs - 1
Links == Slabs \cup {NULL_U32}
Gens == 0 .. GenModulus - 1
Heads == [gen : Gens, index : Links]

ASSUME NullAssumption == NULL_U32 \notin Slabs

VARIABLES
    head,           \* header.global_free_list_head, unpacked
    globalNext,     \* LinkedListNode::global_next of every slab
    pc,             \* where each worker is in push or pop
    snap,           \* current_head of each worker: the head it loaded
    arg,            \* slab_index of each worker's push
    next,           \* next_slab_index of each worker's pop
    held,           \* the slabs each worker owns
    answer,         \* the Option its last pop returned
    stack           \* history: the stack the list stands for

vars == <<head, globalNext, pc, snap, arg, next, held, answer, stack>>

PopPCs == {"pop_load", "pop_next", "pop_cas"}
PushPCs == {"push_load", "push_link", "push_cas"}
PCs == {"idle", "pop_clear", "dead"} \cup PopPCs \cup PushPCs

\* The locals of a worker that has loaded no head.
NoSnap == [gen |-> 0, index |-> NULL_U32]

-----------------------------------------------------------------------------
\* initialize::free_list_elements: slab i links to i + 1, the last to null,
\* and the head is generation 0, slab 0.
Init ==
    /\ head = [gen |-> 0, index |-> 0]
    /\ globalNext = [s \in Slabs |-> IF s = NumSlabs - 1 THEN NULL_U32 ELSE s + 1]
    /\ pc = [w \in Workers |-> "idle"]
    /\ snap = [w \in Workers |-> NoSnap]
    /\ arg = [w \in Workers |-> NULL_U32]
    /\ next = [w \in Workers |-> NULL_U32]
    /\ held = [w \in Workers |-> {}]
    /\ answer = [w \in Workers |-> "None"]
    /\ stack = [i \in 1 .. NumSlabs |-> i - 1]

\* Mutant of NextGen: the generation does not wrap.
NextGenUnwrapped(g) == g + 1

\* The generation of the next head: wrapping_add(1).
NextGen(g) == (g + 1) % GenModulus

\* A worker that will compare the head with the one it loaded.
Loaded(w) == pc[w] \in {"pop_next", "pop_cas", "push_link", "push_cas"}

\* BOUND.  No operation is overtaken, between its load and its
\* compare-exchange, by so many successful ones that the generation it
\* loaded comes round again (GenModulus - 1 of them).
NoGenWrap(w) ==
    \A v \in Workers \ {w} : Loaded(v) => snap[v].gen # NextGen(head.gen)

Goto(w, label) == pc' = [pc EXCEPT ![w] = label]

\* self.head.load(Acquire)
LoadHead(w) == snap' = [snap EXCEPT ![w] = head]

\* Mutant of HeadUnchanged: a store instead of a compare-exchange.
HeadUnchecked(w) == TRUE

\* Mutant of HeadUnchanged: the generation is not compared.
HeadUnchangedIndexOnly(w) == head.index = snap[w].index

\* self.head.compare_exchange(current_head, pack_index(gen + 1, index)):
\* the two outcomes.
HeadUnchanged(w) == head = snap[w]

SwingHead(w, index) == head' = [gen |-> NextGen(head.gen), index |-> index]

-----------------------------------------------------------------------------
\* pop() is called.
PopCall(w) ==
    /\ pc[w] = "idle"
    /\ Goto(w, "pop_load")
    /\ answer' = [answer EXCEPT ![w] = "Pending"]
    /\ UNCHANGED <<head, globalNext, snap, arg, next, held, stack>>

\* Load the head; a null index is an empty list and pop returns None.
PopLoad(w) ==
    /\ pc[w] = "pop_load"
    /\ IF head.index = NULL_U32
       THEN /\ Goto(w, "idle")
            /\ answer' = [answer EXCEPT ![w] = "None"]
            /\ UNCHANGED snap
       ELSE /\ Goto(w, "pop_next")
            /\ LoadHead(w)
            /\ UNCHANGED answer
    /\ UNCHANGED <<head, globalNext, arg, next, held, stack>>

\* Load global_next of the slab at the loaded head, which by now may belong
\* to another worker.
PopReadNext(w) ==
    /\ pc[w] = "pop_next"
    /\ next' = [next EXCEPT ![w] = globalNext[snap[w].index]]
    /\ Goto(w, "pop_cas")
    /\ UNCHANGED <<head, globalNext, snap, arg, held, answer, stack>>

\* Mutant of Retry: only the head is read again.
RetryNoRelink(w, load, cas) == Goto(w, cas) /\ LoadHead(w) /\ UNCHANGED next

\* Mutant of Retry: the head is not read again.
RetryStale(w, load, cas) == Goto(w, cas) /\ UNCHANGED <<snap, next>>

\* Where an operation goes when its compare-exchange fails.
Retry(w, load, cas) ==
    /\ Goto(w, load)
    /\ snap' = [snap EXCEPT ![w] = NoSnap]
    /\ next' = [next EXCEPT ![w] = NULL_U32]

\* Mutant of PopCASFails: pop returns None when its exchange fails.
PopCASGivesUp(w) ==
    /\ pc[w] = "pop_cas"
    /\ ~HeadUnchanged(w)
    /\ Retry(w, "idle", "pop_cas")
    /\ answer' = [answer EXCEPT ![w] = "None"]
    /\ UNCHANGED <<head, globalNext, arg, held, stack>>

PopCASFails(w) ==
    /\ pc[w] = "pop_cas"
    /\ ~HeadUnchanged(w)
    /\ Retry(w, "pop_load", "pop_cas")
    /\ UNCHANGED <<head, globalNext, arg, held, answer, stack>>

\* The exchange succeeds: the slab is w's from this step on.
PopCAS(w) ==
    /\ pc[w] = "pop_cas"
    /\ HeadUnchanged(w)
    /\ NoGenWrap(w)
    /\ SwingHead(w, next[w])
    /\ held' = [held EXCEPT ![w] = @ \cup {snap[w].index}]
    /\ answer' = [answer EXCEPT ![w] = "Some"]
    /\ stack' = Tail(stack)
    /\ Goto(w, "pop_clear")
    /\ UNCHANGED <<globalNext, snap, arg, next>>

\* Store null in the popped slab's link, and return it.
ClearLink(s) == globalNext' = [globalNext EXCEPT ![s] = NULL_U32]

PopClear(w) ==
    /\ pc[w] = "pop_clear"
    /\ ClearLink(snap[w].index)
    /\ snap' = [snap EXCEPT ![w] = NoSnap]
    /\ next' = [next EXCEPT ![w] = NULL_U32]
    /\ Goto(w, "idle")
    /\ UNCHANGED <<head, arg, held, answer, stack>>

-----------------------------------------------------------------------------
\* push(slab_index) is called, for a slab the worker owns.
PushCall(w) ==
    /\ pc[w] = "idle"
    /\ \E s \in held[w] : arg' = [arg EXCEPT ![w] = s]
    /\ Goto(w, "push_load")
    /\ UNCHANGED <<head, globalNext, snap, next, held, answer, stack>>

PushLoad(w) ==
    /\ pc[w] = "push_load"
    /\ LoadHead(w)
    /\ Goto(w, "push_link")
    /\ UNCHANGED <<head, globalNext, arg, next, held, answer, stack>>

\* Link the pushed slab to the loaded head.
PushLink(w) ==
    /\ pc[w] = "push_link"
    /\ globalNext' = [globalNext EXCEPT ![arg[w]] = snap[w].index]
    /\ Goto(w, "push_cas")
    /\ UNCHANGED <<head, snap, arg, next, held, answer, stack>>

PushCASFails(w) ==
    /\ pc[w] = "push_cas"
    /\ ~HeadUnchanged(w)
    /\ Retry(w, "push_load", "push_cas")
    /\ UNCHANGED <<head, globalNext, arg, held, answer, stack>>

PushCAS(w) ==
    /\ pc[w] = "push_cas"
    /\ HeadUnchanged(w)
    /\ NoGenWrap(w)
    /\ SwingHead(w, arg[w])
    /\ held' = [held EXCEPT ![w] = @ \ {arg[w]}]
    /\ stack' = <<arg[w]>> \o stack
    /\ arg' = [arg EXCEPT ![w] = NULL_U32]
    /\ snap' = [snap EXCEPT ![w] = NoSnap]
    /\ Goto(w, "idle")
    /\ UNCHANGED <<globalNext, next, answer>>

-----------------------------------------------------------------------------
\* The worker's process dies; what it owned stays owned (no step of the code
\* gives a dead worker's slabs back).
Crash(w) ==
    /\ w \in Mortal
    /\ pc[w] # "dead"
    /\ Goto(w, "dead")
    /\ UNCHANGED <<head, globalNext, snap, arg, next, held, answer, stack>>

\* A step of an operation in progress.
Step(w) ==
    \/ PopLoad(w) \/ PopReadNext(w) \/ PopCASFails(w) \/ PopCAS(w) \/ PopClear(w)
    \/ PushLoad(w) \/ PushLink(w) \/ PushCASFails(w) \/ PushCAS(w)

Next == \E w \in Workers : Step(w) \/ PopCall(w) \/ PushCall(w) \/ Crash(w)

Spec == Init /\ [][Next]_vars

\* A worker that lives keeps being scheduled; it need not call anything.
Fairness == \A w \in Workers : WF_vars(Step(w))

FairSpec == Spec /\ Fairness

-----------------------------------------------------------------------------
TypeOK ==
    /\ head \in Heads
    /\ globalNext \in [Slabs -> Links]
    /\ pc \in [Workers -> PCs]
    /\ snap \in [Workers -> Heads]
    /\ arg \in [Workers -> Links]
    /\ next \in [Workers -> Links]
    /\ held \in [Workers -> SUBSET Slabs]
    /\ answer \in [Workers -> {"None", "Some", "Pending"}]
    /\ stack \in Seq(Slabs)

\* The links reachable from the head are exactly the stack: from the head,
\* global_next visits each unowned slab once and ends in null.  This is what
\* the ABA race would break, and what the shuttle test walks the list for.
ListIntact ==
    /\ head.index = IF stack = <<>> THEN NULL_U32 ELSE stack[1]
    /\ \A i \in 1 .. Len(stack) :
          globalNext[stack[i]] = IF i = Len(stack) THEN NULL_U32 ELSE stack[i + 1]
    /\ \A i, j \in 1 .. Len(stack) : stack[i] = stack[j] => i = j

InStack(s) == \E i \in 1 .. Len(stack) : stack[i] = s

\* No slab is lost and none is owned twice: every slab is either on the list
\* or owned by exactly one worker, whatever the interleaving of pushes, pops
\* and deaths.
Conservation ==
    /\ \A w \in Workers : \A s \in held[w] : ~InStack(s)
    /\ \A w, v \in Workers : w # v => held[w] \cap held[v] = {}
    /\ \A s \in Slabs : InStack(s) \/ \E w \in Workers : s \in held[w]

\* A live worker that is not inside push or pop owns only slabs whose
\* global_next is null: the clearing store after the exchange is never lost,
\* although it comes when other workers may still read that link.
LinksCleared ==
    \A w \in Workers, s \in Slabs :
        /\ s \in held[w]
        /\ pc[w] # "dead"
        /\ pc[w] = "pop_clear" => snap[w].index # s
        /\ pc[w] \in PushPCs => arg[w] # s
        => globalNext[s] = NULL_U32

\* What a worker inside push or pop may rely on.  Only it can touch the slab
\* it pushes or has just popped; if the generation it loaded is still
\* current, so is the index, and so is the link it read: the tagged head
\* makes the compare-exchange as good as a lock.  Its pop is unanswered up to
\* the exchange.
SnapshotOK(w) ==
    /\ pc[w] \in PushPCs => arg[w] \in held[w]
    /\ pc[w] = "push_cas" => globalNext[arg[w]] = snap[w].index
    /\ pc[w] \in {"pop_next", "pop_cas"} => snap[w].index \in Slabs
    /\ pc[w] = "pop_clear" => snap[w].index \in held[w]
    /\ Loaded(w) /\ snap[w].gen = head.gen => snap[w].index = head.index
    /\ pc[w] = "pop_cas" /\ snap[w] = head => next[w] = globalNext[head.index]
    /\ pc[w] # "dead" => (answer[w] = "Pending" <=> pc[w] \in PopPCs)

Snapshots == \A w \in Workers : SnapshotOK(w)

\* The inductive invariant behind the safety theorems.
IInv == TypeOK /\ ListIntact /\ Conservation /\ LinksCleared /\ Snapshots

\* push and pop are atomic operations on a stack, None only when it is empty.
Pool == INSTANCE SlabPool WITH pool <- stack
RefinesPool == Pool!PoolSpec

\* Lock freedom: however the attempts collide and whoever dies, the list
\* never stays busy without some operation completing.
Busy(w) == pc[w] \notin {"idle", "dead"}
Completes(w) ==
    \/ PushCAS(w)
    \/ PopCAS(w)
    \/ PopLoad(w) /\ head.index = NULL_U32

LockFree ==
    []<>(\A w \in Workers : ~Busy(w)) \/ []<><<\E w \in Workers : Completes(w)>>_vars

=============================================================================
