--------------------------- MODULE RemoteFreeList ---------------------------
(***************************************************************************)
(* The remote free list of one slab (src/src/remote_free_list.rs): a       *)
(* 16-bit atomic head and links stored in the freed slots themselves, in   *)
(* the bytes that held the application's data.  Any process pushes; the    *)
(* slab's owner swaps the whole list out and walks it, freeing each slot   *)
(* as it goes.  A freed slot may be allocated and overwritten at once.     *)
(* Every atomic access is a step; processes die between steps.             *)
(***************************************************************************)
EXTENDS Naturals, Sequences

CONSTANTS
    Pushers,        \* processes that free into the slab remotely
    Mortal,         \* those of them that may die
    NumSlots,       \* capacity of the slab
    NULL_U16,       \* the null link
    Data            \* whatever an application keeps in a slot

Slots == 0 .. NumSlots - 1
Links == Slots \cup {NULL_U16}

ASSUME NumSlotsAssumption == NumSlots \in Nat \ {0}
ASSUME MarksAssumption == NULL_U16 \notin Slots /\ Data \notin Links
ASSUME MortalAssumption == Mortal \subseteq Pushers

VARIABLES
    head,           \* SlabMeta::remote_free_stack_head
    mem,            \* the first two bytes of every slot
    pc,             \* where each pusher is
    snap,           \* the head it loaded
    item,           \* the index it frees
    owner,          \* where the owner's drain is
    cursor,         \* current of its iterator
    yielded,        \* the index the iterator returned last
    free,           \* slots the owner has freed
    live,           \* slots an application holds
    list, taken     \* history: the lists the links stand for

vars == <<head, mem, pc, snap, item, owner, cursor, yielded, free, live, list, taken>>
ownerVars == <<owner, cursor, yielded>>
pusherVars == <<pc, snap, item>>

PCs == {"idle", "load", "link", "cas", "dead"}

Init ==
    /\ head = NULL_U16
    /\ mem = [i \in Slots |-> Data]
    /\ pc = [p \in Pushers |-> "idle"]
    /\ snap = [p \in Pushers |-> NULL_U16]
    /\ item = [p \in Pushers |-> NULL_U16]
    /\ owner = "idle"
    /\ cursor = NULL_U16
    /\ yielded = NULL_U16
    /\ free = Slots
    /\ live = {}
    /\ list = <<>>
    /\ taken = <<>>

Goto(p, label) == pc' = [pc EXCEPT ![p] = label]

-----------------------------------------------------------------------------
\* A free slot is allocated (by the owner, or by the next owner of the slab)
\* and the application writes to it.
Allocate(i) ==
    /\ i \in free
    /\ free' = free \ {i}
    /\ live' = live \cup {i}
    /\ mem' = [mem EXCEPT ![i] = Data]
    /\ UNCHANGED <<head, pusherVars, ownerVars, list, taken>>

\* push(index) is called for a slot that the application gives up.
PushCall(p, i) ==
    /\ pc[p] = "idle"
    /\ i \in live
    /\ live' = live \ {i}
    /\ item' = [item EXCEPT ![p] = i]
    /\ Goto(p, "load")
    /\ UNCHANGED <<head, mem, snap, ownerVars, free, list, taken>>

PushLoad(p) ==
    /\ pc[p] = "load"
    /\ snap' = [snap EXCEPT ![p] = head]
    /\ Goto(p, "link")
    /\ UNCHANGED <<head, mem, item, ownerVars, free, live, list, taken>>

\* Store the loaded head in the slot.
LinkItem(p) == mem' = [mem EXCEPT ![item[p]] = snap[p]]

PushLink(p) ==
    /\ pc[p] = "link"
    /\ LinkItem(p)
    /\ Goto(p, "cas")
    /\ UNCHANGED <<head, snap, item, ownerVars, free, live, list, taken>>

\* compare_exchange(current_head, index).
PushCAS(p) ==
    /\ pc[p] = "cas"
    /\ head = snap[p]
    /\ head' = item[p]
    /\ list' = <<item[p]>> \o list
    /\ item' = [item EXCEPT ![p] = NULL_U16]
    /\ snap' = [snap EXCEPT ![p] = NULL_U16]
    /\ Goto(p, "idle")
    /\ UNCHANGED <<mem, ownerVars, free, live, taken>>

\* Mutant of Retry: the slot is not linked again.
RetryNoRelink(p) == snap' = [snap EXCEPT ![p] = head] /\ Goto(p, "cas")

\* Mutant of Retry: the head is not read again.
RetryStale(p) == UNCHANGED snap /\ Goto(p, "cas")

\* On failure the head is loaded again, and linked again.
Retry(p) == snap' = [snap EXCEPT ![p] = NULL_U16] /\ Goto(p, "load")

PushCASFails(p) ==
    /\ pc[p] = "cas"
    /\ head # snap[p]
    /\ Retry(p)
    /\ UNCHANGED <<head, mem, item, ownerVars, free, live, list, taken>>

Crash(p) ==
    /\ p \in Mortal
    /\ pc[p] # "dead"
    /\ Goto(p, "dead")
    /\ UNCHANGED <<head, mem, snap, item, ownerVars, free, live, list, taken>>

-----------------------------------------------------------------------------
\* Mutant of SwapHead: the head is loaded, not swapped.
SwapHeadLoadOnly == UNCHANGED head

\* drain(): swap the head for null.
SwapHead == head' = NULL_U16

DrainSwap ==
    /\ owner = "idle"
    /\ SwapHead
    /\ cursor' = head
    /\ taken' = list
    /\ list' = <<>>
    /\ owner' = "next"
    /\ UNCHANGED <<mem, pusherVars, yielded, free, live>>

\* The iterator's next(): read the link of the slot to return before
\* returning it, for the caller frees it; a null link ends the walk.  (The
\* history drops an index, if there is one: that there is, ChainsIntact says.)
IterNext ==
    /\ owner = "next"
    /\ cursor # NULL_U16
    /\ yielded' = cursor
    /\ cursor' = mem[cursor]
    /\ taken' = SubSeq(taken, 2, Len(taken))
    /\ owner' = "body"
    /\ UNCHANGED <<head, mem, pusherVars, free, live, list>>

\* Mutant of IterEnd: the drain goes on with what was pushed meanwhile.
IterChases ==
    /\ owner = "next"
    /\ cursor = NULL_U16
    /\ head' = NULL_U16
    /\ cursor' = head
    /\ taken' = list
    /\ list' = <<>>
    /\ owner' = IF head = NULL_U16 THEN "idle" ELSE "next"
    /\ UNCHANGED <<mem, pusherVars, yielded, free, live>>

IterEnd ==
    /\ owner = "next"
    /\ cursor = NULL_U16
    /\ owner' = "idle"
    /\ UNCHANGED <<head, mem, pusherVars, cursor, yielded, free, live, list, taken>>

\* The loop body: local_free_with_size_index of the returned slot.
LocalFree ==
    /\ owner = "body"
    /\ free' = free \cup {yielded}
    /\ yielded' = NULL_U16
    /\ owner' = "next"
    /\ UNCHANGED <<head, mem, pusherVars, cursor, live, list, taken>>

PushStep(p) == PushLoad(p) \/ PushLink(p) \/ PushCAS(p) \/ PushCASFails(p)
WalkStep == IterNext \/ IterEnd \/ LocalFree

Next ==
    \/ \E i \in Slots : Allocate(i) \/ \E p \in Pushers : PushCall(p, i)
    \/ \E p \in Pushers : PushStep(p) \/ Crash(p)
    \/ DrainSwap
    \/ WalkStep

Spec == Init /\ [][Next]_vars

\* Live processes keep being scheduled; nobody has to start a call.
FairSpec == Spec /\ WF_vars(WalkStep) /\ \A p \in Pushers : WF_vars(PushStep(p))

-----------------------------------------------------------------------------
TypeOK ==
    /\ head \in Links
    /\ mem \in [Slots -> Links \cup {Data}]
    /\ pc \in [Pushers -> PCs]
    /\ snap \in [Pushers -> Links]
    /\ item \in [Pushers -> Links]
    /\ owner \in {"idle", "next", "body"}
    /\ cursor \in Links
    /\ yielded \in Links
    /\ free \subseteq Slots
    /\ live \subseteq Slots
    /\ list \in Seq(Slots)
    /\ taken \in Seq(Slots)

\* seq is what the links in memory spell, starting at "from".
Spells(from, seq) ==
    /\ from = IF seq = <<>> THEN NULL_U16 ELSE seq[1]
    /\ \A j \in 1 .. Len(seq) :
          mem[seq[j]] = IF j = Len(seq) THEN NULL_U16 ELSE seq[j + 1]

\* Both chains are intact: from the head, the pushed slots; from the
\* iterator, those it has still to return.  No push links into a chain that
\* has been swapped out, and no application writes over a link the iterator
\* still needs, although slots are reused while a drain is in progress.
ChainsIntact == Spells(head, list) /\ Spells(cursor, taken)

\* A slot is at one place only: free, held by the application, being pushed,
\* on the list, in the chain being walked, or returned and not yet freed.
PlacesOf(i) ==
    {<<"free", 0>> : j \in free \cap {i}} \cup {<<"live", 0>> : j \in live \cap {i}}
    \cup {<<"push", p>> : p \in {q \in Pushers : item[q] = i}}
    \cup {<<"list", j>> : j \in {k \in 1 .. Len(list) : list[k] = i}}
    \cup {<<"taken", j>> : j \in {k \in 1 .. Len(taken) : taken[k] = i}}
    \cup {<<"body", 0>> : j \in {yielded} \cap {i}}
OnePlace == \A i \in Slots : \E place \in PlacesOf(i) : PlacesOf(i) = {place}

\* Pushes are atomic, a drain takes everything pushed before it at once, and
\* each index is returned exactly once.
Abstract == INSTANCE SlotList
RefinesSlotList == Abstract!ListSpec

\* A drain ends: pushes that keep arriving cannot keep it going.
DrainEnds == owner # "idle" ~> owner = "idle"

\* Pushers never livelock: while one is busy, pushes complete.
Busy(p) == pc[p] \notin {"idle", "dead"}
PushesProgress ==
    []<>(\A p \in Pushers : ~Busy(p)) \/ []<><<\E p \in Pushers : PushCAS(p)>>_vars

=============================================================================
