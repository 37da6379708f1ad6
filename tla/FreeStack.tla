----------------------------- MODULE FreeStack -----------------------------
(***************************************************************************)
(* The free stack of one slab (src/src/free_stack.rs): top and capacity    *)
(* words and a trailing array, in plain memory.  Every load and store is a *)
(* step, so that threads calling through one handle (Threads has two)      *)
(* interleave between them; a single thread runs them in order.            *)
(*                                                                         *)
(* The calls are those of the slab's owner: take_slab resets the stack,    *)
(* allocate pops, a local free pushes an index the application gives up,   *)
(* and the slab goes back to the pool when all its indices are free.       *)
(***************************************************************************)
EXTENDS Naturals, Sequences, FiniteSets

CONSTANTS
    Threads,        \* threads that call through the owner's handle
    Capacities,     \* slab_size / size of every class
    Garbage         \* what the array holds before the first reset

MaxCapacity == CHOOSE c \in Capacities : \A d \in Capacities : d <= c
Cells == 0 .. MaxCapacity - 1

ASSUME CapacitiesAssumption ==
    Capacities \subseteq Nat \ {0} /\ Capacities # {} /\ IsFiniteSet(Capacities)
ASSUME GarbageAssumption == Garbage \notin Cells

VARIABLES
    top, capacity, stack,   \* the shared words
    pc,                     \* where each thread is
    at,                     \* its local: reset's argument, then index; new_top; or top
    item,                   \* popped_value, or the item it pushes
    given                   \* indices popped and not yet freed, by each thread

vars == <<top, capacity, stack, pc, at, item, given>>
locals == <<pc, at, item>>

Init ==
    /\ top = 0 /\ capacity = 0
    /\ stack = [i \in Cells |-> Garbage]
    /\ pc = [t \in Threads |-> "idle"]
    /\ at = [t \in Threads |-> 0]
    /\ item = [t \in Threads |-> Garbage]
    /\ given = [t \in Threads |-> {}]

Goto(t, label) == pc' = [pc EXCEPT ![t] = label]
Local(t, i) == at' = [at EXCEPT ![t] = i]
Value(t, v) == item' = [item EXCEPT ![t] = v]

-----------------------------------------------------------------------------
\* Mutant of StoreCapacity: the old capacity is kept.
StoreCapacityNot(c) == UNCHANGED capacity

\* take_slab puts the slab on the partial list, where pops find it, after
\* the reset.
Resetting == \E t \in Threads : pc[t] \in {"reset_capacity", "reset"}

\* reset(capacity): the top first, then the capacity, then the entries, index 0
\* last.
StoreCapacity(c) == capacity' = c

ResetCall(t, c) ==
    /\ pc[t] = "idle"
    /\ top = capacity       \* the slab was in the pool: all its slots free
    /\ \A u \in Threads : pc[u] = "idle"
    /\ top' = c
    /\ Local(t, c)
    /\ Goto(t, "reset_capacity")
    /\ UNCHANGED <<capacity, stack, item, given>>

ResetStoreCapacity(t) ==
    /\ pc[t] = "reset_capacity"
    /\ StoreCapacity(at[t])
    /\ Local(t, 0)
    /\ Goto(t, "reset")
    /\ UNCHANGED <<top, stack, item, given>>

\* Mutant of Entry: counting from one.
EntryFromOne(i) == capacity - i

Entry(i) == capacity - i - 1

ResetEntry(t) ==
    /\ pc[t] = "reset"
    /\ IF at[t] < capacity
       THEN /\ stack' = [stack EXCEPT ![at[t]] = Entry(at[t])]
            /\ Local(t, at[t] + 1)
            /\ UNCHANGED pc
       ELSE Goto(t, "idle") /\ Local(t, 0) /\ UNCHANGED stack
    /\ UNCHANGED <<top, capacity, item, given>>

\* pop(): none on an empty stack ...
PopNone(t) ==
    /\ pc[t] = "idle"
    /\ ~Resetting
    /\ top = 0
    /\ UNCHANGED vars

\* ... or read the entry below the top, then store the top.
NewTop == top - 1

PopReadTop(t) ==
    /\ pc[t] = "idle"
    /\ ~Resetting
    /\ top > 0
    /\ Local(t, NewTop)
    /\ Goto(t, "pop_entry")
    /\ UNCHANGED <<top, capacity, stack, item, given>>

PopReadEntry(t) ==
    /\ pc[t] = "pop_entry"
    /\ Value(t, stack[at[t]])
    /\ Goto(t, "pop_store")
    /\ UNCHANGED <<top, capacity, stack, at, given>>

StoreNewTop(t) == top' = at[t]

PopStoreTop(t) ==
    /\ pc[t] = "pop_store"
    /\ StoreNewTop(t)
    /\ given' = [given EXCEPT ![t] = @ \cup {item[t]}]
    /\ Local(t, 0) /\ Value(t, Garbage) /\ Goto(t, "idle")
    /\ UNCHANGED <<capacity, stack>>

\* push(item), for an index the application frees, which it may have got
\* through another thread.
PushCall(t) ==
    /\ pc[t] = "idle"
    /\ \E u \in Threads : \E i \in given[u] :
          /\ given' = [given EXCEPT ![u] = @ \ {i}]
          /\ Value(t, i)
    /\ Local(t, top)
    /\ Goto(t, "push_entry")
    /\ UNCHANGED <<top, capacity, stack>>

\* (A store behind the array is not modelled; AllSlots says there is none.)
PushStoreEntry(t) ==
    /\ pc[t] = "push_entry"
    /\ at[t] \in Cells
    /\ stack' = [stack EXCEPT ![at[t]] = item[t]]
    /\ Goto(t, "push_store")
    /\ UNCHANGED <<top, capacity, at, item, given>>

PushStoreTop(t) ==
    /\ pc[t] = "push_store"
    /\ top' = at[t] + 1
    /\ Local(t, 0) /\ Value(t, Garbage) /\ Goto(t, "idle")
    /\ UNCHANGED <<capacity, stack, given>>

Step(t) ==
    \/ ResetStoreCapacity(t) \/ ResetEntry(t)
    \/ PopReadEntry(t) \/ PopStoreTop(t)
    \/ PushStoreEntry(t) \/ PushStoreTop(t)

Next ==
    \E t \in Threads :
        \/ Step(t)
        \/ PopNone(t) \/ PopReadTop(t) \/ PushCall(t)
        \/ \E c \in Capacities : ResetCall(t, c)

Spec == Init /\ [][Next]_vars

-----------------------------------------------------------------------------
\* header.rs:230-234: the array has room for the largest capacity, and no access
\* leaves it.  Between the two stores of a reset the top may exceed the capacity.
TypeOK ==
    /\ top \in 0 .. MaxCapacity /\ capacity \in {0} \cup Capacities
    /\ stack \in [Cells -> Cells \cup {Garbage}]
    /\ pc \in [Threads -> {"idle", "reset_capacity", "reset", "pop_entry", "pop_store",
                           "push_entry", "push_store"}]
    /\ at \in [Threads -> 0 .. MaxCapacity]
    /\ (\A t \in Threads : pc[t] # "reset_capacity") =>
          top <= capacity /\ \A t \in Threads : at[t] <= capacity
    /\ \A t \in Threads : pc[t] \in {"pop_entry", "push_entry", "push_store"} => at[t] \in Cells
    /\ item \in [Threads -> Cells \cup {Garbage}]
    /\ given \in [Threads -> SUBSET Cells]

\* allocator.rs:37-41, free_stack.rs:8-9: no slot is given to two
\* allocations: an index that has been popped is popped again only after it
\* has been pushed back.
GivenOnce ==
    [][\A t \in Threads : PopStoreTop(t) => \A u \in Threads : item[t] \notin given[u]]_vars

\* Every slot of the slab is free or given, and not both: none is lost and
\* none can be given again before it is freed, whatever the order of pops and
\* pushes, and after a reset to another capacity.
Free == {stack[i] : i \in 0 .. top - 1}
Given == UNION {given[t] : t \in Threads}
AllSlots ==
    (\A t \in Threads : pc[t] = "idle") =>
        /\ Free \cup Given = 0 .. capacity - 1
        /\ Free \cap Given = {}
        /\ Cardinality(Free) = top

\* One thread's calls are atomic operations on a sequence.  A reset happens
\* at once, when it stores the top.
Indices ==
    IF Resetting
    THEN [i \in 1 .. top |-> i - 1]
    ELSE [i \in 1 .. top |-> stack[top - i]]
Abstract == INSTANCE IndexStack WITH indices <- Indices
RefinesIndexStack == Abstract!StackSpec

=============================================================================
