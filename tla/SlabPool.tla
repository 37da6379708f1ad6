------------------------------ MODULE SlabPool ------------------------------
(***************************************************************************)
(* What the global free list promises to the workers: a stack of the slabs *)
(* nobody owns, whose push and pop each take effect at one instant.        *)
(* GlobalFreeList implements this module; Allocator is built on it.        *)
(***************************************************************************)
EXTENDS Naturals, Sequences

CONSTANTS
    Workers,        \* worker indices that may use the list
    NumSlabs        \* header.num_slabs

ASSUME NumSlabsAssumption == NumSlabs \in Nat \ {0}

VARIABLES
    pool,           \* the unowned slabs, top of the stack first
    held,           \* held[w]: the slabs w has popped and not pushed back
    answer          \* answer[w]: what w's last pop returned, "Pending" before that

poolVars == <<pool, held, answer>>

Slabs == 0 .. NumSlabs - 1

PoolInit ==
    /\ pool = [i \in 1 .. NumSlabs |-> i - 1]
    /\ held = [w \in Workers |-> {}]
    /\ answer = [w \in Workers |-> "None"]

\* w calls pop.
Call(w) ==
    /\ answer[w] # "Pending"
    /\ answer' = [answer EXCEPT ![w] = "Pending"]
    /\ UNCHANGED <<pool, held>>

\* w's pop takes the slab on top: from here on w owns it.
Take(w) ==
    /\ answer[w] = "Pending"
    /\ pool # <<>>
    /\ held' = [held EXCEPT ![w] = @ \cup {Head(pool)}]
    /\ pool' = Tail(pool)
    /\ answer' = [answer EXCEPT ![w] = "Some"]

\* w's pop finds the pool empty.
TakeNone(w) ==
    /\ answer[w] = "Pending"
    /\ pool = <<>>
    /\ answer' = [answer EXCEPT ![w] = "None"]
    /\ UNCHANGED <<pool, held>>

\* w returns a slab s it owns.
Give(w, s) ==
    /\ s \in held[w]
    /\ pool' = <<s>> \o pool
    /\ held' = [held EXCEPT ![w] = @ \ {s}]
    /\ UNCHANGED answer

PoolNext ==
    \E w \in Workers :
        \/ Call(w) \/ Take(w) \/ TakeNone(w)
        \/ \E s \in held[w] : Give(w, s)

PoolSpec == PoolInit /\ [][PoolNext]_poolVars

=============================================================================
