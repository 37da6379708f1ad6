--------------------------- MODULE FreeStackProofs ---------------------------
(***************************************************************************)
(* The free stack under one thread, for every set of capacities: the       *)
(* entries below the top and the indices given out are the slots of the    *)
(* slab, each once, and the stack implements a sequence.  The run with two *)
(* threads shows that neither holds for threads that share a handle.       *)
(***************************************************************************)
EXTENDS FreeStack, Integers, SequenceTheorems, FunctionTheorems, FiniteSetTheorems,
        TLAPS

\* The indices that are off the stack: given out, or about to be pushed.
Holding(t) == IF pc[t] \in {"push_entry", "push_store"} THEN {item[t]} ELSE {}
Out(t) == given[t] \cup Holding(t)

\* Outside of a reset, every slot of the slab is at one position below the top, or
\* off the stack.
Whole(t) ==
    pc[t] \notin {"reset_capacity", "reset"} =>
        /\ \A i \in 0 .. top - 1 : stack[i] \in 0 .. capacity - 1 /\ stack[i] \notin Out(t)
        /\ \A i, j \in 0 .. top - 1 : stack[i] = stack[j] => i = j
        /\ Out(t) \subseteq 0 .. capacity - 1
        /\ \A x \in 0 .. capacity - 1 : x \in Out(t) \/ \E i \in 0 .. top - 1 : stack[i] = x
        /\ Holding(t) \cap given[t] = {}

\* What the thread has read is still so.
Fresh(t) ==
    /\ pc[t] \in {"pop_entry", "pop_store"} => top > 0 /\ at[t] = top - 1
    /\ pc[t] = "pop_store" => item[t] = stack[top - 1]
    /\ pc[t] \in {"push_entry", "push_store"} => top < capacity /\ at[t] = top
    /\ pc[t] = "push_store" => stack[top] = item[t]
    /\ pc[t] = "reset_capacity" => at[t] = top /\ top \in Capacities /\ given[t] = {}
    /\ pc[t] = "reset" =>
          /\ top = capacity /\ given[t] = {}
          /\ \A i \in 0 .. at[t] - 1 : stack[i] = capacity - i - 1

StackInv(t) == TypeOK /\ Whole(t) /\ Fresh(t)

-----------------------------------------------------------------------------
(* Capacities and counting. *)

\* A finite set of positive numbers has a largest one: as many numbers as are below
\* some of them.
LEMMA CellsFacts ==
  /\ MaxCapacity \in Capacities
  /\ \A c \in Capacities : c \in Nat \ {0} /\ c <= MaxCapacity
  /\ Cells = 0 .. MaxCapacity - 1
<1>1. PICK f : f = [c \in Capacities |-> 1 .. c]
  OBVIOUS
<1>2. PICK Below : Below = {f[c] : c \in Capacities}
  OBVIOUS
<1>3. IsFiniteSet(Below)
  <2>1. f \in Surjection(Capacities, Below)
    <3>1. f \in [Capacities -> Below]
      BY <1>1, <1>2
    <3>2. \A b \in Below : \E c \in Capacities : f[c] = b
      BY <1>2
    <3> QED BY <3>1, <3>2, Fun_IsSurj
  <2> QED BY <2>1, CapacitiesAssumption, FS_Surjection
<1>4. PICK T : T = UNION Below
  OBVIOUS
<1>5. IsFiniteSet(T)
  <2>1. \A b \in Below : IsFiniteSet(b)
    <3> SUFFICES ASSUME NEW b \in Below PROVE IsFiniteSet(b)
      OBVIOUS
    <3>1. PICK c \in Capacities : b = 1 .. c
      BY <1>1, <1>2
    <3>2. 1 \in Int /\ c \in Int
      BY CapacitiesAssumption
    <3> QED BY <3>1, <3>2, FS_Interval
  <2> QED BY <1>3, <1>4, <2>1, FS_UNION
<1>6. \A x : x \in T <=> \E c \in Capacities : x \in 1 .. c
  BY <1>1, <1>2, <1>4
<1>7. PICK n \in Nat : n = Cardinality(T)
  BY <1>5, FS_CardinalityType
<1>8. ASSUME NEW c \in Capacities PROVE c <= n
  <2>1. 1 .. c \subseteq T
    BY <1>6
  <2>2. 1 \in Int /\ c \in Int /\ c >= 1
    BY CapacitiesAssumption
  <2>3. Cardinality(1 .. c) = c
    BY <2>2, FS_Interval
  <2>4. Cardinality(1 .. c) <= Cardinality(T)
    BY <1>5, <2>1, FS_Subset
  <2> QED BY <1>7, <2>3, <2>4
<1>9. \E c \in Capacities : c >= n
  <2> SUFFICES ASSUME \A c \in Capacities : c < n PROVE FALSE
    BY <1>7, CapacitiesAssumption
  <2>1. n >= 1
    <3>1. PICK c \in Capacities : c \in Nat /\ c < n
      BY CapacitiesAssumption
    <3> QED BY <1>7, <3>1
  <2>2. T \subseteq 1 .. n - 1
    BY <1>6, CapacitiesAssumption
  <2>3. 1 \in Int /\ n - 1 \in Int
    BY <1>7
  <2>4. IsFiniteSet(1 .. n - 1) /\ Cardinality(1 .. n - 1) = IF 1 > n - 1 THEN 0 ELSE n - 1 - 1 + 1
    BY <2>3, FS_Interval
  <2>5. Cardinality(T) <= Cardinality(1 .. n - 1)
    BY <2>2, <2>4, FS_Subset
  <2> QED BY <1>7, <2>1, <2>4, <2>5
<1>10. \E c \in Capacities : \A d \in Capacities : d <= c
  BY <1>7, <1>8, <1>9, CapacitiesAssumption
<1> QED BY <1>10, CapacitiesAssumption DEF MaxCapacity, Cells

\* Distinct entries are as many as their positions.
LEMMA CountEntries ==
  ASSUME NEW n \in Nat, NEW s, NEW E, E = {s[i] : i \in 0 .. n - 1},
         \A i, j \in 0 .. n - 1 : s[i] = s[j] => i = j
  PROVE  IsFiniteSet(E) /\ Cardinality(E) = n
<1>1. E = {s[i] : i \in 0 .. n - 1}
  OBVIOUS
<1>2. PICK f : f = [i \in 0 .. n - 1 |-> s[i]]
  OBVIOUS
<1>3. f \in Bijection(0 .. n - 1, E)
  <2>1. f \in [0 .. n - 1 -> E]
    BY <1>1, <1>2
  <2>2. \A i, j \in 0 .. n - 1 : f[i] = f[j] => i = j
    BY <1>2
  <2>3. \A x \in E : \E i \in 0 .. n - 1 : f[i] = x
    BY <1>1, <1>2
  <2> QED BY <2>1, <2>2, <2>3, Fun_IsBij
<1>4. ExistsBijection(0 .. n - 1, E)
  BY <1>3, Fun_ExistsBij
<1>5. IsFiniteSet(0 .. n - 1) /\ Cardinality(0 .. n - 1) = n
  <2>1. 0 \in Int /\ n - 1 \in Int
    OBVIOUS
  <2>2. IsFiniteSet(0 .. n - 1) /\ Cardinality(0 .. n - 1) = IF 0 > n - 1 THEN 0 ELSE n - 1 - 0 + 1
    BY <2>1, FS_Interval
  <2> QED BY <2>2
<1>6. IsFiniteSet(E) /\ Cardinality(E) = Cardinality(0 .. n - 1)
  BY <1>4, <1>5, FS_Bijection
<1> QED BY <1>1, <1>5, <1>6

\* A full stack has every slot: if one is off the stack, the stack has room.
LEMMA Room ==
  ASSUME NEW c \in Nat, NEW n \in 0 .. c, NEW s,
         \A i \in 0 .. n - 1 : s[i] \in 0 .. c - 1,
         \A i, j \in 0 .. n - 1 : s[i] = s[j] => i = j,
         NEW x \in 0 .. c - 1, \A i \in 0 .. n - 1 : s[i] # x
  PROVE  n < c
<1>1. PICK E : E = {s[i] : i \in 0 .. n - 1}
  OBVIOUS
<1>2. IsFiniteSet(E) /\ Cardinality(E) = n
  <2>1. n \in Nat
    OBVIOUS
  <2> QED BY <1>1, <2>1, CountEntries
<1>3. PICK E2 : E2 = E \cup {x}
  OBVIOUS
<1>4. x \notin E
  BY <1>1
<1>5. IsFiniteSet(E2) /\ Cardinality(E2) = n + 1
  BY <1>2, <1>3, <1>4, FS_AddElement
<1>6. E2 \subseteq 0 .. c - 1
  BY <1>1, <1>3
<1>7. IsFiniteSet(0 .. c - 1) /\ Cardinality(0 .. c - 1) = c
  <2>1. 0 \in Int /\ c - 1 \in Int /\ c >= 1
    OBVIOUS
  <2>2. IsFiniteSet(0 .. c - 1) /\ Cardinality(0 .. c - 1) = IF 0 > c - 1 THEN 0 ELSE c - 1 - 0 + 1
    BY <2>1, FS_Interval
  <2> QED BY <2>1, <2>2
<1>8. Cardinality(E2) <= Cardinality(0 .. c - 1)
  BY <1>6, <1>7, FS_Subset
<1> QED BY <1>5, <1>7, <1>8

-----------------------------------------------------------------------------
(* One thread. *)

\* What the steps of the thread may assume.
LEMMA OneThreadFacts ==
  ASSUME NEW t, Threads = {t}, StackInv(t)
  PROVE  /\ top \in Nat /\ capacity \in Nat
         /\ pc[t] # "reset_capacity" => top <= capacity /\ at[t] <= capacity
         /\ capacity = 0 \/ capacity \in Capacities
         /\ \A i \in 0 .. capacity - 1 : i \in Cells
         /\ MaxCapacity \in Nat /\ capacity <= MaxCapacity
         /\ stack \in [Cells -> Cells \cup {Garbage}]
         /\ pc \in [Threads -> {"idle", "reset_capacity", "reset", "pop_entry", "pop_store",
                                "push_entry", "push_store"}]
         /\ at \in [Threads -> Nat] /\ at[t] \in 0 .. MaxCapacity
         /\ item \in [Threads -> Cells \cup {Garbage}]
         /\ given \in [Threads -> SUBSET Cells]
<1>1. capacity = 0 \/ capacity \in Capacities
  BY DEF StackInv, TypeOK
<1>2. capacity \in Nat
  <2>1. \A c \in Capacities : c \in Nat
    BY CapacitiesAssumption, Zenon
  <2>2. 0 \in Nat
    OBVIOUS
  <2> QED BY <1>1, <2>1, <2>2, Zenon
<1>3. /\ \A i \in 0 .. capacity - 1 : i \in Cells
      /\ MaxCapacity \in Nat /\ capacity <= MaxCapacity
  <2>1. MaxCapacity \in Nat /\ capacity <= MaxCapacity
    <3>1. MaxCapacity \in Nat /\ \A c \in Capacities : c <= MaxCapacity
      BY CellsFacts
    <3>2. CASE capacity = 0
      BY <3>1, <3>2
    <3>3. CASE capacity \in Capacities
      BY <3>1, <3>3
    <3> QED BY <1>1, <3>2, <3>3
  <2> QED BY <1>2, <2>1, CellsFacts
<1> QED BY <1>1, <1>2, <1>3 DEF StackInv, TypeOK

\* With every slot on the stack, none is given out.
LEMMA FullStack ==
  ASSUME NEW t, Threads = {t}, StackInv(t), pc[t] \notin {"reset_capacity", "reset"}, top = capacity
  PROVE  Out(t) = {}
<1> SUFFICES ASSUME NEW x \in Out(t) PROVE FALSE
  OBVIOUS
<1>1. /\ \A i \in 0 .. top - 1 : stack[i] \in 0 .. capacity - 1 /\ stack[i] \notin Out(t)
      /\ \A i, j \in 0 .. top - 1 : stack[i] = stack[j] => i = j
      /\ Out(t) \subseteq 0 .. capacity - 1
  BY DEF StackInv, Whole
<1>2. capacity \in Nat /\ top \in 0 .. capacity /\ x \in 0 .. capacity - 1
  BY <1>1, OneThreadFacts
<1>3. \A i \in 0 .. top - 1 : stack[i] # x
  BY <1>1
<1>4. top < capacity
  BY <1>1, <1>2, <1>3, Room
<1> QED BY <1>2, <1>4

\* With a slot off the stack, the stack has room for it.
LEMMA RoomForOut ==
  ASSUME NEW t, Threads = {t}, StackInv(t), pc[t] \notin {"reset_capacity", "reset"}, Out(t) # {}
  PROVE  top < capacity
<1>1. top # capacity
  BY FullStack
<1> QED BY <1>1, OneThreadFacts

\* A reset stores the new top when the slab has all its slots ...
LEMMA ResetCallStep ==
  ASSUME NEW t, Threads = {t}, StackInv(t), NEW c \in Capacities, ResetCall(t, c)
  PROVE  StackInv(t)'
<1>1. given[t] = {}
  BY FullStack DEF ResetCall, Out
<1>2. /\ top' = c /\ UNCHANGED <<capacity, stack, item, given>>
      /\ pc' = [pc EXCEPT ![t] = "reset_capacity"] /\ at' = [at EXCEPT ![t] = c]
  BY DEF ResetCall, Local, Goto
<1>3. pc'[t] = "reset_capacity" /\ at'[t] = c /\ t \in Threads
  BY <1>2, OneThreadFacts
<1>4. TypeOK'
  <2>1. c \in 0 .. MaxCapacity
    BY CellsFacts, OneThreadFacts
  <2>2. at \in [Threads -> 0 .. MaxCapacity] /\ capacity \in {0} \cup Capacities
    BY DEF StackInv, TypeOK
  <2>3. at' \in [Threads -> 0 .. MaxCapacity]
    BY <1>2, <2>1, <2>2
  <2>4. pc' \in [Threads -> {"idle", "reset_capacity", "reset", "pop_entry", "pop_store",
                            "push_entry", "push_store"}]
    BY <1>2, OneThreadFacts
  <2> QED BY <1>2, <1>3, <2>1, <2>2, <2>3, <2>4, OneThreadFacts DEF TypeOK
<1>5. Whole(t)' /\ Fresh(t)'
  BY <1>1, <1>2, <1>3 DEF Whole, Fresh
<1> QED BY <1>4, <1>5 DEF StackInv

\* ... and the capacity after it.
LEMMA ResetCapacityStep ==
  ASSUME NEW t, Threads = {t}, StackInv(t), ResetStoreCapacity(t)
  PROVE  /\ StackInv(t)' /\ top' = top /\ pc[t] = "reset_capacity" /\ pc'[t] = "reset"
<1>1. at[t] = top /\ top \in Capacities /\ given[t] = {} /\ pc[t] = "reset_capacity"
  BY DEF ResetStoreCapacity, StackInv, Fresh
<1>2. /\ capacity' = top /\ UNCHANGED <<top, stack, item, given>>
      /\ pc' = [pc EXCEPT ![t] = "reset"] /\ at' = [at EXCEPT ![t] = 0]
  BY <1>1 DEF ResetStoreCapacity, StoreCapacity, Local, Goto
<1>3. pc'[t] = "reset" /\ at'[t] = 0 /\ t \in Threads
  BY <1>2, OneThreadFacts
<1>4. TypeOK'
  <2>1. at \in [Threads -> 0 .. MaxCapacity] /\ top \in 0 .. MaxCapacity
    BY DEF StackInv, TypeOK
  <2>2. at' \in [Threads -> 0 .. MaxCapacity]
    BY <1>2, <2>1, OneThreadFacts
  <2>3. pc' \in [Threads -> {"idle", "reset_capacity", "reset", "pop_entry", "pop_store",
                            "push_entry", "push_store"}]
    BY <1>2, OneThreadFacts
  <2>4. top' <= capacity' /\ \A u \in Threads : at'[u] <= capacity'
    BY <1>2, <1>3, OneThreadFacts
  <2> QED BY <1>1, <1>2, <1>3, <2>1, <2>2, <2>3, <2>4, OneThreadFacts DEF TypeOK
<1>5. Whole(t)' /\ Fresh(t)'
  BY <1>1, <1>2, <1>3 DEF Whole, Fresh
<1> QED BY <1>1, <1>2, <1>3, <1>4, <1>5 DEF StackInv

\* It writes the entries from the bottom up; the last one leaves them whole.
LEMMA ResetEntryStep ==
  ASSUME NEW t, Threads = {t}, StackInv(t), ResetEntry(t)
  PROVE  StackInv(t)'
<1>1. /\ top = capacity /\ given[t] = {} /\ pc[t] = "reset"
      /\ \A i \in 0 .. at[t] - 1 : stack[i] = capacity - i - 1
  BY DEF ResetEntry, StackInv, Fresh
<1>2. CASE at[t] < capacity
  <2>1. /\ stack' = [stack EXCEPT ![at[t]] = capacity - at[t] - 1]
        /\ at' = [at EXCEPT ![t] = at[t] + 1] /\ UNCHANGED <<top, capacity, item, given, pc>>
    BY <1>2 DEF ResetEntry, Entry, Local
  <2>2. /\ at'[t] = at[t] + 1 /\ at'[t] \in 0 .. capacity /\ at[t] \in Cells
        /\ capacity - at[t] - 1 \in Cells
    BY <1>2, <2>1, OneThreadFacts
  <2>3. TypeOK'
    BY <1>1, <2>1, <2>2, OneThreadFacts DEF TypeOK, StackInv
  <2>4. \A i \in 0 .. at'[t] - 1 : stack'[i] = capacity - i - 1
    BY <1>1, <1>2, <2>1, <2>2, OneThreadFacts
  <2> QED BY <1>1, <2>1, <2>3, <2>4 DEF StackInv, Whole, Fresh
<1>3. CASE ~(at[t] < capacity)
  <2>1. /\ pc' = [pc EXCEPT ![t] = "idle"] /\ at' = [at EXCEPT ![t] = 0]
        /\ UNCHANGED <<top, capacity, item, given, stack>>
    BY <1>3 DEF ResetEntry, Local, Goto
  <2>2. pc'[t] = "idle" /\ at'[t] = 0
    BY <2>1, OneThreadFacts
  <2>3. TypeOK'
    <3>1. /\ at \in [Threads -> 0 .. MaxCapacity] /\ 0 \in 0 .. MaxCapacity
          /\ pc \in [Threads -> {"idle", "reset_capacity", "reset", "pop_entry", "pop_store",
                                 "push_entry", "push_store"}]
      BY OneThreadFacts DEF TypeOK, StackInv
    <3>2. /\ at' \in [Threads -> 0 .. MaxCapacity]
          /\ pc' \in [Threads -> {"idle", "reset_capacity", "reset", "pop_entry", "pop_store",
                                  "push_entry", "push_store"}]
      BY <2>1, <3>1
    <3>3. top' <= capacity' /\ at'[t] <= capacity'
      BY <1>1, <2>1, <2>2, OneThreadFacts
    <3> QED BY <2>1, <2>2, <3>2, <3>3, OneThreadFacts DEF TypeOK, StackInv
  <2>4. PICK n \in Nat : n = capacity /\ n = top /\ n = at[t]
    BY <1>1, <1>3, OneThreadFacts
  <2>5. \A i \in 0 .. n - 1 : stack[i] = n - i - 1
    BY <1>1, <2>4
  <2>6. \A x \in 0 .. n - 1 : \E i \in 0 .. n - 1 : stack[i] = x
    <3> SUFFICES ASSUME NEW x \in 0 .. n - 1 PROVE \E i \in 0 .. n - 1 : stack[i] = x
      OBVIOUS
    <3>1. PICK i \in 0 .. n - 1 : i = n - x - 1
      OBVIOUS
    <3>2. stack[i] = x
      BY <2>5, <3>1
    <3> QED BY <3>2
  <2>7. Out(t)' = {}
    BY <1>1, <2>1, <2>2 DEF Out, Holding
  <2>8. Whole(t)'
    <3>1. /\ \A i \in 0 .. n - 1 : stack[i] \in 0 .. n - 1
          /\ \A i, j \in 0 .. n - 1 : stack[i] = stack[j] => i = j
      BY <2>5
    <3>2. top' = n /\ capacity' = n /\ stack' = stack /\ Holding(t)' \cap given'[t] = {}
      BY <1>1, <2>1, <2>4
    <3> QED BY <2>6, <2>7, <3>1, <3>2 DEF Whole
  <2>9. Fresh(t)'
    BY <2>2 DEF Fresh
  <2> QED BY <2>3, <2>8, <2>9 DEF StackInv
<1> QED BY <1>2, <1>3

\* A pop reads the top and the entry below it.
LEMMA PopReadStep ==
  ASSUME NEW t, Threads = {t}, StackInv(t), PopReadTop(t) \/ PopReadEntry(t)
  PROVE  StackInv(t)'
<1>1. UNCHANGED <<top, capacity, stack, given>>
  BY DEF PopReadTop, PopReadEntry
<1>2. pc[t] \in {"idle", "pop_entry"} /\ pc'[t] \in {"pop_entry", "pop_store"}
  BY OneThreadFacts DEF PopReadTop, PopReadEntry, Goto
<1>3. Whole(t)'
  <2>1. Out(t) = given[t] /\ Out(t)' = given[t] /\ Holding(t)' = {}
    BY <1>1, <1>2 DEF Out, Holding
  <2> QED BY <1>1, <1>2, <2>1 DEF StackInv, Whole
<1>4. TypeOK' /\ Fresh(t)'
  <2>1. CASE PopReadTop(t)
    <3>1. /\ pc' = [pc EXCEPT ![t] = "pop_entry"] /\ at' = [at EXCEPT ![t] = top - 1]
          /\ top > 0 /\ item' = item
      BY <2>1 DEF PopReadTop, NewTop, Local, Goto
    <3>2. pc[t] = "idle" /\ top \in 0 .. MaxCapacity /\ top <= capacity /\ top <= MaxCapacity
      BY <2>1, OneThreadFacts DEF PopReadTop, StackInv, TypeOK
    <3>3. pc'[t] = "pop_entry" /\ at'[t] = top - 1
      BY <3>1, OneThreadFacts
    <3>4. top - 1 \in Cells /\ top - 1 \in 0 .. MaxCapacity /\ top - 1 <= capacity
      BY <3>1, <3>2, OneThreadFacts, CellsFacts
    <3>5. at' \in [Threads -> 0 .. MaxCapacity]
      BY <3>1, <3>4, OneThreadFacts DEF StackInv, TypeOK
    <3>6. TypeOK'
      BY <1>1, <3>1, <3>2, <3>3, <3>4, <3>5, OneThreadFacts DEF TypeOK, StackInv
    <3>7. Fresh(t)'
      BY <1>1, <3>1, <3>3 DEF Fresh
    <3> QED BY <3>6, <3>7
  <2>2. CASE PopReadEntry(t)
    <3>1. /\ pc[t] = "pop_entry" /\ pc' = [pc EXCEPT ![t] = "pop_store"] /\ at' = at
          /\ item' = [item EXCEPT ![t] = stack[at[t]]]
      BY <2>2 DEF PopReadEntry, Value, Goto
    <3>2. top > 0 /\ at[t] = top - 1
      BY <3>1 DEF StackInv, Fresh
    <3>3. pc'[t] = "pop_store" /\ item'[t] = stack[top - 1] /\ stack[at[t]] \in Cells \cup {Garbage}
      BY <3>1, <3>2, OneThreadFacts
    <3> QED BY <1>1, <3>1, <3>2, <3>3, OneThreadFacts DEF TypeOK, Fresh, StackInv
  <2> QED BY <2>1, <2>2
<1> QED BY <1>3, <1>4 DEF StackInv

\* Storing the top takes the entry off the stack and gives it out.
LEMMA PopStoreStep ==
  ASSUME NEW t, Threads = {t}, StackInv(t), PopStoreTop(t)
  PROVE  /\ StackInv(t)' /\ item[t] \notin given[t] /\ top > 0 /\ top' = top - 1
<1>1. /\ pc[t] = "pop_store" /\ top' = at[t] /\ UNCHANGED <<capacity, stack>>
      /\ given' = [given EXCEPT ![t] = given[t] \cup {item[t]}]
      /\ at' = [at EXCEPT ![t] = 0] /\ item' = [item EXCEPT ![t] = Garbage]
      /\ pc' = [pc EXCEPT ![t] = "idle"]
  BY DEF PopStoreTop, StoreNewTop, Local, Value, Goto
<1>2. top > 0 /\ at[t] = top - 1 /\ item[t] = stack[top - 1]
  BY <1>1 DEF StackInv, Fresh
<1>3. /\ \A i \in 0 .. top - 1 : stack[i] \in 0 .. capacity - 1 /\ stack[i] \notin given[t]
      /\ \A i, j \in 0 .. top - 1 : stack[i] = stack[j] => i = j
      /\ given[t] \subseteq 0 .. capacity - 1
      /\ \A x \in 0 .. capacity - 1 : x \in given[t] \/ \E i \in 0 .. top - 1 : stack[i] = x
  BY <1>1 DEF StackInv, Whole, Out, Holding
<1>4. PICK n \in Nat : n = top - 1 /\ n \in 0 .. top - 1 /\ n + 1 = top
  BY <1>2, OneThreadFacts
<1>5. item[t] \in 0 .. capacity - 1 /\ item[t] \notin given[t] /\ item[t] = stack[n]
  BY <1>2, <1>3, <1>4
<1>6. /\ pc'[t] = "idle" /\ top' = n /\ Out(t)' = given[t] \cup {item[t]} /\ at'[t] = 0
      /\ given'[t] = given[t] \cup {item[t]} /\ Holding(t)' = {}
  BY <1>1, <1>2, <1>4, OneThreadFacts DEF Out, Holding
<1>7. TypeOK'
  <2>1. item[t] \in Cells
    BY <1>5, OneThreadFacts
  <2> QED BY <1>1, <1>4, <1>6, <2>1, OneThreadFacts DEF TypeOK, StackInv
<1>8. Whole(t)'
  <2>1. \A i \in 0 .. n - 1 : stack[i] \in 0 .. capacity - 1 /\ stack[i] \notin Out(t)'
    BY <1>3, <1>4, <1>5, <1>6
  <2>2. \A i, j \in 0 .. n - 1 : stack[i] = stack[j] => i = j
    BY <1>3, <1>4
  <2>3. Out(t)' \subseteq 0 .. capacity - 1
    BY <1>3, <1>5, <1>6
  <2>4. \A x \in 0 .. capacity - 1 : x \in Out(t)' \/ \E i \in 0 .. n - 1 : stack[i] = x
    BY <1>3, <1>4, <1>5, <1>6
  <2> QED BY <1>1, <1>6, <2>1, <2>2, <2>3, <2>4 DEF Whole
<1>9. Fresh(t)'
  BY <1>6 DEF Fresh
<1> QED BY <1>2, <1>4, <1>5, <1>6, <1>7, <1>8, <1>9 DEF StackInv

\* A push takes an index that was given out, and there is room for it.
LEMMA PushCallStep ==
  ASSUME NEW t, Threads = {t}, StackInv(t), PushCall(t)
  PROVE  StackInv(t)'
<1>1. PICK x \in given[t] : /\ given' = [given EXCEPT ![t] = given[t] \ {x}]
                            /\ item' = [item EXCEPT ![t] = x]
  BY DEF PushCall, Value
<1>2. /\ pc[t] = "idle" /\ pc' = [pc EXCEPT ![t] = "push_entry"]
      /\ at' = [at EXCEPT ![t] = top] /\ UNCHANGED <<top, capacity, stack>>
  BY DEF PushCall, Local, Goto
<1>3. top < capacity
  BY <1>2, <1>1, RoomForOut DEF Out
<1>4. /\ pc'[t] = "push_entry" /\ item'[t] = x /\ at'[t] = top /\ given'[t] = given[t] \ {x}
      /\ Out(t)' = Out(t) /\ Holding(t)' \cap given'[t] = {}
  BY <1>1, <1>2, OneThreadFacts DEF Out, Holding
<1>5. TypeOK'
  <2>1. top \in 0 .. capacity - 1 /\ top \in Cells /\ x \in Cells
    BY <1>1, <1>3, OneThreadFacts
  <2> QED BY <1>1, <1>2, <1>4, <2>1, OneThreadFacts DEF TypeOK, StackInv
<1>6. Whole(t)'
  BY <1>2, <1>4 DEF StackInv, Whole
<1>7. Fresh(t)'
  BY <1>2, <1>3, <1>4 DEF Fresh
<1> QED BY <1>5, <1>6, <1>7 DEF StackInv

\* Its entry is stored above the others ...
LEMMA PushEntryStep ==
  ASSUME NEW t, Threads = {t}, StackInv(t), PushStoreEntry(t)
  PROVE  StackInv(t)' /\ \A i \in 0 .. top - 1 : stack'[i] = stack[i]
<1>1. /\ pc[t] = "push_entry" /\ pc' = [pc EXCEPT ![t] = "push_store"]
      /\ stack' = [stack EXCEPT ![at[t]] = item[t]] /\ UNCHANGED <<top, capacity, at, item, given>>
  BY DEF PushStoreEntry, Goto
<1>2. top < capacity /\ at[t] = top
  BY <1>1 DEF StackInv, Fresh
<1>3. pc'[t] = "push_store" /\ top \in Cells
  BY <1>1, <1>2, OneThreadFacts
<1>4. stack'[top] = item[t] /\ \A i \in 0 .. top - 1 : stack'[i] = stack[i]
  BY <1>1, <1>2, <1>3, OneThreadFacts
<1>5. TypeOK'
  BY <1>1, <1>2, <1>3, OneThreadFacts DEF TypeOK, StackInv
<1>6. Out(t)' = Out(t) /\ Holding(t)' = Holding(t)
  BY <1>1, <1>3 DEF Out, Holding
<1>7. Whole(t)'
  BY <1>1, <1>3, <1>4, <1>6 DEF StackInv, Whole
<1>8. Fresh(t)'
  BY <1>1, <1>2, <1>3, <1>4 DEF Fresh
<1> QED BY <1>4, <1>5, <1>7, <1>8 DEF StackInv

\* ... and the top after it.
LEMMA PushStoreStep ==
  ASSUME NEW t, Threads = {t}, StackInv(t), PushStoreTop(t)
  PROVE  /\ StackInv(t)' /\ top' = top + 1 /\ stack[top] \in 0 .. capacity - 1
<1>1. /\ pc[t] = "push_store" /\ top' = at[t] + 1 /\ UNCHANGED <<capacity, stack, given>>
      /\ at' = [at EXCEPT ![t] = 0] /\ item' = [item EXCEPT ![t] = Garbage]
      /\ pc' = [pc EXCEPT ![t] = "idle"]
  BY DEF PushStoreTop, Local, Value, Goto
<1>2. top < capacity /\ at[t] = top /\ stack[top] = item[t]
  BY <1>1 DEF StackInv, Fresh
<1>3. /\ \A i \in 0 .. top - 1 : stack[i] \in 0 .. capacity - 1 /\ stack[i] \notin Out(t)
      /\ \A i, j \in 0 .. top - 1 : stack[i] = stack[j] => i = j
      /\ Out(t) \subseteq 0 .. capacity - 1
      /\ \A x \in 0 .. capacity - 1 : x \in Out(t) \/ \E i \in 0 .. top - 1 : stack[i] = x
      /\ Out(t) = given[t] \cup {item[t]} /\ item[t] \notin given[t]
  BY <1>1 DEF StackInv, Whole, Out, Holding
<1>4. PICK n \in Nat : n = top /\ n \in 0 .. n /\ \A i \in 0 .. n : i \in 0 .. n - 1 \/ i = n
  BY OneThreadFacts
<1>5. /\ pc'[t] = "idle" /\ top' = n + 1 /\ Out(t)' = given[t] /\ at'[t] = 0
      /\ given'[t] = given[t] /\ Holding(t)' = {} /\ top' - 1 = n
  BY <1>1, <1>2, <1>4, OneThreadFacts DEF Out, Holding
<1>6. TypeOK'
  BY <1>1, <1>2, <1>4, <1>5, OneThreadFacts DEF TypeOK, StackInv
<1>7. Whole(t)'
  <2>1. \A i \in 0 .. n : stack[i] \in 0 .. capacity - 1 /\ stack[i] \notin given[t]
    BY <1>2, <1>3, <1>4
  <2>2. \A i, j \in 0 .. n : stack[i] = stack[j] => i = j
    BY <1>2, <1>3, <1>4
  <2>3. given[t] \subseteq 0 .. capacity - 1
    BY <1>3
  <2>4. \A x \in 0 .. capacity - 1 : x \in given[t] \/ \E i \in 0 .. n : stack[i] = x
    BY <1>2, <1>3, <1>4
  <2> QED BY <1>1, <1>5, <2>1, <2>2, <2>3, <2>4 DEF Whole
<1>8. Fresh(t)'
  BY <1>5 DEF Fresh
<1> QED BY <1>2, <1>3, <1>4, <1>5, <1>6, <1>7, <1>8 DEF StackInv

-----------------------------------------------------------------------------
(* The theorems. *)

\* The stack of a slab that was never assigned is empty.
LEMMA InitStackInv == ASSUME NEW t, Threads = {t}, Init PROVE StackInv(t)
<1>1. /\ top = 0 /\ capacity = 0 /\ pc[t] = "idle" /\ given[t] = {}
      /\ pc = [u \in Threads |-> "idle"] /\ at = [u \in Threads |-> 0]
      /\ item = [u \in Threads |-> Garbage] /\ given = [u \in Threads |-> {}]
      /\ stack = [i \in Cells |-> Garbage]
  BY DEF Init
<1>2. TypeOK
  <2>1. MaxCapacity \in Nat
    BY CellsFacts
  <2>2. top \in 0 .. MaxCapacity /\ at \in [Threads -> 0 .. MaxCapacity]
    BY <1>1, <2>1
  <2> QED BY <1>1, <2>2 DEF TypeOK
<1>3. Whole(t) /\ Fresh(t)
  BY <1>1 DEF Whole, Fresh, Out, Holding
<1> QED BY <1>2, <1>3 DEF StackInv

\* Every step of the one thread keeps the invariant.
LEMMA NextStackInv ==
  ASSUME NEW t, Threads = {t}, StackInv(t), [Next]_vars
  PROVE  StackInv(t)'
<1>1. CASE Next
  <2>1. \/ Step(t) \/ PopNone(t) \/ PopReadTop(t) \/ PushCall(t)
        \/ \E c \in Capacities : ResetCall(t, c)
    BY <1>1 DEF Next
  <2>2. PopNone(t) => UNCHANGED vars
    BY DEF PopNone
  <2>3. UNCHANGED vars => StackInv(t)'
    BY DEF vars, StackInv, TypeOK, Whole, Fresh, Out, Holding
  <2>4. Step(t) => StackInv(t)'
    BY ResetCapacityStep, ResetEntryStep, PopReadStep, PopStoreStep, PushEntryStep,
       PushStoreStep DEF Step
  <2> QED BY <2>1, <2>2, <2>3, <2>4, PopReadStep, PushCallStep, ResetCallStep
<1>2. CASE UNCHANGED vars
  BY <1>2 DEF vars, StackInv, TypeOK, Whole, Fresh, Out, Holding
<1> QED BY <1>1, <1>2

\* The inductive invariant of a stack with one thread.
THEOREM Invariance == ASSUME NEW one, Threads = {one} PROVE Spec => []StackInv(one)
<1>1. Init => StackInv(one)
  BY InitStackInv
<1>2. StackInv(one) /\ [Next]_vars => StackInv(one)'
  BY NextStackInv
<1> QED BY <1>1, <1>2, PTL DEF Spec

\* No access leaves the array, and the top stays within the capacity.
THEOREM TypeCorrect == ASSUME NEW one, Threads = {one} PROVE Spec => []TypeOK
<1>1. StackInv(one) => TypeOK
  BY DEF StackInv
<1> QED BY <1>1, Invariance, PTL

\* No slot of the slab is lost, none is twice on the stack, and none is both on it
\* and given out, whatever pops and pushes came before, and after resets to other
\* capacities.
THEOREM NoSlotLost == ASSUME NEW one, Threads = {one} PROVE Spec => []AllSlots
<1>1. StackInv(one) => AllSlots
  <2> SUFFICES ASSUME StackInv(one), pc[one] = "idle"
               PROVE  /\ Free \cup Given = 0 .. capacity - 1
                      /\ Free \cap Given = {}
                      /\ Cardinality(Free) = top
    BY DEF AllSlots
  <2>1. /\ \A i \in 0 .. top - 1 : stack[i] \in 0 .. capacity - 1 /\ stack[i] \notin given[one]
        /\ \A i, j \in 0 .. top - 1 : stack[i] = stack[j] => i = j
        /\ given[one] \subseteq 0 .. capacity - 1
        /\ \A x \in 0 .. capacity - 1 : x \in given[one] \/ \E i \in 0 .. top - 1 : stack[i] = x
    BY DEF StackInv, Whole, Out, Holding
  <2>2. Given = given[one]
    BY DEF Given
  <2>3. Free \cup Given = 0 .. capacity - 1 /\ Free \cap Given = {}
    BY <2>1, <2>2 DEF Free
  <2>4. Cardinality(Free) = top
    <3>1. top \in Nat
      BY OneThreadFacts
    <3>2. PICK s, n, E : s = stack /\ n = top /\ E = Free
      OBVIOUS
    <3>3. /\ n \in Nat /\ E = {s[i] : i \in 0 .. n - 1}
          /\ \A i, j \in 0 .. n - 1 : s[i] = s[j] => i = j
      BY <2>1, <3>1, <3>2 DEF Free
    <3>4. Cardinality(E) = n
      BY <3>3, CountEntries
    <3> QED BY <3>2, <3>4
  <2> QED BY <2>3, <2>4
<1> QED BY <1>1, Invariance, PTL

\* A popped index is one that is not given out.  (With two threads it may be:
\* MCSharedHandle.)
THEOREM NothingGivenTwice == ASSUME NEW one, Threads = {one} PROVE Spec => GivenOnce
<1>1. StackInv(one) /\ [Next]_vars =>
        [\A t \in Threads : PopStoreTop(t) => \A u \in Threads : item[t] \notin given[u]]_vars
  BY PopStoreStep
<1> QED BY <1>1, Invariance, PTL DEF Spec, GivenOnce

-----------------------------------------------------------------------------
(* The sequence that the stack implements. *)

\* The entries below n, the last one first.
Listed(n, s) == [i \in 1 .. n |-> s[n - i]]

\* It is a sequence ...
LEMMA ListedIsSeq ==
  ASSUME NEW S, NEW n \in Nat, NEW s, \A i \in 0 .. n - 1 : s[i] \in S
  PROVE  /\ Listed(n, s) \in Seq(S) /\ Len(Listed(n, s)) = n
         /\ \A i \in 1 .. n : Listed(n, s)[i] = s[n - i]
  BY DEF Listed

\* ... which loses its first element when n goes down by one ...
LEMMA ListedTail ==
  ASSUME NEW S, NEW n \in Nat \ {0}, NEW s, \A i \in 0 .. n - 1 : s[i] \in S
  PROVE  Listed(n, s) # <<>> /\ Tail(Listed(n, s)) = Listed(n - 1, s)
<1>1. PICK seq, m : seq = Listed(n, s) /\ m = n - 1
  OBVIOUS
<1>1a. m \in Nat
  BY <1>1
<1>2. seq \in Seq(S) /\ Len(seq) = n /\ \A i \in 1 .. n : seq[i] = s[n - i]
  BY <1>1, ListedIsSeq
<1>3. /\ Listed(m, s) \in Seq(S) /\ Len(Listed(m, s)) = m
      /\ \A i \in 1 .. m : Listed(m, s)[i] = s[m - i]
  <2>1. \A i \in 0 .. m - 1 : s[i] \in S
    BY <1>1
  <2> QED BY <1>1a, <2>1, ListedIsSeq
<1>4. seq # <<>>
  BY <1>2
<1>5. /\ Tail(seq) \in Seq(S) /\ Len(Tail(seq)) = n - 1
      /\ \A i \in 1 .. n - 1 : Tail(seq)[i] = seq[i + 1]
  BY <1>2, <1>4, EmptySeq, ElementOfSeq, HeadTailProperties
<1>6. \A i \in 1 .. m : Tail(seq)[i] = Listed(m, s)[i]
  <2> SUFFICES ASSUME NEW i \in 1 .. m PROVE Tail(seq)[i] = Listed(m, s)[i]
    OBVIOUS
  <2>1. m - i = n - (i + 1) /\ i + 1 \in 1 .. n
    BY <1>1
  <2>2. Tail(seq)[i] = s[n - (i + 1)]
    BY <1>1, <1>2, <1>5, <2>1
  <2> QED BY <1>3, <2>1, <2>2
<1> QED BY <1>1, <1>3, <1>4, <1>5, <1>6, SeqEqual

\* ... and gains one when n goes up.
LEMMA ListedPush ==
  ASSUME NEW S, NEW n \in Nat, NEW s, \A i \in 0 .. n - 1 : s[i] \in S, s[n] \in S
  PROVE  <<s[n]>> \o Listed(n, s) = Listed(n + 1, s)
<1>1. PICK seq, p, m : seq = Listed(n, s) /\ p = <<s[n]>> \o seq /\ m = n + 1
  OBVIOUS
<1>1a. m \in Nat
  BY <1>1
<1>2. seq \in Seq(S) /\ Len(seq) = n /\ \A i \in 1 .. n : seq[i] = s[n - i]
  BY <1>1, ListedIsSeq
<1>3. /\ Listed(m, s) \in Seq(S) /\ Len(Listed(m, s)) = m
      /\ \A i \in 1 .. m : Listed(m, s)[i] = s[m - i]
  <2>1. \A i \in 0 .. m - 1 : s[i] \in S
    BY <1>1
  <2> QED BY <1>1a, <2>1, ListedIsSeq
<1>4. /\ p \in Seq(S) /\ Len(p) = n + 1 /\ p[1] = s[n]
      /\ \A i \in 1 .. n : p[i + 1] = seq[i]
  BY <1>1, <1>2, LenProperties, ConcatProperties
<1>5. \A i \in 1 .. m : p[i] = Listed(m, s)[i]
  <2> SUFFICES ASSUME NEW i \in 1 .. m PROVE p[i] = Listed(m, s)[i]
    OBVIOUS
  <2>1. CASE i = 1
    <3>1. m - i = n
      BY <1>1, <2>1
    <3> QED BY <1>3, <1>4, <2>1, <3>1
  <2>2. CASE i # 1
    <3>1. PICK j \in 1 .. n : i = j + 1 /\ m - i = n - j
      BY <1>1, <2>2
    <3>2. p[i] = s[n - j]
      BY <1>2, <1>4, <3>1
    <3> QED BY <1>3, <3>1, <3>2
  <2> QED BY <2>1, <2>2
<1> QED BY <1>1, <1>3, <1>4, <1>5, SeqEqual

\* Entries are cells, those of a reset included.
LEMMA EntriesAreCells ==
  ASSUME NEW t, Threads = {t}, StackInv(t), pc[t] \notin {"reset_capacity", "reset"}
  PROVE  top \in Nat /\ \A i \in 0 .. top - 1 : stack[i] \in Cells
  BY OneThreadFacts DEF StackInv, Whole

\* A step of the thread is one operation on the sequence, or none.
LEMMA StepImplements ==
  ASSUME NEW t, Threads = {t}, StackInv(t), [Next]_vars
  PROVE  Abstract!StackNext \/ UNCHANGED Indices
<1>1. /\ Resetting <=> pc[t] \in {"reset_capacity", "reset"}
      /\ Resetting' <=> pc'[t] \in {"reset_capacity", "reset"}
  BY DEF Resetting
<1>2. /\ Resetting => Indices = [i \in 1 .. top |-> i - 1]
      /\ Resetting' => Indices' = [i \in 1 .. top' |-> i - 1]
      /\ ~Resetting => Indices = Listed(top, stack)
      /\ ~Resetting' => Indices' = Listed(top', stack')
  BY DEF Indices, Listed
<1>3. \A label : t \in DOMAIN pc /\ [pc EXCEPT ![t] = label][t] = label
  BY OneThreadFacts
<1>4. CASE \E c \in Capacities : ResetCall(t, c)
  <2>1. PICK c \in Capacities : ResetCall(t, c)
    BY <1>4
  <2>2. top' = c /\ pc'[t] = "reset_capacity"
    BY <1>3, <2>1 DEF ResetCall, Goto
  <2>3. Abstract!Reset(c)
    BY <1>1, <1>2, <2>2 DEF Abstract!Reset
  <2> QED BY <2>3 DEF Abstract!StackNext
<1>4a. CASE ResetStoreCapacity(t)
  BY <1>1, <1>2, <1>4a, ResetCapacityStep
<1>5. CASE ResetEntry(t)
  <2>1. /\ pc[t] = "reset" /\ top = capacity /\ UNCHANGED <<top, capacity>>
        /\ \A i \in 0 .. at[t] - 1 : stack[i] = capacity - i - 1
    BY <1>5 DEF ResetEntry, StackInv, Fresh
  <2>2. CASE at[t] < capacity
    <3>1. pc' = pc
      BY <1>5, <2>2 DEF ResetEntry
    <3> QED BY <1>1, <1>2, <2>1, <3>1
  <2>3. CASE ~(at[t] < capacity)
    <3>1. pc'[t] = "idle" /\ stack' = stack /\ at[t] = capacity /\ capacity \in Nat
      BY <1>3, <1>5, <2>3, OneThreadFacts DEF ResetEntry, Goto
    <3>2. \A i \in 1 .. capacity : stack[capacity - i] = i - 1
      <4> SUFFICES ASSUME NEW i \in 1 .. capacity PROVE stack[capacity - i] = i - 1
        OBVIOUS
      <4>1. PICK j \in 0 .. capacity - 1 : j = capacity - i
        BY <3>1
      <4>2. stack[j] = capacity - j - 1
        BY <2>1, <3>1, <4>1
      <4> QED BY <3>1, <4>1, <4>2
    <3>3. Indices' = [i \in 1 .. capacity |-> stack[capacity - i]]
      BY <1>1, <1>2, <2>1, <3>1 DEF Listed
    <3>4. Indices = [i \in 1 .. capacity |-> i - 1]
      BY <1>1, <1>2, <2>1
    <3> QED BY <3>2, <3>3, <3>4
  <2> QED BY <2>2, <2>3
<1>6. CASE PopReadTop(t) \/ PopReadEntry(t) \/ PushCall(t)
  <2>1. UNCHANGED <<top, capacity, stack>> /\ pc[t] \notin {"reset_capacity", "reset"} /\ pc'[t] \notin {"reset_capacity", "reset"}
    BY <1>3, <1>6 DEF PopReadTop, PopReadEntry, PushCall, Goto
  <2> QED BY <1>1, <1>2, <2>1
<1>7. CASE PopStoreTop(t)
  <2>1. pc[t] \notin {"reset_capacity", "reset"} /\ pc'[t] \notin {"reset_capacity", "reset"} /\ stack' = stack
    BY <1>3, <1>7 DEF PopStoreTop, Goto
  <2>2. top > 0 /\ top' = top - 1
    BY <1>7, PopStoreStep
  <2>3. Indices # <<>> /\ Indices' = Tail(Indices)
    <3>1. top \in Nat /\ \A i \in 0 .. top - 1 : stack[i] \in Cells
      BY <2>1, EntriesAreCells
    <3>2. Listed(top, stack) # <<>> /\ Tail(Listed(top, stack)) = Listed(top - 1, stack)
      <4>1. PICK s, n : s = stack /\ n = top
        OBVIOUS
      <4>2. n \in Nat \ {0} /\ \A i \in 0 .. n - 1 : s[i] \in Cells
        BY <2>2, <3>1, <4>1
      <4>3. Listed(n, s) # <<>> /\ Tail(Listed(n, s)) = Listed(n - 1, s)
        BY <4>2, ListedTail
      <4> QED BY <4>1, <4>3
    <3> QED BY <1>1, <1>2, <2>1, <2>2, <3>2
  <2>4. Abstract!Pop
    BY <2>3 DEF Abstract!Pop
  <2> QED BY <2>4 DEF Abstract!StackNext
<1>8. CASE PushStoreEntry(t)
  <2>1. pc[t] \notin {"reset_capacity", "reset"} /\ pc'[t] \notin {"reset_capacity", "reset"} /\ top' = top
    BY <1>3, <1>8 DEF PushStoreEntry, Goto
  <2>2. \A i \in 0 .. top - 1 : stack'[i] = stack[i]
    BY <1>8, PushEntryStep
  <2>3. \A i \in 1 .. top : stack'[top - i] = stack[top - i]
    BY <2>2, OneThreadFacts
  <2>4. Listed(top, stack') = Listed(top, stack)
    BY <2>3 DEF Listed
  <2> QED BY <1>1, <1>2, <2>1, <2>4
<1>9. CASE PushStoreTop(t)
  <2>1. pc[t] \notin {"reset_capacity", "reset"} /\ pc'[t] \notin {"reset_capacity", "reset"} /\ stack' = stack
    BY <1>3, <1>9 DEF PushStoreTop, Goto
  <2>2. top' = top + 1 /\ stack[top] \in 0 .. capacity - 1
    BY <1>9, PushStoreStep
  <2>3. stack[top] \in Cells /\ capacity \in Capacities
    <3>1. capacity # 0
      BY <2>2, OneThreadFacts
    <3> QED BY <2>2, <3>1, OneThreadFacts
  <2>4. Indices' = <<stack[top]>> \o Indices
    <3>1. top \in Nat /\ \A i \in 0 .. top - 1 : stack[i] \in Cells
      BY <2>1, EntriesAreCells
    <3>2. <<stack[top]>> \o Listed(top, stack) = Listed(top + 1, stack)
      <4>1. PICK s, n : s = stack /\ n = top
        OBVIOUS
      <4>2. n \in Nat /\ s[n] \in Cells /\ \A i \in 0 .. n - 1 : s[i] \in Cells
        BY <2>3, <3>1, <4>1
      <4>3. <<s[n]>> \o Listed(n, s) = Listed(n + 1, s)
        BY <4>2, ListedPush
      <4> QED BY <4>1, <4>3
    <3> QED BY <1>1, <1>2, <2>1, <2>2, <3>2
  <2>5. Abstract!PushIndex(stack[top])
    BY <2>4 DEF Abstract!PushIndex
  <2> QED BY <2>2, <2>3, <2>5 DEF Abstract!StackNext
<1>10. CASE UNCHANGED vars
  BY <1>10 DEF vars, Indices, Resetting
<1>11. PopNone(t) => UNCHANGED vars
  BY DEF PopNone
<1>12. \/ ResetStoreCapacity(t) \/ ResetEntry(t) \/ PopReadEntry(t) \/ PopStoreTop(t)
       \/ PushStoreEntry(t) \/ PushStoreTop(t)
       \/ PopNone(t) \/ PopReadTop(t) \/ PushCall(t)
       \/ \E c \in Capacities : ResetCall(t, c)
       \/ UNCHANGED vars
  BY DEF Next, Step
<1> QED BY <1>4, <1>4a, <1>5, <1>6, <1>7, <1>8, <1>9, <1>10, <1>11, <1>12

\* The calls of one thread are atomic operations on a sequence of indices.
THEOREM ImplementsIndexStack == ASSUME NEW one, Threads = {one} PROVE Spec => RefinesIndexStack
<1>1. Init => Abstract!StackInit
  <2> SUFFICES ASSUME Init PROVE Indices = <<>>
    BY DEF Abstract!StackInit
  <2>1. ~Resetting /\ top = 0
    BY DEF Init, Resetting
  <2> QED BY <2>1 DEF Indices
<1>2. StackInv(one) /\ [Next]_vars => [Abstract!StackNext]_Indices
  BY StepImplements
<1> QED BY <1>1, <1>2, Invariance, PTL DEF Spec, RefinesIndexStack, Abstract!StackSpec

=============================================================================
