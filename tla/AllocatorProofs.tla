--------------------------- MODULE AllocatorProofs ---------------------------
(***************************************************************************)
(* Safety of the allocator for every number of workers, free-only handles, *)
(* slabs, size classes and deaths: where slabs are, where slots are, and   *)
(* what a clean has visited hold one another up, so they are proved as one *)
(* invariant.  The byte counters, on which nothing else rests, follow.     *)
(***************************************************************************)
EXTENDS Allocator, Integers, SequenceTheorems, FiniteSetTheorems, WellFoundedInduction,
        TLAPS

NoDup(seq) == \A i, j \in DOMAIN seq : seq[i] = seq[j] => i = j

\* An iterator has visited what is before its cursor, and nothing else.
Walking(list, cursor, visited) ==
    /\ cursor = NULL_U32 => Elems(list) \subseteq visited
    /\ cursor # NULL_U32 =>
          \E j \in DOMAIN list :
             /\ list[j] = cursor
             /\ \A k \in DOMAIN list : (list[k] \in visited <=> k < j)

-----------------------------------------------------------------------------
(* The lists of slabs and of indices as sequences without repetition, the      *)
(* iterator of a clean, and the arithmetic of size classes.                    *)

\* Elements, and the empty sequence.
LEMMA ElemsFacts ==
  ASSUME NEW S, NEW seq \in Seq(S)
  PROVE  /\ Len(seq) \in Nat /\ DOMAIN seq = 1 .. Len(seq)
         /\ Elems(seq) \subseteq S
         /\ (Elems(seq) = {} <=> seq = <<>>)
         /\ (Len(seq) = 0 <=> seq = <<>>)
         /\ seq # <<>> => Head(seq) = seq[1] /\ Head(seq) \in Elems(seq)
<1>1. Len(seq) \in Nat /\ DOMAIN seq = 1 .. Len(seq)
  BY LenProperties
<1>2. Elems(seq) \subseteq S
  BY <1>1, ElementOfSeq DEF Elems
<1>3. Len(seq) = 0 <=> seq = <<>>
  BY EmptySeq
<1>4. seq # <<>> => Head(seq) = seq[1] /\ 1 \in DOMAIN seq
  BY <1>1, <1>3, EmptySeq, ElementOfSeq, HeadTailProperties
<1>5. Elems(seq) = {} <=> seq = <<>>
  <2>1. seq = <<>> => Elems(seq) = {}
    BY <1>1, <1>3 DEF Elems
  <2>2. seq # <<>> => Elems(seq) # {}
    BY <1>4 DEF Elems
  <2> QED BY <2>1, <2>2
<1> QED BY <1>1, <1>2, <1>3, <1>4, <1>5 DEF Elems

\* The empty sequence, whatever its elements would be.
LEMMA EmptyElems == Elems(<<>>) = {} /\ NoDup(<<>>)
  BY DEF Elems, NoDup

\* Pushing adds an element; there is no repetition if it is a new one.
LEMMA PushElems ==
  ASSUME NEW S, NEW seq \in Seq(S), NEW x \in S
  PROVE  /\ <<x>> \o seq \in Seq(S) /\ <<x>> \o seq # <<>>
         /\ Len(<<x>> \o seq) = Len(seq) + 1
         /\ Elems(<<x>> \o seq) = Elems(seq) \cup {x}
         /\ NoDup(seq) /\ x \notin Elems(seq) => NoDup(<<x>> \o seq)
<1> DEFINE long == <<x>> \o seq
<1>1. /\ long \in Seq(S) /\ Len(long) = Len(seq) + 1 /\ long[1] = x
      /\ \A i \in 1 .. Len(seq) : long[i + 1] = seq[i]
  BY LenProperties, ConcatProperties
<1>2. /\ Len(seq) \in Nat /\ DOMAIN seq = 1 .. Len(seq)
      /\ DOMAIN long = 1 .. Len(long)
  BY <1>1, LenProperties
<1> HIDE DEF long
<1>3. \A k \in DOMAIN long : k # 1 => k - 1 \in DOMAIN seq /\ long[k] = seq[k - 1]
  <2> TAKE k \in DOMAIN long
  <2> SUFFICES ASSUME k # 1 PROVE k - 1 \in DOMAIN seq /\ long[k] = seq[k - 1]
    OBVIOUS
  <2>1. k - 1 \in 1 .. Len(seq) /\ long[(k - 1) + 1] = seq[k - 1]
    BY <1>1, <1>2
  <2> QED BY <2>1, <1>2
<1>4. long # <<>>
  BY <1>1, <1>2, EmptySeq
<1>5. Elems(long) = Elems(seq) \cup {x}
  <2>1. ASSUME NEW y \in Elems(long) PROVE y \in Elems(seq) \cup {x}
    <3>1. PICK k \in DOMAIN long : y = long[k]
      BY DEF Elems
    <3>2. CASE k = 1
      BY <1>1, <3>1, <3>2
    <3>3. CASE k # 1
      BY <1>3, <3>1, <3>3 DEF Elems
    <3> QED BY <3>2, <3>3
  <2>2. x \in Elems(long)
    BY <1>1, <1>2 DEF Elems
  <2>3. ASSUME NEW i \in DOMAIN seq PROVE seq[i] \in Elems(long)
    <3>1. i + 1 \in DOMAIN long /\ long[i + 1] = seq[i]
      BY <1>1, <1>2
    <3> QED BY <3>1 DEF Elems
  <2>4. Elems(seq) \subseteq Elems(long)
    BY <2>3 DEF Elems
  <2> QED BY <2>1, <2>2, <2>4
<1>6. ASSUME NoDup(seq), x \notin Elems(seq) PROVE NoDup(long)
  <2> SUFFICES ASSUME NEW i \in DOMAIN long, NEW j \in DOMAIN long, long[i] = long[j]
               PROVE  i = j
    BY DEF NoDup
  <2>1. CASE i = 1 \/ j = 1
    BY <2>1, <1>1, <1>3, <1>6 DEF Elems
  <2>2. CASE i # 1 /\ j # 1
    <3>1. i - 1 = j - 1
      BY <2>2, <1>3, <1>6 DEF NoDup
    <3> QED BY <3>1, <1>2
  <2> QED BY <2>1, <2>2
<1> QED BY <1>1, <1>4, <1>5, <1>6 DEF long

\* Popping takes the first element away.
LEMMA TailElems ==
  ASSUME NEW S, NEW seq \in Seq(S), seq # <<>>, NoDup(seq)
  PROVE  /\ Head(seq) \in S /\ Head(seq) \in Elems(seq)
         /\ Tail(seq) \in Seq(S) /\ Len(seq) \in Nat \ {0}
         /\ Len(Tail(seq)) = Len(seq) - 1
         /\ Elems(Tail(seq)) = Elems(seq) \ {Head(seq)}
         /\ NoDup(Tail(seq))
<1>1. /\ Len(seq) \in Nat \ {0} /\ seq[1] \in S /\ Head(seq) = seq[1]
      /\ Tail(seq) \in Seq(S) /\ Len(Tail(seq)) = Len(seq) - 1
      /\ \A i \in 1 .. Len(Tail(seq)) : Tail(seq)[i] = seq[i + 1]
  BY EmptySeq, ElementOfSeq, HeadTailProperties
<1>2. DOMAIN seq = 1 .. Len(seq) /\ DOMAIN Tail(seq) = 1 .. Len(seq) - 1
  BY <1>1, LenProperties
<1>3. ASSUME NEW i \in DOMAIN Tail(seq)
      PROVE  i + 1 \in DOMAIN seq /\ Tail(seq)[i] = seq[i + 1] /\ i + 1 # 1
  BY <1>1, <1>2
<1>4. Elems(Tail(seq)) \subseteq Elems(seq) \ {Head(seq)}
  BY <1>1, <1>2, <1>3 DEF Elems, NoDup
<1>5. ASSUME NEW i \in DOMAIN seq, seq[i] # Head(seq) PROVE seq[i] \in Elems(Tail(seq))
  <2>1. i - 1 \in 1 .. Len(Tail(seq)) /\ Tail(seq)[i - 1] = seq[(i - 1) + 1]
    BY <1>1, <1>2, <1>5
  <2> QED BY <2>1, <1>1, <1>2 DEF Elems
<1>6. Elems(seq) \ {Head(seq)} \subseteq Elems(Tail(seq))
  BY <1>5 DEF Elems
<1>7. NoDup(Tail(seq))
  <2> SUFFICES ASSUME NEW i \in DOMAIN Tail(seq), NEW j \in DOMAIN Tail(seq),
                      Tail(seq)[i] = Tail(seq)[j]
               PROVE  i = j
    BY DEF NoDup
  <2>1. i + 1 = j + 1
    BY <1>3 DEF NoDup
  <2> QED BY <2>1, <1>2
<1>8. Head(seq) \in Elems(seq)
  BY <1>1, <1>2 DEF Elems
<1> QED BY <1>1, <1>4, <1>6, <1>7, <1>8

\* Removing an element closes the gap it leaves.
LEMMA RemovePositions ==
  ASSUME NEW S, NEW list \in Seq(S), NoDup(list), NEW i \in DOMAIN list
  PROVE  /\ RemoveFrom(list, list[i]) \in Seq(S)
         /\ DOMAIN RemoveFrom(list, list[i]) = 1 .. Len(list) - 1
         /\ \A k \in 1 .. Len(list) - 1 :
               RemoveFrom(list, list[i])[k] = IF k < i THEN list[k] ELSE list[k + 1]
<1> DEFINE front == SubSeq(list, 1, i - 1)
           back  == SubSeq(list, i + 1, Len(list))
           short == front \o back
<1>1. Len(list) \in Nat /\ DOMAIN list = 1 .. Len(list) /\ i \in 1 .. Len(list)
  BY LenProperties
<1>2. (CHOOSE j \in DOMAIN list : list[j] = list[i]) = i
  BY DEF NoDup
<1>3. RemoveFrom(list, list[i]) = short
  <2>1. \E j \in DOMAIN list : list[j] = list[i]
    OBVIOUS
  <2> QED BY <1>2, <2>1 DEF RemoveFrom
<1>4. \A j \in 1 .. Len(list) : list[j] \in S
  BY ElementOfSeq
<1>5. /\ front \in Seq(S) /\ Len(front) = i - 1
      /\ \A k \in 1 .. i - 1 : front[k] = list[k]
  <2>1. \A j \in 1 .. i - 1 : list[j] \in S
    BY <1>1, <1>4
  <2>2. /\ front \in Seq(S)
        /\ Len(front) = IF 1 <= i - 1 THEN (i - 1) - 1 + 1 ELSE 0
        /\ \A k \in 1 .. (i - 1) - 1 + 1 : front[k] = list[1 + k - 1]
    BY <1>1, <2>1, SubSeqProperties
  <2> QED BY <1>1, <2>2
<1>6. /\ back \in Seq(S) /\ Len(back) = Len(list) - i
      /\ \A k \in 1 .. Len(list) - i : back[k] = list[i + k]
  <2>1. \A j \in i + 1 .. Len(list) : list[j] \in S
    BY <1>1, <1>4
  <2>2. /\ back \in Seq(S)
        /\ Len(back) = IF i + 1 <= Len(list) THEN Len(list) - (i + 1) + 1 ELSE 0
        /\ \A k \in 1 .. Len(list) - (i + 1) + 1 : back[k] = list[(i + 1) + k - 1]
    BY <1>1, <2>1, SubSeqProperties
  <2> QED BY <1>1, <2>2
<1> HIDE DEF front, back
<1>7. /\ short \in Seq(S) /\ Len(short) = Len(list) - 1
      /\ \A k \in 1 .. Len(list) - 1 :
            short[k] = IF k <= i - 1 THEN front[k] ELSE back[k - (i - 1)]
  <2>1. /\ short \in Seq(S) /\ Len(short) = Len(front) + Len(back)
        /\ \A k \in 1 .. Len(front) + Len(back) :
              short[k] = IF k <= Len(front) THEN front[k] ELSE back[k - Len(front)]
    BY <1>5, <1>6, ConcatProperties
  <2> QED BY <2>1, <1>1, <1>5, <1>6
<1>8. ASSUME NEW k \in 1 .. Len(list) - 1
      PROVE  short[k] = IF k < i THEN list[k] ELSE list[k + 1]
  <2>1. CASE k < i
    BY <2>1, <1>1, <1>5, <1>7
  <2>2. CASE ~(k < i)
    <3>1. PICK j \in 1 .. Len(list) - i : j = k - (i - 1) /\ i + j = k + 1
      BY <2>2, <1>1
    <3>2. short[k] = back[j]
      <4>1. ~(k <= i - 1)
        BY <2>2, <1>1
      <4> QED BY <3>1, <4>1, <1>7
    <3>3. back[j] = list[i + j]
      BY <1>6
    <3> QED BY <2>2, <3>1, <3>2, <3>3
  <2> QED BY <2>1, <2>2
<1> QED BY <1>3, <1>7, <1>8, LenProperties

\* Removing takes the element away, and causes no repetition.
LEMMA RemoveElems ==
  ASSUME NEW S, NEW list \in Seq(S), NoDup(list), NEW s \in Elems(list)
  PROVE  /\ RemoveFrom(list, s) \in Seq(S)
         /\ Elems(RemoveFrom(list, s)) = Elems(list) \ {s}
         /\ NoDup(RemoveFrom(list, s))
<1>1. PICK i \in DOMAIN list : list[i] = s
  BY DEF Elems
<1>2. Len(list) \in Nat /\ DOMAIN list = 1 .. Len(list)
  BY LenProperties
<1> DEFINE short == RemoveFrom(list, s)
           From(k) == IF k < i THEN k ELSE k + 1
<1>3. /\ short \in Seq(S) /\ DOMAIN short = 1 .. Len(list) - 1
      /\ \A k \in 1 .. Len(list) - 1 : short[k] = IF k < i THEN list[k] ELSE list[k + 1]
  BY <1>1, RemovePositions
<1> HIDE DEF short
<1>4. \A k \in DOMAIN short :
         From(k) \in DOMAIN list /\ From(k) # i /\ short[k] = list[From(k)]
  BY <1>2, <1>3
<1>5. Elems(short) \subseteq Elems(list) \ {s}
  BY <1>1, <1>4 DEF Elems, NoDup
<1>6. ASSUME NEW k \in DOMAIN list, k # i PROVE list[k] \in Elems(short)
  <2>1. CASE k < i
    <3>1. k \in DOMAIN short /\ short[k] = list[k]
      BY <2>1, <1>2, <1>3
    <3> QED BY <3>1 DEF Elems
  <2>2. CASE ~(k < i)
    <3>1. k - 1 \in DOMAIN short /\ short[k - 1] = list[(k - 1) + 1]
      BY <2>2, <1>2, <1>3, <1>6
    <3> QED BY <3>1, <1>2 DEF Elems
  <2> QED BY <2>1, <2>2
<1>7. Elems(list) \ {s} \subseteq Elems(short)
  BY <1>1, <1>6 DEF Elems
<1>8. NoDup(short)
  <2> SUFFICES ASSUME NEW j \in DOMAIN short, NEW k \in DOMAIN short, short[j] = short[k]
               PROVE  j = k
    BY DEF NoDup
  <2>1. From(j) = From(k)
    BY <1>4 DEF NoDup
  <2> QED BY <2>1, <1>2, <1>3
<1> QED BY <1>3, <1>5, <1>7, <1>8 DEF short


-----------------------------------------------------------------------------
\* A walk starts before all that is on the list.
LEMMA WalkStart ==
  ASSUME NEW list \in Seq(Slabs), NEW visited, Elems(list) \cap visited = {}
  PROVE  Walking(list, HeadOf(list), visited)
<1>1. CASE list = <<>>
  BY <1>1, EmptyElems DEF Walking, HeadOf
<1>2. CASE list # <<>>
  <2>1. /\ DOMAIN list = 1 .. Len(list) /\ Len(list) \in Nat \ {0}
        /\ HeadOf(list) = list[1] /\ list[1] \in Slabs
    BY <1>2, EmptySeq, ElementOfSeq, HeadTailProperties, LenProperties DEF HeadOf
  <2>2. list[1] # NULL_U32
    BY <2>1, NullAssumption
  <2>3. \A k \in DOMAIN list : (list[k] \in visited <=> k < 1)
    BY <2>1 DEF Elems
  <2> QED BY <2>1, <2>2, <2>3 DEF Walking
<1> QED BY <1>1, <1>2

\* The iterator's next slab is the one after the cursor, not visited yet.
LEMMA WalkNext ==
  ASSUME NEW list \in Seq(Slabs), NoDup(list), NEW cursor \in Slabs, NEW visited,
         Walking(list, cursor, visited)
  PROVE  /\ cursor \in Elems(list) \ visited
         /\ After(list, cursor) \in Slabs \cup {NULL_U32}
         /\ Walking(list, After(list, cursor), visited \cup {cursor})
<1>1. DOMAIN list = 1 .. Len(list) /\ Len(list) \in Nat
  BY LenProperties
<1>2. PICK j \in DOMAIN list :
         list[j] = cursor /\ \A k \in DOMAIN list : (list[k] \in visited <=> k < j)
  BY NullAssumption DEF Walking
<1>3. \A k \in DOMAIN list : (list[k] \in visited \cup {cursor} <=> k < j + 1)
  BY <1>1, <1>2 DEF NoDup
<1>4. cursor \in Elems(list) \ visited
  BY <1>1, <1>2 DEF Elems
<1>5. CASE j = Len(list)
  <2>1. ~ \E i \in 1 .. Len(list) - 1 : list[i] = cursor
    BY <1>1, <1>2, <1>5 DEF NoDup
  <2>2. After(list, cursor) = NULL_U32
    BY <2>1 DEF After
  <2>3. Elems(list) \subseteq visited \cup {cursor}
    BY <1>1, <1>3, <1>5 DEF Elems
  <2> QED BY <2>2, <2>3, <1>4 DEF Walking
<1>6. CASE j # Len(list)
  <2>1. j \in 1 .. Len(list) - 1 /\ j + 1 \in DOMAIN list
    BY <1>1, <1>6
  <2>2. (CHOOSE i \in 1 .. Len(list) - 1 : list[i] = cursor) = j
    BY <1>1, <1>2, <2>1 DEF NoDup
  <2>3. After(list, cursor) = list[j + 1]
    BY <1>2, <2>1, <2>2 DEF After
  <2>4. list[j + 1] \in Slabs /\ list[j + 1] # NULL_U32
    BY <1>1, <2>1, ElementOfSeq, NullAssumption
  <2> QED BY <1>3, <1>4, <2>1, <2>3, <2>4 DEF Walking
<1> QED BY <1>5, <1>6

\* Taking a visited slab off the list does not disturb the walk.
LEMMA WalkRemove ==
  ASSUME NEW list \in Seq(Slabs), NoDup(list), NEW cursor, NEW visited,
         Walking(list, cursor, visited),
         NEW s \in Elems(list) \cap visited
  PROVE  Walking(RemoveFrom(list, s), cursor, visited)
<1>1. CASE cursor = NULL_U32
  BY <1>1, RemoveElems DEF Walking
<1>2. CASE cursor # NULL_U32
  <2>1. PICK j \in DOMAIN list :
           list[j] = cursor /\ \A k \in DOMAIN list : (list[k] \in visited <=> k < j)
    BY <1>2 DEF Walking
  <2>2. PICK i \in DOMAIN list : list[i] = s
    BY DEF Elems
  <2>3. DOMAIN list = 1 .. Len(list) /\ Len(list) \in Nat /\ i < j
    BY <2>1, <2>2, LenProperties
  <2> DEFINE short == RemoveFrom(list, s)
  <2>4. /\ DOMAIN short = 1 .. Len(list) - 1
        /\ \A k \in 1 .. Len(list) - 1 : short[k] = IF k < i THEN list[k] ELSE list[k + 1]
    BY <2>2, RemovePositions
  <2> HIDE DEF short
  <2>5. j - 1 \in DOMAIN short /\ short[j - 1] = cursor
    <3>1. j - 1 \in 1 .. Len(list) - 1 /\ ~(j - 1 < i) /\ (j - 1) + 1 = j
      BY <2>3
    <3> QED BY <3>1, <2>1, <2>4
  <2>6. ASSUME NEW k \in DOMAIN short
        PROVE  short[k] \in visited <=> k < j - 1
    <3>1. CASE k < i
      <4>1. k \in DOMAIN list /\ short[k] = list[k] /\ k < j - 1 /\ k < j
        BY <3>1, <2>3, <2>4
      <4> QED BY <4>1, <2>1
    <3>2. CASE ~(k < i)
      <4>1. k + 1 \in DOMAIN list /\ short[k] = list[k + 1] /\ (k + 1 < j <=> k < j - 1)
        BY <3>2, <2>3, <2>4
      <4> QED BY <4>1, <2>1
    <3> QED BY <3>1, <3>2
  <2> QED BY <2>5, <2>6, <1>2 DEF Walking, short
<1> QED BY <1>1, <1>2

-----------------------------------------------------------------------------
\* Distinct indices below n are at most n, and all of them if they are n.
LEMMA FullStack ==
  ASSUME NEW n \in Nat, NEW seq \in Seq(Nat), NoDup(seq), Elems(seq) \subseteq 0 .. n - 1
  PROVE  /\ Len(seq) <= n
         /\ (Len(seq) = n => Elems(seq) = 0 .. n - 1)
<1>1. DOMAIN seq = 1 .. Len(seq) /\ Len(seq) \in Nat
  BY LenProperties
<1>2. IsFiniteSet(0 .. n - 1) /\ Cardinality(0 .. n - 1) = n
  BY FS_Interval
<1>3. \A k \in Nat : Cardinality(1 .. k) = k
  BY FS_Interval
<1>4. seq \in [1 .. Len(seq) -> 0 .. n - 1]
  <2>1. seq = [i \in 1 .. Len(seq) |-> seq[i]]
    BY <1>1, SeqDef
  <2> QED BY <2>1, <1>1 DEF Elems
<1>5. seq \in Injection(1 .. Len(seq), 0 .. n - 1)
  BY <1>1, <1>4 DEF NoDup, Injection, IsInjective
<1>6. /\ Len(seq) <= n
      /\ (Len(seq) = n <=> seq \in Surjection(1 .. Len(seq), 0 .. n - 1))
  <2>1. /\ Cardinality(1 .. Len(seq)) <= Cardinality(0 .. n - 1)
        /\ (Cardinality(1 .. Len(seq)) = Cardinality(0 .. n - 1)
              <=> seq \in Surjection(1 .. Len(seq), 0 .. n - 1))
    BY <1>2, <1>5, FS_Injection, Zenon
  <2> QED BY <2>1, <1>1, <1>2, <1>3
<1>7. seq \in Surjection(1 .. Len(seq), 0 .. n - 1) => Elems(seq) = 0 .. n - 1
  BY <1>1, <1>4 DEF Surjection, Elems
<1> QED BY <1>6, <1>7

\* A slab is cut into Capacity slots of its class without rest, two at least.
LEMMA SizeFacts ==
  ASSUME NEW c \in Classes
  PROVE  /\ SIZE_CLASSES[c] \in Nat \ {0}
         /\ Capacity(c) \in Nat /\ Capacity(c) >= 2
         /\ Capacity(c) * SIZE_CLASSES[c] = SlabSize
<1>1. SIZE_CLASSES[c] \in Nat \ {0} /\ SlabSize \in Nat
  BY SizesAssumption, ElementOfSeq, LenProperties DEF Classes
<1>2. SlabSize % SIZE_CLASSES[c] = 0 /\ SlabSize >= 2 * SIZE_CLASSES[c]
  BY SizesAssumption
<1>3. ASSUME NEW z \in Nat \ {0}, NEW n \in Nat, n % z = 0, n >= 2 * z
      PROVE  (n \div z) * z = n /\ n \div z \in Nat /\ n \div z >= 2
  BY <1>3, SMT
<1> QED BY <1>1, <1>2, <1>3 DEF Capacity

\* A slot lies within the slab, and its index comes back from its offset.
LEMMA SlotFacts ==
  ASSUME NEW c \in Classes, NEW i \in 0 .. Capacity(c) - 1
  PROVE  /\ i * SIZE_CLASSES[c] \in 0 .. SlabSize - 1
         /\ i * SIZE_CLASSES[c] + SIZE_CLASSES[c] <= SlabSize
         /\ (i * SIZE_CLASSES[c]) \div SIZE_CLASSES[c] = i
         /\ (i * SIZE_CLASSES[c]) % SIZE_CLASSES[c] = 0
<1>1. ASSUME NEW z \in Nat \ {0}, NEW n \in Nat, NEW k \in 0 .. n - 1
      PROVE  /\ k * z \in 0 .. n * z - 1 /\ k * z + z <= n * z
             /\ (k * z) \div z = k /\ (k * z) % z = 0
  <2>1. (k * z) \div z = k /\ (k * z) % z = 0
    BY SMT
  <2>2. (k + 1) * z <= n * z
    BY SMT
  <2>3. (k + 1) * z = k * z + z /\ k * z \in Nat
    BY SMT
  <2> QED BY <2>1, <2>2, <2>3
<1> QED BY <1>1, SizeFacts

\* Two slots of one class share no byte.
LEMMA SlotsDisjoint ==
  ASSUME NEW c \in Classes, NEW i \in Nat, NEW j \in Nat, i < j
  PROVE  i * SIZE_CLASSES[c] + SIZE_CLASSES[c] <= j * SIZE_CLASSES[c]
<1>1. ASSUME NEW z \in Nat PROVE i * z + z <= j * z
  <2>1. (i + 1) * z <= j * z
    BY SMT
  <2>2. (i + 1) * z = i * z + z
    BY SMT
  <2> QED BY <2>1, <2>2
<1> QED BY <1>1, SizeFacts

\* A stack that has been reset holds every index of the slab once.
LEMMA ResetFacts ==
  ASSUME NEW c \in Classes
  PROVE  /\ ResetStack(c) \in Seq(Nat) /\ Len(ResetStack(c)) = Capacity(c)
         /\ NoDup(ResetStack(c)) /\ Elems(ResetStack(c)) = 0 .. Capacity(c) - 1
<1> DEFINE n == Capacity(c)
           seq == [i \in 1 .. n |-> i - 1]
<1>1. n \in Nat
  BY SizeFacts
<1> HIDE DEF n
<1>2. seq \in Seq(Nat) /\ Len(seq) = n /\ DOMAIN seq = 1 .. n
  BY <1>1
<1>3. NoDup(seq)
  BY <1>1, <1>2 DEF NoDup
<1>4. Elems(seq) = 0 .. n - 1
  <2>1. Elems(seq) \subseteq 0 .. n - 1
    BY <1>1, <1>2 DEF Elems
  <2>2. ASSUME NEW i \in 0 .. n - 1 PROVE i \in Elems(seq)
    <3>1. i + 1 \in DOMAIN seq /\ seq[i + 1] = i
      BY <1>1, <1>2
    <3> QED BY <3>1 DEF Elems
  <2> QED BY <2>1, <2>2
<1> QED BY <1>2, <1>3, <1>4 DEF ResetStack, n

-----------------------------------------------------------------------------
(* The invariant. *)

USE ProcsAssumption, NullAssumption, NumSlabsAssumption

\* TypeOK, but for the sign of the byte counters, which Accounting gives.
Types ==
    /\ pool \in Seq(Slabs) /\ held \in [Workers -> SUBSET Slabs]
    /\ assigned \in [Slabs -> Workers \cup {NULL_U32}]
    /\ class \in [Slabs -> Classes]
    /\ remote \in [Slabs -> Seq(Nat)]
    /\ freeStack \in [Slabs -> Seq(Nat)]
    /\ capacity \in [Slabs -> {0} \cup {Capacity(c) : c \in Classes}]
    /\ partial \in [Workers -> [Classes -> Seq(Slabs)]]
    /\ full \in [Workers -> [Classes -> Seq(Slabs)]]
    /\ outstanding \in [Workers -> Int]
    /\ live \subseteq [slab : Slabs, class : Classes, offset : 0 .. SlabSize - 1, id : Nat]
    /\ pc \in [Procs -> PCs]
    /\ slab \in [Workers -> Slabs \cup {NULL_U32}]
    /\ want \in [Workers -> {0} \cup Classes]
    /\ freeing \in [Procs -> [slab : Slabs \cup {NULL_U32}, offset : 0 .. SlabSize - 1,
                              class : {0} \cup Classes, index : Nat]]
    /\ iter \in [Workers -> Iters]

-----------------------------------------------------------------------------
(* Where slabs are. *)

\* A slab is in the pool or held by one worker.
PoolOrHeld ==
    /\ NoDup(pool)
    /\ \A s \in Slabs : (s \in Elems(pool) <=> \A w \in Workers : s \notin held[w])
    /\ \A w, v \in Workers, s \in Slabs : s \in held[w] /\ s \in held[v] => w = v

\* Lists say who owns a slab, for which class, and whether it has a free index.
ListsTell ==
    \A w \in Workers, c \in Classes :
        /\ NoDup(partial[w][c]) /\ NoDup(full[w][c])
        /\ \A s \in Elems(partial[w][c]) :
              /\ s \in held[w] /\ assigned[s] = w /\ class[s] = c /\ capacity[s] = Capacity(c)
              /\ freeStack[s] # <<>>
              /\ Len(freeStack[s]) < Capacity(c) \/ slab[w] = s
        /\ \A s \in Elems(full[w][c]) :
              /\ s \in held[w] /\ assigned[s] = w /\ class[s] = c /\ capacity[s] = Capacity(c)
              /\ freeStack[s] = <<>>
              /\ slab[w] # s

Listed ==
    {s \in Slabs : \E w \in Workers, c \in Classes :
        s \in Elems(partial[w][c]) \/ s \in Elems(full[w][c])}

\* What a worker holds is on its lists, or in its hands: taken from the pool
\* and not assigned yet, or empty and not given back yet.
Hands ==
    \A w \in Workers :
        /\ \A s \in held[w] : s \in Listed \/ slab[w] = s
        /\ slab[w] # NULL_U32 => slab[w] \in held[w]
        /\ pc[w] \in {"assign", "give"} => slab[w] \in Slabs /\ slab[w] \notin Listed
        /\ pc[w] = "within" =>
              /\ slab[w] \in Slabs
              /\ slab[w] \in Elems(partial[w][want[w]])
              /\ Len(freeStack[slab[w]]) = Capacity(want[w])
        /\ pc[w] \notin {"assign", "within", "give", "dead"} => slab[w] = NULL_U32

-----------------------------------------------------------------------------
(* Where processes are. *)

Calls ==
    /\ \A w \in Workers : pc[w] \in {"take", "assign", "within"} => want[w] \in Classes
    /\ \A p \in Procs :
          /\ pc[p] \in {"free_check", "remote_push"} => freeing[p].slab \in Slabs
          /\ pc[p] \notin {"free_check", "remote_push", "dead"} => freeing[p] = NoFree
    /\ \A f \in Freers : pc[f] \in {"idle", "remote_push", "dead"}

Cleans ==
    \A w \in Workers :
        /\ iter[w] # NoIter => iter[w].class \in Classes /\ iter[w].list \in {"partial", "full"}
        /\ pc[w] \notin {"clean_next", "drain", "give", "dead"} => iter[w] = NoIter
        /\ pc[w] \in {"clean_next", "drain"} => iter[w] # NoIter
        /\ pc[w] = "clean_next" => iter[w].slab = NULL_U32
        /\ pc[w] = "drain" => iter[w].slab \in Slabs
        /\ pc[w] = "give" /\ iter[w] # NoIter => iter[w].slab \in Slabs
        /\ iter[w].slab = NULL_U32 => iter[w].drained = <<>>

-----------------------------------------------------------------------------
(* Where slots are: the indices of every slab at each kind of place. *)

IndexOf(a) == a.offset \div SIZE_CLASSES[a.class]

FreeIn == [s \in Slabs |-> Elems(freeStack[s])]
LiveIn == [s \in Slabs |-> {IndexOf(a) : a \in {b \in live : b.slab = s}}]
FreeingIn == [s \in Slabs |-> {freeing[p].index : p \in {q \in Procs : freeing[q].slab = s}}]
RemoteIn == [s \in Slabs |-> Elems(remote[s])]
DrainedIn ==
    [s \in Slabs |-> UNION {Elems(iter[w].drained) : w \in {v \in Workers : iter[v].slab = s}}]

\* No index is at two kinds of places ...
SlotsApart ==
    \A s \in Slabs :
        /\ FreeIn[s] \cap (LiveIn[s] \cup FreeingIn[s] \cup RemoteIn[s] \cup DrainedIn[s]) = {}
        /\ LiveIn[s] \cap (FreeingIn[s] \cup RemoteIn[s] \cup DrainedIn[s]) = {}
        /\ FreeingIn[s] \cap (RemoteIn[s] \cup DrainedIn[s]) = {}
        /\ RemoteIn[s] \cap DrainedIn[s] = {}

\* ... nor twice at one ...
SlotsOnce ==
    /\ \A s \in Slabs : NoDup(freeStack[s]) /\ NoDup(remote[s])
    /\ \A w \in Workers : NoDup(iter[w].drained)
    /\ \A p, q \in Procs :
          p # q /\ freeing[p].slab = freeing[q].slab /\ freeing[p].slab # NULL_U32 =>
             freeing[p].index # freeing[q].index

\* ... and all of them are somewhere, while the slab is on a list; when it is
\* not, none is in use.
SlotsKept ==
    \A s \in Slabs :
        /\ FreeIn[s] \subseteq 0 .. capacity[s] - 1
        /\ s \in Listed =>
              FreeIn[s] \cup LiveIn[s] \cup FreeingIn[s] \cup RemoteIn[s] \cup DrainedIn[s]
                 = 0 .. Capacity(class[s]) - 1
        /\ s \notin Listed =>
              LiveIn[s] \cup FreeingIn[s] \cup RemoteIn[s] \cup DrainedIn[s] = {}

\* An allocation has the class of its slab, starts at its slot, and was handed
\* out when no other was there.
LiveSlots ==
    \A a \in live :
        /\ a.class = class[a.slab] /\ a.offset = IndexOf(a) * SIZE_CLASSES[a.class]
        /\ a.id = 0

\* What is drained belongs to the drainer, in the class whose lists it walks.
DrainedOwned ==
    \A w \in Workers : iter[w].drained # <<>> =>
        assigned[iter[w].slab] = w /\ class[iter[w].slab] = iter[w].class

-----------------------------------------------------------------------------
(* What a clean has visited: the lists before the one it walks and that one
   up to its cursor, and nothing of the rest. *)

Walks ==
    \A w \in Workers : iter[w] # NoIter =>
        /\ \A c \in Classes : c < iter[w].class =>
              Elems(partial[w][c]) \cup Elems(full[w][c]) \subseteq iter[w].visited
        /\ \A c \in Classes : c > iter[w].class =>
              (Elems(partial[w][c]) \cup Elems(full[w][c])) \cap iter[w].visited = {}
        /\ iter[w].list = "full" => Elems(partial[w][iter[w].class]) \subseteq iter[w].visited
        /\ iter[w].list = "partial" => Elems(full[w][iter[w].class]) \cap iter[w].visited = {}
        /\ Walking(ListOf(w), iter[w].cursor, iter[w].visited)
        /\ iter[w].slab # NULL_U32 => iter[w].slab \in iter[w].visited

Places == PoolOrHeld /\ ListsTell /\ Hands
SlotPlace == SlotsApart /\ SlotsOnce /\ SlotsKept /\ LiveSlots /\ DrainedOwned

IInv == Types /\ Places /\ Calls /\ Cleans /\ SlotPlace /\ Walks


-----------------------------------------------------------------------------
\* There is a class, and a slab has a first byte.
LEMMA FirstClass == 1 \in Classes /\ 0 \in 0 .. SlabSize - 1
<1>1. Len(SIZE_CLASSES) \in Nat /\ Len(SIZE_CLASSES) # 0
  BY SizesAssumption, LenProperties, EmptySeq
<1>2. 1 \in Classes
  BY <1>1 DEF Classes
<1>3. SIZE_CLASSES[1] \in Nat \ {0} /\ SlabSize \in Nat /\ SlabSize >= 2 * SIZE_CLASSES[1]
  BY <1>2, SizeFacts, SizesAssumption
<1> QED BY <1>2, <1>3

\* A new file: every slab in the pool, no index anywhere.
LEMMA InitIInv == Init => IInv
<1> SUFFICES ASSUME Init PROVE IInv
  OBVIOUS
<1>1. Listed = {} /\ \A w \in Workers, c \in Classes :
                        Elems(partial[w][c]) = {} /\ Elems(full[w][c]) = {}
  BY EmptyElems DEF Init, Listed
<1>2. pool \in Seq(Slabs) /\ NoDup(pool) /\ Elems(pool) = Slabs
  <2>1. pool = [i \in 1 .. NumSlabs |-> i - 1]
    BY DEF Init, PoolInit
  <2>2. pool \in Seq(Slabs) /\ DOMAIN pool = 1 .. NumSlabs
    BY <2>1 DEF Slabs
  <2>3. ASSUME NEW s \in Slabs PROVE s + 1 \in DOMAIN pool /\ pool[s + 1] = s
    BY <2>1 DEF Slabs
  <2>4. Slabs \subseteq Elems(pool)
    BY <2>3 DEF Elems
  <2>5. Elems(pool) \subseteq Slabs
    BY <2>2, ElemsFacts
  <2> QED BY <2>1, <2>2, <2>4, <2>5 DEF NoDup
<1>3. Types
  <2>1. /\ NoFree \in [slab : Slabs \cup {NULL_U32}, offset : 0 .. SlabSize - 1,
                       class : {0} \cup Classes, index : Nat]
        /\ NoIter \in Iters
    BY FirstClass DEF NoFree, NoIter, Iters
  <2>2. pc \in [Procs -> PCs]
    BY DEF Init, PCs
  <2>3. /\ assigned \in [Slabs -> Workers \cup {NULL_U32}]
        /\ class \in [Slabs -> Classes]
        /\ remote \in [Slabs -> Seq(Nat)]
        /\ freeStack \in [Slabs -> Seq(Nat)]
        /\ capacity \in [Slabs -> {0} \cup {Capacity(c) : c \in Classes}]
    BY FirstClass DEF Init
  <2>4. /\ partial \in [Workers -> [Classes -> Seq(Slabs)]]
        /\ full \in [Workers -> [Classes -> Seq(Slabs)]]
        /\ outstanding \in [Workers -> Int]
        /\ slab \in [Workers -> Slabs \cup {NULL_U32}]
        /\ want \in [Workers -> {0} \cup Classes]
        /\ held \in [Workers -> SUBSET Slabs]
        /\ live \subseteq [slab : Slabs, class : Classes, offset : 0 .. SlabSize - 1, id : Nat]
    BY DEF Init, PoolInit
  <2>5. freeing = [p \in Procs |-> NoFree] /\ iter = [w \in Workers |-> NoIter]
    BY DEF Init
  <2> HIDE DEF Init
  <2> QED BY <2>1, <2>2, <2>3, <2>4, <2>5, <1>2 DEF Types
<1>4. PoolOrHeld
  BY <1>2 DEF Init, PoolInit, PoolOrHeld
<1>5. ListsTell
  BY <1>1, EmptyElems DEF Init, ListsTell
<1>6. Hands
  BY DEF Init, PoolInit, Hands, Procs
<1>7. Calls /\ Cleans
  BY DEF Init, Calls, Cleans, Procs, NoIter
<1>8. /\ FreeIn = [s \in Slabs |-> {}] /\ LiveIn = [s \in Slabs |-> {}]
      /\ FreeingIn = [s \in Slabs |-> {}] /\ RemoteIn = [s \in Slabs |-> {}]
      /\ DrainedIn = [s \in Slabs |-> {}]
  BY EmptyElems DEF Init, FreeIn, LiveIn, FreeingIn, RemoteIn, DrainedIn, NoFree, NoIter
<1>9. SlotsApart /\ SlotsKept
  BY <1>1, <1>8 DEF SlotsApart, SlotsKept
<1>10. SlotsOnce /\ LiveSlots /\ DrainedOwned
  BY EmptyElems DEF Init, SlotsOnce, LiveSlots, DrainedOwned, NoFree, NoIter
<1>11. Walks
  BY DEF Init, Walks
<1> QED BY <1>3, <1>4, <1>5, <1>6, <1>7, <1>9, <1>10, <1>11 DEF IInv, Places, SlotPlace

-----------------------------------------------------------------------------
\* Slots stay where they are unless one of the places changes; what is drained
\* and which slab it is of counts only while there is something.
SameDrained ==
    \A w \in Workers :
        /\ iter'[w].drained = iter[w].drained
        /\ iter[w].drained # <<>> =>
              iter'[w].slab = iter[w].slab /\ iter'[w].class = iter[w].class

\* Steps that move no slot keep every slot at its place.
LEMMA SlotFrame ==
  ASSUME SlotPlace, SameDrained, Listed' = Listed,
         UNCHANGED <<assigned, class, remote, freeStack, capacity, live, freeing>>
  PROVE  SlotPlace'
<1>1. /\ FreeIn' = FreeIn /\ LiveIn' = LiveIn /\ FreeingIn' = FreeingIn
      /\ RemoteIn' = RemoteIn
  BY DEF FreeIn, LiveIn, FreeingIn, RemoteIn
<1>2. DrainedIn' = DrainedIn
  <2>1. ASSUME NEW s \in Slabs
        PROVE  UNION {Elems(iter[w].drained) : w \in {v \in Workers : iter[v].slab = s}}
                  = UNION {Elems(iter'[w].drained) : w \in {v \in Workers : iter'[v].slab = s}}
    <3>1. ASSUME NEW w \in Workers
          PROVE  /\ iter'[w].drained = iter[w].drained
                 /\ Elems(iter[w].drained) # {} => iter'[w].slab = iter[w].slab
      BY EmptyElems DEF SameDrained
    <3> QED BY <3>1
  <2> QED BY <2>1 DEF DrainedIn
<1>3. SlotsApart'
  BY <1>1, <1>2 DEF SlotPlace, SlotsApart
<1>4. SlotsKept'
  BY <1>1, <1>2 DEF SlotPlace, SlotsKept
<1>5. SlotsOnce' /\ LiveSlots' /\ DrainedOwned'
  BY DEF SlotPlace, SlotsOnce, LiveSlots, DrainedOwned, SameDrained
<1> QED BY <1>3, <1>4, <1>5 DEF SlotPlace

\* Steps that change only where a process is: handles come and go, processes
\* die, and a free turns out to be remote.
LEMMA PcStep ==
  ASSUME IInv, NEW p \in Procs,
         \/ p \in Workers /\ (Claim(p) \/ Release(p) \/ FreeRemote(p))
         \/ Crash(p)
  PROVE  IInv'
<1>1. PICK label \in {"idle", "unclaimed", "remote_push", "dead"} :
         /\ pc' = [pc EXCEPT ![p] = label]
         /\ label = "remote_push" => pc[p] = "free_check" /\ p \in Workers
         /\ label = "idle" => pc[p] = "unclaimed" /\ p \in Workers
         /\ label = "unclaimed" => pc[p] = "idle" /\ p \in Workers
  BY DEF Claim, Release, FreeRemote, Crash, Goto
<1>2. UNCHANGED <<pool, held, answer, assigned, class, remote, freeStack, capacity, partial, full,
                  outstanding, live, slab, want, freeing, iter>>
  BY DEF Claim, Release, FreeRemote, Crash, poolVars, slabVars, listVars, callVars
<1>3. pc \in [Procs -> PCs]
  BY DEF IInv, Types
<1>4. /\ pc' \in [Procs -> PCs]
      /\ \A q \in Procs : pc'[q] = IF q = p THEN label ELSE pc[q]
  BY <1>1, <1>3 DEF PCs
<1>5. Types'
  BY <1>2, <1>4 DEF IInv, Types
<1>6. Places'
  <2>1. PoolOrHeld' /\ ListsTell'
    BY <1>2 DEF IInv, Places, PoolOrHeld, ListsTell
  <2>2. Hands'
    BY <1>1, <1>2, <1>4 DEF IInv, Places, Hands, Listed, Procs
  <2> QED BY <2>1, <2>2 DEF Places
<1>7. Calls' /\ Cleans'
  BY <1>1, <1>2, <1>4 DEF IInv, Calls, Cleans, Procs
<1>8. SlotPlace'
  <2>1. Listed' = Listed /\ SameDrained
    BY <1>2 DEF Listed, SameDrained
  <2> QED BY <1>2, <2>1, SlotFrame DEF IInv
<1>9. Walks'
  BY <1>2 DEF IInv, Walks, ListOf, LocalList
<1> QED BY <1>5, <1>6, <1>7, <1>8, <1>9 DEF IInv


-----------------------------------------------------------------------------
\* allocate asks the pool for a slab, and may get none.
LEMMA AskPoolStep ==
  ASSUME IInv, NEW w \in Workers, AllocateNone(w) \/ \E c \in Classes : AllocateCall(w, c)
  PROVE  IInv'
<1>1. PICK label \in {"idle", "take"}, c \in {0} \cup Classes :
         /\ pc' = [pc EXCEPT ![w] = label]
         /\ want' = [want EXCEPT ![w] = c]
         /\ label = "take" => pc[w] = "idle" /\ c \in Classes
         /\ label = "idle" => pc[w] = "take"
  BY DEF AllocateNone, AllocateCall, Goto
<1>2. UNCHANGED <<pool, held, assigned, class, remote, freeStack, capacity, partial, full,
                  outstanding, live, slab, freeing, iter>>
  BY DEF AllocateNone, AllocateCall, TakeNone, Call, slabVars, listVars
<1>3. pc \in [Procs -> PCs] /\ want \in [Workers -> {0} \cup Classes] /\ w \in Procs
  BY DEF IInv, Types, Procs
<1>4. /\ pc' \in [Procs -> PCs] /\ want' \in [Workers -> {0} \cup Classes]
      /\ \A q \in Procs : pc'[q] = IF q = w THEN label ELSE pc[q]
      /\ \A v \in Workers : want'[v] = IF v = w THEN c ELSE want[v]
  BY <1>1, <1>3 DEF PCs
<1>5. Types'
  BY <1>2, <1>4 DEF IInv, Types
<1>6. Places'
  <2>1. PoolOrHeld' /\ ListsTell'
    BY <1>2 DEF IInv, Places, PoolOrHeld, ListsTell
  <2>2. Hands'
    BY <1>1, <1>2, <1>4 DEF IInv, Places, Hands, Listed, Procs
  <2> QED BY <2>1, <2>2 DEF Places
<1>7. Calls' /\ Cleans'
  BY <1>1, <1>2, <1>4 DEF IInv, Calls, Cleans, Procs
<1>8. SlotPlace'
  <2>1. Listed' = Listed /\ SameDrained
    BY <1>2 DEF Listed, SameDrained
  <2> QED BY <1>2, <2>1, SlotFrame DEF IInv
<1>9. Walks'
  BY <1>2 DEF IInv, Walks, ListOf, LocalList
<1> QED BY <1>5, <1>6, <1>7, <1>8, <1>9 DEF IInv

\* A worker takes the slab on top of the pool into its hands.
LEMMA TakeSlabStep ==
  ASSUME IInv, NEW w \in Workers, TakeSlab(w)
  PROVE  IInv'
<1>1. /\ pc[w] = "take" /\ pc' = [pc EXCEPT ![w] = "assign"]
      /\ pool # <<>> /\ pool' = Tail(pool)
      /\ held' = [held EXCEPT ![w] = held[w] \cup {Head(pool)}]
      /\ slab' = [slab EXCEPT ![w] = Head(pool)]
      /\ UNCHANGED <<assigned, class, remote, freeStack, capacity, partial, full,
                     outstanding, live, want, freeing, iter>>
  BY DEF TakeSlab, Take, Goto, slabVars, listVars
<1>2. /\ pool \in Seq(Slabs) /\ held \in [Workers -> SUBSET Slabs]
      /\ pc \in [Procs -> PCs] /\ slab \in [Workers -> Slabs \cup {NULL_U32}] /\ w \in Procs
      /\ NoDup(pool)
  BY DEF IInv, Types, Places, PoolOrHeld, Procs
<1>3. PICK s \in Slabs :
         /\ Head(pool) = s /\ s \in Elems(pool)
         /\ pool' \in Seq(Slabs) /\ Elems(pool') = Elems(pool) \ {s} /\ NoDup(pool')
  BY <1>1, <1>2, TailElems
<1>4. \A v \in Workers : s \notin held[v]
  BY <1>3 DEF IInv, Places, PoolOrHeld
<1>5. /\ pc' \in [Procs -> PCs] /\ slab' \in [Workers -> Slabs \cup {NULL_U32}]
      /\ held' \in [Workers -> SUBSET Slabs]
      /\ \A q \in Procs : pc'[q] = IF q = w THEN "assign" ELSE pc[q]
      /\ \A v \in Workers : slab'[v] = IF v = w THEN s ELSE slab[v]
      /\ \A v \in Workers : held'[v] = IF v = w THEN held[w] \cup {s} ELSE held[v]
  BY <1>1, <1>2, <1>3 DEF PCs
<1>6. s \notin Listed /\ slab[w] = NULL_U32
  BY <1>1, <1>4 DEF IInv, Places, ListsTell, Hands, Listed
<1>7. Listed' = Listed
  BY <1>1 DEF Listed
<1>8. Types'
  BY <1>1, <1>3, <1>5 DEF IInv, Types
<1>9. PoolOrHeld'
  BY <1>3, <1>4, <1>5 DEF IInv, Places, PoolOrHeld
<1>10. ListsTell'
  BY <1>1, <1>5, <1>6 DEF IInv, Places, ListsTell, Listed
<1>11. Hands'
  BY <1>1, <1>3, <1>5, <1>6, <1>7 DEF IInv, Places, Hands, Procs
<1>12. Calls' /\ Cleans'
  BY <1>1, <1>5 DEF IInv, Calls, Cleans, Procs
<1>13. SlotPlace'
  <2>1. SameDrained
    BY <1>1 DEF SameDrained
  <2> QED BY <1>1, <1>7, <2>1, SlotFrame DEF IInv
<1>14. Walks'
  BY <1>1 DEF IInv, Walks, ListOf, LocalList
<1> QED BY <1>8, <1>9, <1>10, <1>11, <1>12, <1>13, <1>14 DEF IInv, Places

\* It gives a slab back that is empty and on no list.
LEMMA GiveSlabStep ==
  ASSUME IInv, NEW w \in Workers, GiveSlab(w)
  PROVE  IInv'
<1>1. PICK label \in {"idle", "drain"} :
         /\ pc[w] = "give" /\ pc' = [pc EXCEPT ![w] = label]
         /\ label = "idle" <=> iter[w] = NoIter
         /\ pool' = <<slab[w]>> \o pool
         /\ held' = [held EXCEPT ![w] = held[w] \ {slab[w]}]
         /\ slab' = [slab EXCEPT ![w] = NULL_U32]
         /\ UNCHANGED <<assigned, class, remote, freeStack, capacity, partial, full,
                        outstanding, live, want, freeing, iter>>
  BY DEF GiveSlab, Give, Goto, slabVars, listVars
<1>2. /\ pool \in Seq(Slabs) /\ held \in [Workers -> SUBSET Slabs]
      /\ pc \in [Procs -> PCs] /\ slab \in [Workers -> Slabs \cup {NULL_U32}] /\ w \in Procs
      /\ NoDup(pool)
  BY DEF IInv, Types, Places, PoolOrHeld, Procs
<1>3. PICK s \in Slabs : slab[w] = s /\ s \in held[w] /\ s \notin Listed
  BY <1>1 DEF IInv, Places, Hands
<1>4. s \notin Elems(pool) /\ \A v \in Workers : s \in held[v] => v = w
  BY <1>3 DEF IInv, Places, PoolOrHeld
<1>5. pool' \in Seq(Slabs) /\ Elems(pool') = Elems(pool) \cup {s} /\ NoDup(pool')
  BY <1>1, <1>2, <1>3, <1>4, PushElems
<1>6. /\ pc' \in [Procs -> PCs] /\ slab' \in [Workers -> Slabs \cup {NULL_U32}]
      /\ held' \in [Workers -> SUBSET Slabs]
      /\ \A q \in Procs : pc'[q] = IF q = w THEN label ELSE pc[q]
      /\ \A v \in Workers : slab'[v] = IF v = w THEN NULL_U32 ELSE slab[v]
      /\ \A v \in Workers : held'[v] = IF v = w THEN held[w] \ {s} ELSE held[v]
  BY <1>1, <1>2, <1>3 DEF PCs
<1>7. Listed' = Listed
  BY <1>1 DEF Listed
<1>8. Types'
  BY <1>1, <1>5, <1>6 DEF IInv, Types
<1>9. PoolOrHeld'
  BY <1>4, <1>5, <1>6 DEF IInv, Places, PoolOrHeld
<1>10. ListsTell'
  <2> SUFFICES ASSUME NEW v \in Workers, NEW c \in Classes
               PROVE  /\ \A t \in Elems(partial[v][c]) :
                            t \in held'[v] /\ (Len(freeStack[t]) < Capacity(c) \/ slab'[v] = t)
                      /\ \A t \in Elems(full[v][c]) : t \in held'[v] /\ slab'[v] # t
    BY <1>1 DEF IInv, Places, ListsTell
  <2>1. \A t \in Elems(partial[v][c]) \cup Elems(full[v][c]) : t \in Slabs /\ t # s
    <3>1. Elems(partial[v][c]) \subseteq Slabs /\ Elems(full[v][c]) \subseteq Slabs
      BY ElemsFacts DEF IInv, Types
    <3> QED BY <1>3, <3>1 DEF Listed
  <2>2. /\ \A t \in Elems(partial[v][c]) :
              t \in held[v] /\ (Len(freeStack[t]) < Capacity(c) \/ slab[v] = t)
        /\ \A t \in Elems(full[v][c]) : t \in held[v] /\ slab[v] # t
    BY DEF IInv, Places, ListsTell
  <2>3. /\ \A t \in held[v] : t # s => t \in held'[v]
        /\ slab'[v] = slab[v] \/ (slab[v] = s /\ slab'[v] = NULL_U32)
    BY <1>3, <1>6
  <2> QED BY <2>1, <2>2, <2>3
<1>11. Hands'
  BY <1>1, <1>3, <1>4, <1>6, <1>7 DEF IInv, Places, Hands, Procs
<1>12. Calls' /\ Cleans'
  BY <1>1, <1>6 DEF IInv, Calls, Cleans, Procs
<1>13. SlotPlace'
  <2>1. SameDrained
    BY <1>1 DEF SameDrained
  <2> QED BY <1>1, <1>7, <2>1, SlotFrame DEF IInv
<1>14. Walks'
  BY <1>1 DEF IInv, Walks, ListOf, LocalList
<1> QED BY <1>8, <1>9, <1>10, <1>11, <1>12, <1>13, <1>14 DEF IInv, Places


-----------------------------------------------------------------------------
\* A slab in hand is assigned: all its slots are free, and it becomes the head
\* of a partial list.  Nothing of it is in use, so nobody minds that its owner
\* and its class change.
LEMMA AssignSlabStep ==
  ASSUME IInv, NEW w \in Workers, AssignSlab(w)
  PROVE  IInv'
<1>1. PICK s \in Slabs, c \in Classes :
         /\ slab[w] = s /\ want[w] = c /\ s \in held[w] /\ s \notin Listed
         /\ pc[w] = "assign" /\ pc' = [pc EXCEPT ![w] = "within"]
         /\ assigned' = [assigned EXCEPT ![s] = w]
         /\ class' = [class EXCEPT ![s] = c]
         /\ remote' = [remote EXCEPT ![s] = <<>>]
         /\ freeStack' = [freeStack EXCEPT ![s] = ResetStack(c)]
         /\ capacity' = [capacity EXCEPT ![s] = Capacity(c)]
         /\ partial' = [partial EXCEPT ![w][c] = <<s>> \o partial[w][c]]
         /\ UNCHANGED <<pool, held, full, outstanding, live, slab, want, freeing, iter>>
  <2>1. PICK s \in Slabs : slab[w] = s /\ s \in held[w] /\ s \notin Listed
    BY DEF AssignSlab, IInv, Places, Hands
  <2>2. PICK c \in Classes : want[w] = c
    BY DEF AssignSlab, IInv, Calls
  <2> QED BY <2>1, <2>2 DEF AssignSlab, PushOn, Goto, poolVars, callVars
<1>2. /\ assigned \in [Slabs -> Workers \cup {NULL_U32}] /\ class \in [Slabs -> Classes]
      /\ remote \in [Slabs -> Seq(Nat)] /\ freeStack \in [Slabs -> Seq(Nat)]
      /\ capacity \in [Slabs -> {0} \cup {Capacity(d) : d \in Classes}]
      /\ partial \in [Workers -> [Classes -> Seq(Slabs)]]
      /\ full \in [Workers -> [Classes -> Seq(Slabs)]]
      /\ pc \in [Procs -> PCs] /\ w \in Procs
  BY DEF IInv, Types, Procs
<1>3. /\ ResetStack(c) \in Seq(Nat) /\ Len(ResetStack(c)) = Capacity(c)
      /\ NoDup(ResetStack(c)) /\ Elems(ResetStack(c)) = 0 .. Capacity(c) - 1
      /\ Capacity(c) \in Nat /\ Capacity(c) >= 2 /\ ResetStack(c) # <<>>
  BY ResetFacts, SizeFacts, ElemsFacts
<1>4. \A t \in Slabs :
         /\ assigned'[t] = IF t = s THEN w ELSE assigned[t]
         /\ class'[t] = IF t = s THEN c ELSE class[t]
         /\ remote'[t] = IF t = s THEN <<>> ELSE remote[t]
         /\ freeStack'[t] = IF t = s THEN ResetStack(c) ELSE freeStack[t]
         /\ capacity'[t] = IF t = s THEN Capacity(c) ELSE capacity[t]
  BY <1>1, <1>2
<1>5. \A q \in Procs : pc'[q] = IF q = w THEN "within" ELSE pc[q]
  BY <1>1, <1>2
<1>6. \A v \in Workers, d \in Classes :
         partial'[v][d] = IF v = w /\ d = c THEN <<s>> \o partial[w][c] ELSE partial[v][d]
  BY <1>1, <1>2
<1>7. \A v \in Workers, d \in Classes :
         /\ partial[v][d] \in Seq(Slabs) /\ full[v][d] \in Seq(Slabs)
         /\ Elems(partial[v][d]) \subseteq Slabs /\ Elems(full[v][d]) \subseteq Slabs
         /\ s \notin Elems(partial[v][d]) /\ s \notin Elems(full[v][d])
         /\ NoDup(partial[v][d])
  <2>1. \A v \in Workers, d \in Classes :
           partial[v][d] \in Seq(Slabs) /\ full[v][d] \in Seq(Slabs)
    BY <1>2
  <2> QED BY <1>1, <2>1, ElemsFacts DEF Listed, IInv, Places, ListsTell
<1>8. /\ partial'[w][c] \in Seq(Slabs) /\ NoDup(partial'[w][c])
      /\ Elems(partial'[w][c]) = Elems(partial[w][c]) \cup {s}
  <2>1. partial'[w][c] = <<s>> \o partial[w][c]
    BY <1>6
  <2> QED BY <1>7, <2>1, PushElems
<1>9. Listed' = Listed \cup {s}
  <2>1. \A t \in Slabs, v \in Workers, d \in Classes :
           t \in Elems(partial'[v][d]) <=> (t \in Elems(partial[v][d]) \/ (t = s /\ v = w /\ d = c))
    BY <1>6, <1>8
  <2> QED BY <1>1, <2>1 DEF Listed
<1>10. \A v \in Workers : s \in held[v] => v = w
  BY <1>1 DEF IInv, Places, PoolOrHeld
<1>11. Types'
  <2>1. /\ assigned' \in [Slabs -> Workers \cup {NULL_U32}] /\ class' \in [Slabs -> Classes]
        /\ remote' \in [Slabs -> Seq(Nat)] /\ freeStack' \in [Slabs -> Seq(Nat)]
        /\ capacity' \in [Slabs -> {0} \cup {Capacity(d) : d \in Classes}]
    <3>1. Capacity(c) \in {0} \cup {Capacity(d) : d \in Classes}
      OBVIOUS
    <3>2. capacity' \in [Slabs -> {0} \cup {Capacity(d) : d \in Classes}]
      BY <1>1, <1>2, <3>1
    <3>3. assigned' \in [Slabs -> Workers \cup {NULL_U32}] /\ class' \in [Slabs -> Classes]
      BY <1>1, <1>2
    <3>4. remote' \in [Slabs -> Seq(Nat)]
      BY <1>1, <1>2
    <3>5. freeStack' \in [Slabs -> Seq(Nat)]
      BY <1>1, <1>2, <1>3
    <3> QED BY <3>2, <3>3, <3>4, <3>5
  <2>2. partial' \in [Workers -> [Classes -> Seq(Slabs)]] /\ pc' \in [Procs -> PCs]
    BY <1>1, <1>2, <1>6, <1>8 DEF PCs
  <2> QED BY <1>1, <2>1, <2>2 DEF IInv, Types
<1>12. Places'
  <2>1. PoolOrHeld'
    BY <1>1 DEF IInv, Places, PoolOrHeld
  <2>2. ListsTell'
    <3> SUFFICES ASSUME NEW v \in Workers, NEW d \in Classes
                 PROVE
          /\ NoDup(partial'[v][d]) /\ NoDup(full[v][d])
          /\ \A t \in Elems(partial'[v][d]) :
                /\ t \in held[v] /\ assigned'[t] = v /\ class'[t] = d /\ capacity'[t] = Capacity(d)
                /\ freeStack'[t] # <<>>
                /\ Len(freeStack'[t]) < Capacity(d) \/ slab[v] = t
          /\ \A t \in Elems(full[v][d]) :
                /\ t \in held[v] /\ assigned'[t] = v /\ class'[t] = d /\ capacity'[t] = Capacity(d)
                /\ freeStack'[t] = <<>>
                /\ slab[v] # t
      BY <1>1 DEF ListsTell
    <3>1. \A t \in Elems(full[v][d]) \cup Elems(partial[v][d]) : t \in Slabs /\ t # s
      BY <1>7
    <3>2. CASE v = w /\ d = c
      <4>1. NoDup(partial'[v][d]) /\ NoDup(full[v][d])
        BY <1>8, <3>2 DEF IInv, Places, ListsTell
      <4>2. /\ s \in held[v] /\ assigned'[s] = v /\ class'[s] = d /\ capacity'[s] = Capacity(d)
            /\ freeStack'[s] # <<>> /\ slab[v] = s
        BY <1>1, <1>3, <1>4, <3>2
      <4>3. \A t \in Elems(partial'[v][d]) : t # s => t \in Elems(partial[v][d])
        BY <1>8, <3>2
      <4> QED BY <1>4, <3>1, <4>1, <4>2, <4>3 DEF IInv, Places, ListsTell
    <3>3. CASE ~(v = w /\ d = c)
      BY <1>4, <1>6, <3>1, <3>3 DEF IInv, Places, ListsTell
    <3> QED BY <3>2, <3>3
  <2>3. Hands'
    <3> SUFFICES ASSUME NEW v \in Workers
                 PROVE
          /\ \A t \in held[v] : t \in Listed' \/ slab[v] = t
          /\ slab[v] # NULL_U32 => slab[v] \in held[v]
          /\ pc'[v] \in {"assign", "give"} => slab[v] \in Slabs /\ slab[v] \notin Listed'
          /\ pc'[v] = "within" =>
                /\ slab[v] \in Slabs
                /\ slab[v] \in Elems(partial'[v][want[v]])
                /\ Len(freeStack'[slab[v]]) = Capacity(want[v])
          /\ pc'[v] \notin {"assign", "within", "give", "dead"} => slab[v] = NULL_U32
      BY <1>1 DEF Hands
    <3>1. CASE v = w
      <4>1. pc'[v] = "within" /\ slab[v] = s /\ want[v] = c /\ s \in held[v]
        BY <1>1, <1>2, <1>5, <3>1
      <4>2. \A t \in held[v] : t \in Listed' \/ slab[v] = t
        BY <1>9 DEF IInv, Places, Hands
      <4>3. s \in Elems(partial'[v][c]) /\ Len(freeStack'[s]) = Capacity(c)
        BY <1>3, <1>4, <1>8, <3>1
      <4> QED BY <4>1, <4>2, <4>3
    <3>2. CASE v # w
      <4>1. slab[v] # s /\ pc'[v] = pc[v]
        BY <1>5, <1>10, <3>2 DEF IInv, Places, Hands, Procs
      <4>2. pc[v] = "within" => want[v] \in Classes
        BY DEF IInv, Calls
      <4> QED BY <1>4, <1>6, <1>9, <3>2, <4>1, <4>2 DEF IInv, Places, Hands
    <3> QED BY <3>1, <3>2
  <2> QED BY <2>1, <2>2, <2>3 DEF Places
<1>13. Calls' /\ Cleans'
  BY <1>1, <1>5 DEF IInv, Calls, Cleans, Procs
<1>14. /\ LiveIn' = LiveIn /\ FreeingIn' = FreeingIn /\ DrainedIn' = DrainedIn
       /\ FreeIn' = [FreeIn EXCEPT ![s] = 0 .. Capacity(c) - 1]
       /\ RemoteIn' = RemoteIn
       /\ LiveIn[s] = {} /\ FreeingIn[s] = {} /\ RemoteIn[s] = {} /\ DrainedIn[s] = {}
  <2>1. LiveIn[s] = {} /\ FreeingIn[s] = {} /\ RemoteIn[s] = {} /\ DrainedIn[s] = {}
    BY <1>1 DEF IInv, SlotPlace, SlotsKept
  <2>2. Elems(remote[s]) = {}
    BY <2>1 DEF RemoteIn
  <2>3. RemoteIn' = RemoteIn
    BY <1>4, <2>2, EmptyElems DEF RemoteIn
  <2>4. FreeIn' = [FreeIn EXCEPT ![s] = 0 .. Capacity(c) - 1]
    BY <1>3, <1>4 DEF FreeIn
  <2>5. LiveIn' = LiveIn /\ FreeingIn' = FreeingIn /\ DrainedIn' = DrainedIn
    BY <1>1 DEF LiveIn, FreeingIn, DrainedIn
  <2> QED BY <2>1, <2>3, <2>4, <2>5
<1>15. SlotPlace'
  <2>1. \A t \in Slabs : FreeIn'[t] = IF t = s THEN 0 .. Capacity(c) - 1 ELSE FreeIn[t]
    BY <1>14 DEF FreeIn
  <2>2. SlotsApart'
    BY <1>14, <2>1 DEF IInv, SlotPlace, SlotsApart
  <2>3. SlotsKept'
    <3> SUFFICES ASSUME NEW t \in Slabs
                 PROVE
          /\ FreeIn'[t] \subseteq 0 .. capacity'[t] - 1
          /\ t \in Listed' =>
                FreeIn'[t] \cup LiveIn[t] \cup FreeingIn[t] \cup RemoteIn[t] \cup DrainedIn[t]
                   = 0 .. Capacity(class'[t]) - 1
          /\ t \notin Listed' =>
                LiveIn[t] \cup FreeingIn[t] \cup RemoteIn[t] \cup DrainedIn[t] = {}
      BY <1>14 DEF SlotsKept
    <3>1. CASE t = s
      <4>1. LiveIn[t] \cup FreeingIn[t] \cup RemoteIn[t] \cup DrainedIn[t] = {}
        BY <1>14, <3>1
      <4>2. FreeIn'[t] = 0 .. Capacity(c) - 1
        BY <2>1, <3>1
      <4>3. capacity'[t] = Capacity(c) /\ class'[t] = c
        BY <1>4, <3>1
      <4> QED BY <4>1, <4>2, <4>3
    <3>2. CASE t # s
      BY <1>4, <1>9, <2>1, <3>2 DEF IInv, SlotPlace, SlotsKept
    <3> QED BY <3>1, <3>2
  <2>4. SlotsOnce'
    BY <1>1, <1>3, <1>4, EmptyElems DEF IInv, SlotPlace, SlotsOnce
  <2>5. LiveSlots'
    <3>1. \A a \in live : a.slab \in Slabs /\ a.slab # s
      BY <1>14 DEF LiveIn, IInv, Types
    <3> QED BY <1>1, <1>4, <3>1 DEF IInv, SlotPlace, LiveSlots, IndexOf
  <2>6. DrainedOwned'
    <3>1. \A v \in Workers : iter[v].drained # <<>> => iter[v].slab \in Slabs /\ iter[v].slab # s
      <4> TAKE v \in Workers
      <4>1. /\ iter[v].slab \in Slabs \cup {NULL_U32} /\ iter[v].drained \in Seq(Nat)
        BY DEF IInv, Types, Iters
      <4>2. iter[v].drained # <<>> => iter[v].slab # NULL_U32 /\ Elems(iter[v].drained) # {}
        BY <4>1, ElemsFacts DEF IInv, Cleans
      <4>3. iter[v].slab = s => Elems(iter[v].drained) = {}
        BY <1>14 DEF DrainedIn
      <4> QED BY <4>1, <4>2, <4>3
    <3> QED BY <1>1, <1>4, <3>1 DEF IInv, SlotPlace, DrainedOwned
  <2> QED BY <2>2, <2>3, <2>4, <2>5, <2>6 DEF SlotPlace
<1>16. Walks'
  <2>1. iter[w] = NoIter
    BY <1>1 DEF IInv, Cleans
  <2>2. ASSUME NEW v \in Workers, iter[v] # NoIter
        PROVE  /\ v # w /\ iter[v].class \in Classes
               /\ \A d \in Classes : partial'[v][d] = partial[v][d]
    BY <1>6, <2>1, <2>2 DEF IInv, Cleans
  <2> QED BY <1>1, <2>2 DEF IInv, Walks, ListOf, LocalList
<1> QED BY <1>11, <1>12, <1>13, <1>15, <1>16 DEF IInv


-----------------------------------------------------------------------------
\* What IInv says of an allocation and of its index.
LEMMA LiveFacts ==
  ASSUME IInv, NEW a \in live
  PROVE  /\ a.slab \in Slabs /\ a.class = class[a.slab] /\ a.class \in Classes
         /\ IndexOf(a) \in Nat /\ IndexOf(a) \in LiveIn[a.slab]
         /\ a.offset = IndexOf(a) * SIZE_CLASSES[a.class]
         /\ a.id = 0
         /\ \A b \in live : b.slab = a.slab /\ IndexOf(b) = IndexOf(a) => b = a
<1>1. live \subseteq [slab : Slabs, class : Classes, offset : 0 .. SlabSize - 1, id : Nat]
  BY DEF IInv, Types
<1>2. \A b \in live : /\ b.class = class[b.slab]
                      /\ b.offset = IndexOf(b) * SIZE_CLASSES[b.class]
                      /\ b.id = 0
  BY DEF IInv, SlotPlace, LiveSlots
<1>3. IndexOf(a) \in Nat
  <2>1. a.offset \in Nat /\ SIZE_CLASSES[a.class] \in Nat \ {0}
    BY <1>1, SizeFacts, SizesAssumption
  <2>2. ASSUME NEW n \in Nat, NEW z \in Nat \ {0} PROVE n \div z \in Nat
    BY SMT
  <2> QED BY <2>1, <2>2 DEF IndexOf
<1>4. IndexOf(a) \in LiveIn[a.slab]
  BY <1>1 DEF LiveIn
<1>5. ASSUME NEW b \in live, b.slab = a.slab, IndexOf(b) = IndexOf(a)
      PROVE  b = a
  <2>1. b.class = a.class /\ b.offset = a.offset /\ b.id = a.id
    BY <1>2, <1>5
  <2> QED BY <1>1, <1>5, <2>1
<1> QED BY <1>1, <1>2, <1>3, <1>4, <1>5

\* An allocation given up: its index goes to the process that frees it, at
\* the class the slab still has.
LEMMA FreeCallStep ==
  ASSUME IInv, NEW p \in Procs, NEW a \in live, FreeCall(p, a)
  PROVE  IInv'
<1>1. PICK s \in Slabs, i \in Nat, label \in {"free_check", "remote_push"} :
         /\ a.slab = s /\ IndexOf(a) = i /\ i \in LiveIn[s]
         /\ live' = live \ {a}
         /\ freeing' = [freeing EXCEPT ![p] =
               [slab |-> s, class |-> a.class, offset |-> a.offset, index |-> i]]
         /\ pc[p] = "idle" /\ pc' = [pc EXCEPT ![p] = label]
         /\ label = "remote_push" <=> p \in Freers
         /\ UNCHANGED <<pool, held, assigned, class, remote, freeStack, capacity, partial, full,
                        outstanding, slab, want, iter>>
  <2>1. a.offset \div SIZE_CLASSES[class[a.slab]] = IndexOf(a)
    BY LiveFacts DEF IndexOf
  <2>2. p \in Workers <=> p \notin Freers
    BY DEF Procs
  <2> QED BY <2>1, <2>2, LiveFacts DEF FreeCall, Goto, poolVars, slabVars, listVars
<1>2. /\ live \subseteq [slab : Slabs, class : Classes, offset : 0 .. SlabSize - 1, id : Nat]
      /\ freeing \in [Procs -> [slab : Slabs \cup {NULL_U32}, offset : 0 .. SlabSize - 1,
                                class : {0} \cup Classes, index : Nat]]
      /\ pc \in [Procs -> PCs]
  BY DEF IInv, Types
<1>3. /\ pc' \in [Procs -> PCs]
      /\ \A q \in Procs : pc'[q] = IF q = p THEN label ELSE pc[q]
  BY <1>1, <1>2 DEF PCs
<1>4. /\ freeing' \in [Procs -> [slab : Slabs \cup {NULL_U32}, offset : 0 .. SlabSize - 1,
                                 class : {0} \cup Classes, index : Nat]]
      /\ freeing'[p].slab = s /\ freeing'[p].index = i
      /\ \A q \in Procs : q # p => freeing'[q] = freeing[q]
      /\ freeing[p].slab = NULL_U32
  <2>1. a.class \in Classes /\ a.offset \in 0 .. SlabSize - 1
    BY <1>2
  <2>2. freeing[p] = NoFree
    BY <1>1 DEF IInv, Calls
  <2> QED BY <1>1, <1>2, <2>1, <2>2 DEF NoFree
<1>5. Types'
  BY <1>1, <1>2, <1>3, <1>4 DEF IInv, Types
<1>6. Listed' = Listed
  BY <1>1 DEF Listed
<1>7. Places'
  <2>1. PoolOrHeld' /\ ListsTell'
    BY <1>1 DEF IInv, Places, PoolOrHeld, ListsTell
  <2>2. Hands'
    BY <1>1, <1>3, <1>6 DEF IInv, Places, Hands, Procs
  <2> QED BY <2>1, <2>2 DEF Places
<1>8. Calls' /\ Cleans'
  BY <1>1, <1>3, <1>4 DEF IInv, Calls, Cleans, Procs
<1>9. /\ \A t \in Slabs : LiveIn'[t] = IF t = s THEN LiveIn[s] \ {i} ELSE LiveIn[t]
      /\ \A t \in Slabs : FreeingIn'[t] = IF t = s THEN FreeingIn[s] \cup {i} ELSE FreeingIn[t]
      /\ FreeIn' = FreeIn /\ RemoteIn' = RemoteIn /\ DrainedIn' = DrainedIn
  <2>1. ASSUME NEW t \in Slabs
        PROVE  LiveIn'[t] = IF t = s THEN LiveIn[s] \ {i} ELSE LiveIn[t]
    <3>1. LiveIn'[t] = {IndexOf(b) : b \in {d \in live \ {a} : d.slab = t}}
      BY <1>1 DEF LiveIn, IndexOf
    <3>2. LiveIn[t] = {IndexOf(b) : b \in {d \in live : d.slab = t}}
      BY DEF LiveIn
    <3>3. \A b \in live : b.slab = s /\ IndexOf(b) = i => b = a
      BY <1>1, LiveFacts
    <3> QED BY <1>1, <3>1, <3>2, <3>3
  <2>2. ASSUME NEW t \in Slabs
        PROVE  FreeingIn'[t] = IF t = s THEN FreeingIn[s] \cup {i} ELSE FreeingIn[t]
    BY <1>4 DEF FreeingIn
  <2>3. FreeIn' = FreeIn /\ RemoteIn' = RemoteIn /\ DrainedIn' = DrainedIn
    BY <1>1 DEF FreeIn, RemoteIn, DrainedIn
  <2> QED BY <2>1, <2>2, <2>3
<1>10. SlotPlace'
  <2>1. SlotsApart'
    BY <1>1, <1>9 DEF IInv, SlotPlace, SlotsApart
  <2>2. SlotsKept'
    BY <1>1, <1>6, <1>9 DEF IInv, SlotPlace, SlotsKept
  <2>3. SlotsOnce'
    <3>1. i \notin FreeingIn[s]
      BY <1>1 DEF IInv, SlotPlace, SlotsApart
    <3>2. \A q \in Procs : freeing[q].slab = s => freeing[q].index # i
      BY <3>1 DEF FreeingIn
    <3> QED BY <1>1, <1>4, <3>2 DEF IInv, SlotPlace, SlotsOnce
  <2>4. LiveSlots' /\ DrainedOwned'
    BY <1>1 DEF IInv, SlotPlace, LiveSlots, DrainedOwned, IndexOf
  <2> QED BY <2>1, <2>2, <2>3, <2>4 DEF SlotPlace
<1>11. Walks'
  BY <1>1 DEF IInv, Walks, ListOf, LocalList
<1> QED BY <1>5, <1>7, <1>8, <1>10, <1>11 DEF IInv

\* What a process frees, it alone frees.
LEMMA FreeingFacts ==
  ASSUME IInv, NEW p \in Procs, freeing[p].slab \in Slabs
  PROVE  /\ freeing[p].index \in Nat /\ freeing[p].index \in FreeingIn[freeing[p].slab]
         /\ \A q \in Procs : q # p /\ freeing[q].slab = freeing[p].slab =>
               freeing[q].index # freeing[p].index
<1>1. freeing[p].index \in Nat
  BY DEF IInv, Types
<1>2. freeing[p].index \in FreeingIn[freeing[p].slab]
  BY DEF FreeingIn
<1> QED BY <1>1, <1>2 DEF IInv, SlotPlace, SlotsOnce

\* When it is done with it, nobody frees it.
LEMMA FreedFacts ==
  ASSUME IInv, NEW p \in Procs, freeing[p].slab \in Slabs,
         freeing' = [freeing EXCEPT ![p] = NoFree]
  PROVE  /\ freeing' \in [Procs -> [slab : Slabs \cup {NULL_U32}, offset : 0 .. SlabSize - 1,
                                    class : {0} \cup Classes, index : Nat]]
         /\ \A q \in Procs : freeing'[q] = IF q = p THEN NoFree ELSE freeing[q]
         /\ \A t \in Slabs : FreeingIn'[t] =
               IF t = freeing[p].slab THEN FreeingIn[t] \ {freeing[p].index} ELSE FreeingIn[t]
<1>1. freeing \in [Procs -> [slab : Slabs \cup {NULL_U32}, offset : 0 .. SlabSize - 1,
                             class : {0} \cup Classes, index : Nat]]
  BY DEF IInv, Types
<1>2. NoFree \in [slab : Slabs \cup {NULL_U32}, offset : 0 .. SlabSize - 1,
                  class : {0} \cup Classes, index : Nat] /\ NoFree.slab = NULL_U32
  BY FirstClass DEF NoFree
<1>3. \A q \in Procs : freeing'[q] = IF q = p THEN NoFree ELSE freeing[q]
  BY <1>1
<1>4. ASSUME NEW t \in Slabs
      PROVE  FreeingIn'[t] =
                IF t = freeing[p].slab THEN FreeingIn[t] \ {freeing[p].index} ELSE FreeingIn[t]
  <2>1. FreeingIn'[t] = {freeing'[q].index : q \in {r \in Procs : freeing'[r].slab = t}}
    BY DEF FreeingIn
  <2>2. FreeingIn[t] = {freeing[q].index : q \in {r \in Procs : freeing[r].slab = t}}
    BY DEF FreeingIn
  <2>3. \A q \in Procs : (freeing'[q].slab = t <=> freeing[q].slab = t /\ q # p)
    BY <1>2, <1>3
  <2>4. FreeingIn'[t] = {freeing[q].index : q \in {r \in Procs : freeing[r].slab = t /\ r # p}}
    BY <1>3, <2>1, <2>3
  <2> QED BY <2>2, <2>4, FreeingFacts
<1> QED BY <1>1, <1>2, <1>3, <1>4

\* A remote push moves the index to the slab's remote list.
LEMMA RemotePushStep ==
  ASSUME IInv, NEW p \in Procs, RemotePush(p)
  PROVE  IInv'
<1>1. PICK s \in Slabs, i \in Nat :
         /\ freeing[p].slab = s /\ freeing[p].index = i /\ i \in FreeingIn[s]
         /\ remote' = [remote EXCEPT ![s] = <<i>> \o remote[s]]
         /\ freeing' = [freeing EXCEPT ![p] = NoFree]
         /\ pc[p] = "remote_push" /\ pc' = [pc EXCEPT ![p] = "idle"]
         /\ UNCHANGED <<pool, held, assigned, class, freeStack, capacity, partial, full,
                        outstanding, live, slab, want, iter>>
  <2>1. pc[p] = "remote_push" /\ freeing[p].slab \in Slabs
    BY DEF RemotePush, IInv, Calls
  <2> QED BY <2>1, FreeingFacts DEF RemotePush, Goto, poolVars, listVars
<1>2. /\ remote \in [Slabs -> Seq(Nat)] /\ pc \in [Procs -> PCs]
      /\ i \notin RemoteIn[s] /\ RemoteIn[s] = Elems(remote[s]) /\ NoDup(remote[s])
  BY <1>1 DEF IInv, Types, SlotPlace, SlotsApart, SlotsOnce, RemoteIn
<1>3. /\ pc' \in [Procs -> PCs]
      /\ \A q \in Procs : pc'[q] = IF q = p THEN "idle" ELSE pc[q]
  BY <1>1, <1>2 DEF PCs
<1>4. /\ remote' \in [Slabs -> Seq(Nat)]
      /\ \A t \in Slabs : remote'[t] = IF t = s THEN <<i>> \o remote[s] ELSE remote[t]
      /\ NoDup(remote'[s]) /\ Elems(remote'[s]) = RemoteIn[s] \cup {i}
  <2>1. /\ <<i>> \o remote[s] \in Seq(Nat) /\ NoDup(<<i>> \o remote[s])
        /\ Elems(<<i>> \o remote[s]) = RemoteIn[s] \cup {i}
    BY <1>1, <1>2, PushElems
  <2> QED BY <1>1, <1>2, <2>1
<1>5. /\ freeing' \in [Procs -> [slab : Slabs \cup {NULL_U32}, offset : 0 .. SlabSize - 1,
                                 class : {0} \cup Classes, index : Nat]]
      /\ \A q \in Procs : freeing'[q] = IF q = p THEN NoFree ELSE freeing[q]
      /\ \A t \in Slabs : FreeingIn'[t] = IF t = s THEN FreeingIn[t] \ {i} ELSE FreeingIn[t]
  BY <1>1, FreedFacts
<1>6. Types'
  BY <1>1, <1>3, <1>4, <1>5 DEF IInv, Types
<1>7. Listed' = Listed
  BY <1>1 DEF Listed
<1>8. Places'
  <2>1. PoolOrHeld' /\ ListsTell'
    BY <1>1 DEF IInv, Places, PoolOrHeld, ListsTell
  <2>2. Hands'
    BY <1>1, <1>3, <1>7 DEF IInv, Places, Hands, Procs
  <2> QED BY <2>1, <2>2 DEF Places
<1>9. Calls' /\ Cleans'
  BY <1>1, <1>3, <1>5 DEF IInv, Calls, Cleans, Procs
<1>10. /\ \A t \in Slabs : RemoteIn'[t] = IF t = s THEN RemoteIn[t] \cup {i} ELSE RemoteIn[t]
       /\ FreeIn' = FreeIn /\ LiveIn' = LiveIn /\ DrainedIn' = DrainedIn
  <2>1. ASSUME NEW t \in Slabs
        PROVE  RemoteIn'[t] = IF t = s THEN RemoteIn[t] \cup {i} ELSE RemoteIn[t]
    BY <1>2, <1>4 DEF RemoteIn
  <2>2. FreeIn' = FreeIn
    BY <1>1 DEF FreeIn
  <2>3. LiveIn' = LiveIn
    BY <1>1 DEF LiveIn
  <2>4. DrainedIn' = DrainedIn
    BY <1>1 DEF DrainedIn
  <2> QED BY <2>1, <2>2, <2>3, <2>4
<1>11. SlotPlace'
  <2>1. SlotsApart'
    <3> SUFFICES ASSUME NEW t \in Slabs
                 PROVE
          /\ FreeIn[t] \cap (LiveIn[t] \cup FreeingIn'[t] \cup RemoteIn'[t] \cup DrainedIn[t]) = {}
          /\ LiveIn[t] \cap (FreeingIn'[t] \cup RemoteIn'[t] \cup DrainedIn[t]) = {}
          /\ FreeingIn'[t] \cap (RemoteIn'[t] \cup DrainedIn[t]) = {}
          /\ RemoteIn'[t] \cap DrainedIn[t] = {}
      BY <1>10 DEF SlotsApart
    <3>1. /\ FreeIn[t] \cap (LiveIn[t] \cup FreeingIn[t] \cup RemoteIn[t] \cup DrainedIn[t]) = {}
          /\ LiveIn[t] \cap (FreeingIn[t] \cup RemoteIn[t] \cup DrainedIn[t]) = {}
          /\ FreeingIn[t] \cap (RemoteIn[t] \cup DrainedIn[t]) = {}
          /\ RemoteIn[t] \cap DrainedIn[t] = {}
      BY DEF IInv, SlotPlace, SlotsApart
    <3>2. CASE t = s
      <4>1. FreeingIn'[t] = FreeingIn[t] \ {i} /\ RemoteIn'[t] = RemoteIn[t] \cup {i} /\ i \in FreeingIn[t]
        BY <1>1, <1>5, <1>10, <3>2
      <4> QED BY <3>1, <4>1
    <3>3. CASE t # s
      <4>1. FreeingIn'[t] = FreeingIn[t] /\ RemoteIn'[t] = RemoteIn[t]
        BY <1>5, <1>10, <3>3
      <4> QED BY <3>1, <4>1
    <3> QED BY <3>2, <3>3
  <2>2. SlotsKept'
    <3>1. ASSUME NEW t \in Slabs
          PROVE  FreeingIn'[t] \cup RemoteIn'[t] = FreeingIn[t] \cup RemoteIn[t]
      BY <1>1, <1>5, <1>10
    <3>2. ASSUME NEW t \in Slabs
          PROVE  /\ FreeIn[t] \subseteq 0 .. capacity[t] - 1
                 /\ t \in Listed =>
                       FreeIn[t] \cup LiveIn[t] \cup (FreeingIn'[t] \cup RemoteIn'[t]) \cup DrainedIn[t]
                          = 0 .. Capacity(class[t]) - 1
                 /\ t \notin Listed =>
                       LiveIn[t] \cup (FreeingIn'[t] \cup RemoteIn'[t]) \cup DrainedIn[t] = {}
      <4>1. /\ FreeIn[t] \subseteq 0 .. capacity[t] - 1
            /\ t \in Listed =>
                  FreeIn[t] \cup LiveIn[t] \cup (FreeingIn[t] \cup RemoteIn[t]) \cup DrainedIn[t]
                     = 0 .. Capacity(class[t]) - 1
            /\ t \notin Listed =>
                  LiveIn[t] \cup (FreeingIn[t] \cup RemoteIn[t]) \cup DrainedIn[t] = {}
        BY DEF IInv, SlotPlace, SlotsKept
      <4> QED BY <3>1, <4>1
    <3> QED BY <1>1, <1>7, <1>10, <3>2 DEF SlotsKept
  <2>3. SlotsOnce'
    BY <1>1, <1>4, <1>5 DEF IInv, SlotPlace, SlotsOnce, NoFree
  <2>4. LiveSlots' /\ DrainedOwned'
    BY <1>1 DEF IInv, SlotPlace, LiveSlots, DrainedOwned
  <2> QED BY <2>1, <2>2, <2>3, <2>4 DEF SlotPlace
<1>12. Walks'
  BY <1>1 DEF IInv, Walks, ListOf, LocalList
<1> QED BY <1>6, <1>8, <1>9, <1>11, <1>12 DEF IInv

-----------------------------------------------------------------------------
\* A slab on a list is on no other.
LEMMA ListFacts ==
  ASSUME IInv, NEW w \in Workers, NEW c \in Classes,
         NEW s, s \in Elems(partial[w][c]) \/ s \in Elems(full[w][c])
  PROVE  /\ s \in Slabs /\ s \in Listed /\ s \in held[w]
         /\ assigned[s] = w /\ class[s] = c /\ capacity[s] = Capacity(c)
         /\ (s \in Elems(partial[w][c]) <=> freeStack[s] # <<>>)
         /\ (s \in Elems(full[w][c]) <=> freeStack[s] = <<>>)
         /\ \A v \in Workers : s \in held[v] => v = w
         /\ \A v \in Workers, d \in Classes :
               s \in Elems(partial[v][d]) \/ s \in Elems(full[v][d]) => v = w /\ d = c
<1>1. partial[w][c] \in Seq(Slabs) /\ full[w][c] \in Seq(Slabs)
  BY DEF IInv, Types
<1>2. s \in Slabs /\ s \in Listed
  BY <1>1, ElemsFacts DEF Listed
<1>3. /\ s \in held[w]
      /\ assigned[s] = w /\ class[s] = c /\ capacity[s] = Capacity(c)
      /\ (s \in Elems(partial[w][c]) => freeStack[s] # <<>>)
      /\ (s \in Elems(full[w][c]) => freeStack[s] = <<>>)
  BY DEF IInv, Places, ListsTell
<1>4. \A v \in Workers : s \in held[v] => v = w
  BY <1>2, <1>3 DEF IInv, Places, PoolOrHeld
<1>5. ASSUME NEW v \in Workers, NEW d \in Classes,
             s \in Elems(partial[v][d]) \/ s \in Elems(full[v][d])
      PROVE  v = w /\ d = c
  BY <1>3, <1>5 DEF IInv, Places, ListsTell
<1> QED BY <1>2, <1>3, <1>4, <1>5

\* What is known of all entries of a worker's lists of a class.
LEMMA ListEntries ==
  ASSUME IInv, NEW v \in Workers, NEW d \in Classes
  PROVE  /\ NoDup(partial[v][d]) /\ NoDup(full[v][d])
         /\ \A t \in Elems(partial[v][d]) :
               /\ t \in Slabs
               /\ t \in held[v] /\ assigned[t] = v /\ class[t] = d /\ capacity[t] = Capacity(d)
               /\ freeStack[t] # <<>>
               /\ Len(freeStack[t]) < Capacity(d) \/ slab[v] = t
         /\ \A t \in Elems(full[v][d]) :
               /\ t \in Slabs
               /\ t \in held[v] /\ assigned[t] = v /\ class[t] = d /\ capacity[t] = Capacity(d)
               /\ freeStack[t] = <<>>
               /\ slab[v] # t
<1>1. ListsTell
  BY DEF IInv, Places
<1>2. NoDup(partial[v][d]) /\ NoDup(full[v][d])
  BY <1>1 DEF ListsTell
<1>3. ASSUME NEW t \in Elems(partial[v][d])
      PROVE  /\ t \in Slabs
             /\ t \in held[v] /\ assigned[t] = v /\ class[t] = d /\ capacity[t] = Capacity(d)
             /\ freeStack[t] # <<>>
             /\ Len(freeStack[t]) < Capacity(d) \/ slab[v] = t
  <2>1. t \in Slabs
    BY ListFacts
  <2> QED BY <1>1, <2>1 DEF ListsTell
<1>4. ASSUME NEW t \in Elems(full[v][d])
      PROVE  /\ t \in Slabs
             /\ t \in held[v] /\ assigned[t] = v /\ class[t] = d /\ capacity[t] = Capacity(d)
             /\ freeStack[t] = <<>>
             /\ slab[v] # t
  <2>1. t \in Slabs
    BY ListFacts
  <2> QED BY <1>1, <2>1 DEF ListsTell
<1> QED BY <1>2, <1>3, <1>4

\* Slots move within one slab: those of the others stay apart and kept.
LEMMA SlotsElsewhere ==
  ASSUME SlotPlace, NEW s \in Slabs,
         \A t \in Slabs : t # s =>
            /\ FreeIn'[t] = FreeIn[t] /\ LiveIn'[t] = LiveIn[t] /\ FreeingIn'[t] = FreeingIn[t]
            /\ RemoteIn'[t] = RemoteIn[t] /\ DrainedIn'[t] = DrainedIn[t]
            /\ (t \in Listed' <=> t \in Listed)
            /\ capacity'[t] = capacity[t] /\ class'[t] = class[t],
         /\ FreeIn'[s] \cap (LiveIn'[s] \cup FreeingIn'[s] \cup RemoteIn'[s] \cup DrainedIn'[s]) = {}
         /\ LiveIn'[s] \cap (FreeingIn'[s] \cup RemoteIn'[s] \cup DrainedIn'[s]) = {}
         /\ FreeingIn'[s] \cap (RemoteIn'[s] \cup DrainedIn'[s]) = {}
         /\ RemoteIn'[s] \cap DrainedIn'[s] = {},
         /\ FreeIn'[s] \subseteq 0 .. capacity'[s] - 1
         /\ s \in Listed' =>
               FreeIn'[s] \cup LiveIn'[s] \cup FreeingIn'[s] \cup RemoteIn'[s] \cup DrainedIn'[s]
                  = 0 .. Capacity(class'[s]) - 1
         /\ s \notin Listed' =>
               LiveIn'[s] \cup FreeingIn'[s] \cup RemoteIn'[s] \cup DrainedIn'[s] = {}
  PROVE  SlotsApart' /\ SlotsKept'
<1>1. SlotsApart'
  <2>1. ASSUME NEW t \in Slabs
        PROVE
          /\ FreeIn'[t] \cap (LiveIn'[t] \cup FreeingIn'[t] \cup RemoteIn'[t] \cup DrainedIn'[t]) = {}
          /\ LiveIn'[t] \cap (FreeingIn'[t] \cup RemoteIn'[t] \cup DrainedIn'[t]) = {}
          /\ FreeingIn'[t] \cap (RemoteIn'[t] \cup DrainedIn'[t]) = {}
          /\ RemoteIn'[t] \cap DrainedIn'[t] = {}
    BY DEF SlotPlace, SlotsApart
  <2> QED BY <2>1 DEF SlotsApart
<1>2. SlotsKept'
  <2>1. ASSUME NEW t \in Slabs
        PROVE
          /\ FreeIn'[t] \subseteq 0 .. capacity'[t] - 1
          /\ t \in Listed' =>
                FreeIn'[t] \cup LiveIn'[t] \cup FreeingIn'[t] \cup RemoteIn'[t] \cup DrainedIn'[t]
                   = 0 .. Capacity(class'[t]) - 1
          /\ t \notin Listed' =>
                LiveIn'[t] \cup FreeingIn'[t] \cup RemoteIn'[t] \cup DrainedIn'[t] = {}
    <3>1. CASE t = s
      BY <3>1
    <3>2. CASE t # s
      BY <3>2 DEF SlotPlace, SlotsKept
    <3> QED BY <3>1, <3>2
  <2> QED BY <2>1 DEF SlotsKept
<1> QED BY <1>1, <1>2


\* The slot on top of a free stack is not allocated already: its allocation is
\* the only one there.
LEMMA PoppedIsNew ==
  ASSUME IInv, NEW w \in Workers, NEW c \in Classes, NEW s \in Elems(partial[w][c])
  PROVE  /\ Popped(s, c) = [slab |-> s, class |-> c,
                             offset |-> Head(freeStack[s]) * SIZE_CLASSES[c], id |-> 0]
         /\ \A b \in live : b.slab = s => IndexOf(b) # Head(freeStack[s])
<1>1. s \in Slabs /\ capacity[s] = Capacity(c) /\ freeStack[s] # <<>>
  BY ListFacts
<1>2. PICK i : i = Head(freeStack[s])
  OBVIOUS
<1>3. i \in FreeIn[s]
  <2>1. freeStack[s] \in Seq(Nat)
    BY <1>1 DEF IInv, Types
  <2> QED BY <1>1, <1>2, <2>1, ElemsFacts DEF FreeIn
<1>4. i \in 0 .. Capacity(c) - 1
  BY <1>1, <1>3 DEF IInv, SlotPlace, SlotsKept
<1>5. \A b \in live : b.slab = s => IndexOf(b) # i
  BY <1>1, <1>3, LiveFacts DEF IInv, SlotPlace, SlotsApart
<1>6. (i * SIZE_CLASSES[c]) \div SIZE_CLASSES[c] = i
  BY <1>4, SlotFacts
<1>7. {b \in live : b.slab = s /\ b.class = c /\ b.offset = i * SIZE_CLASSES[c]} = {}
  BY <1>5, <1>6 DEF IndexOf
<1>8. PICK ids : /\ ids = {a.id : a \in {b \in live : /\ b.slab = s /\ b.class = c
                                                    /\ b.offset = i * SIZE_CLASSES[c]}}
                 /\ ids = {}
  BY <1>7
<1>9. (CHOOSE n \in 0 .. Cardinality(ids) : n \notin ids) = 0
  <2>1. Cardinality(ids) = 0
    BY <1>8, FS_EmptySet
  <2>2. 0 .. Cardinality(ids) = {0}
    BY <2>1
  <2> QED BY <1>8, <2>2
<1> QED BY <1>2, <1>5, <1>8, <1>9 DEF Popped

\* A slot is allocated from a slab of the partial list: its index leaves the
\* free stack, and with the last one the slab goes to the full list.
LEMMA AllocateWithinStep ==
  ASSUME IInv, NEW w \in Workers, NEW c \in Classes, NEW s \in Elems(partial[w][c]),
         AllocateWithin(w, s, c),
         pc[w] = "idle" \/ (pc[w] = "within" /\ slab[w] = s /\ want[w] = c),
         slab' = [slab EXCEPT ![w] = NULL_U32],
         want' \in [Workers -> {0} \cup Classes],
         \A v \in Workers : v # w => want'[v] = want[v],
         UNCHANGED <<pool, held, freeing, iter>>
  PROVE  IInv'
<1>1. /\ freeStack' = [freeStack EXCEPT ![s] = Tail(freeStack[s])]
      /\ MoveIfFull(w, s, c)
      /\ outstanding' = [outstanding EXCEPT ![w] = outstanding[w] + SIZE_CLASSES[c]]
      /\ live' = live \cup {Popped(s, c)}
      /\ pc' = [pc EXCEPT ![w] = "idle"]
      /\ UNCHANGED <<assigned, class, remote, capacity>>
  BY DEF AllocateWithin, PopTop, Goto
<1>2. /\ s \in Slabs /\ s \in Listed /\ s \in held[w]
      /\ assigned[s] = w /\ class[s] = c /\ capacity[s] = Capacity(c)
      /\ freeStack[s] # <<>> /\ s \notin Elems(full[w][c])
      /\ \A v \in Workers : s \in held[v] => v = w
      /\ \A v \in Workers, d \in Classes :
            s \in Elems(partial[v][d]) \/ s \in Elems(full[v][d]) => v = w /\ d = c
  <2>1. /\ s \in Slabs /\ s \in Listed /\ s \in held[w]
        /\ assigned[s] = w /\ class[s] = c /\ capacity[s] = Capacity(c)
    BY ListFacts
  <2>2. freeStack[s] # <<>> /\ s \notin Elems(full[w][c])
    BY ListFacts
  <2>3. \A v \in Workers : s \in held[v] => v = w
    BY ListFacts
  <2>4. \A v \in Workers, d \in Classes :
           s \in Elems(partial[v][d]) \/ s \in Elems(full[v][d]) => v = w /\ d = c
    BY ListFacts
  <2> QED BY <2>1, <2>2, <2>3, <2>4
<1>3. /\ freeStack \in [Slabs -> Seq(Nat)] /\ pc \in [Procs -> PCs] /\ w \in Procs
      /\ partial \in [Workers -> [Classes -> Seq(Slabs)]]
      /\ full \in [Workers -> [Classes -> Seq(Slabs)]]
      /\ slab \in [Workers -> Slabs \cup {NULL_U32}]
      /\ outstanding \in [Workers -> Int]
      /\ live \subseteq [slab : Slabs, class : Classes, offset : 0 .. SlabSize - 1, id : Nat]
  BY DEF IInv, Types, Procs
<1>4. /\ freeStack[s] \in Seq(Nat) /\ NoDup(freeStack[s])
      /\ FreeIn[s] = Elems(freeStack[s])
      /\ FreeIn[s] \subseteq 0 .. Capacity(c) - 1
  BY <1>2, <1>3 DEF IInv, SlotPlace, SlotsOnce, SlotsKept, FreeIn
<1>5. PICK i \in 0 .. Capacity(c) - 1 :
         /\ Head(freeStack[s]) = i /\ i \in FreeIn[s]
         /\ Tail(freeStack[s]) \in Seq(Nat) /\ NoDup(Tail(freeStack[s]))
         /\ Elems(Tail(freeStack[s])) = FreeIn[s] \ {i}
         /\ Len(freeStack[s]) \in Nat \ {0}
         /\ Len(Tail(freeStack[s])) = Len(freeStack[s]) - 1
  BY <1>2, <1>4, TailElems
<1> DEFINE z == SIZE_CLASSES[c]
<1>6. /\ z \in Nat \ {0} /\ Capacity(c) \in Nat /\ Capacity(c) >= 2
      /\ i * z \in 0 .. SlabSize - 1 /\ (i * z) \div z = i
  BY SizeFacts, SlotFacts
<1>7. PICK a \in [slab : Slabs, class : Classes, offset : 0 .. SlabSize - 1, id : Nat] :
         /\ live' = live \cup {a}
         /\ a.slab = s /\ a.class = c /\ a.offset = i * z /\ IndexOf(a) = i
         /\ a.id = 0
  <2> DEFINE new == [slab |-> s, class |-> c, offset |-> i * z, id |-> 0]
  <2>1. new \in [slab : Slabs, class : Classes, offset : 0 .. SlabSize - 1, id : Nat]
    BY <1>2, <1>6
  <2>2. IndexOf(new) = i
    BY <1>6 DEF IndexOf
  <2>3. live' = live \cup {new}
    BY <1>1, <1>5, PoppedIsNew
  <2> QED BY <2>1, <2>2, <2>3
<1> HIDE DEF z
<1>8. /\ freeStack' \in [Slabs -> Seq(Nat)]
      /\ \A t \in Slabs : freeStack'[t] = IF t = s THEN Tail(freeStack[s]) ELSE freeStack[t]
  BY <1>1, <1>2, <1>3, <1>5
<1>9. /\ pc' \in [Procs -> PCs]
      /\ \A q \in Procs : pc'[q] = IF q = w THEN "idle" ELSE pc[q]
  BY <1>1, <1>3 DEF PCs
<1>10. /\ slab' \in [Workers -> Slabs \cup {NULL_U32}]
       /\ \A v \in Workers : slab'[v] = IF v = w THEN NULL_U32 ELSE slab[v]
  BY <1>3
<1>11. /\ partial' \in [Workers -> [Classes -> Seq(Slabs)]]
       /\ full' \in [Workers -> [Classes -> Seq(Slabs)]]
       /\ \A v \in Workers, d \in Classes : ~(v = w /\ d = c) =>
             partial'[v][d] = partial[v][d] /\ full'[v][d] = full[v][d]
       /\ NoDup(partial'[w][c]) /\ NoDup(full'[w][c])
       /\ \/ /\ Len(freeStack[s]) = 1
             /\ Elems(partial'[w][c]) = Elems(partial[w][c]) \ {s}
             /\ Elems(full'[w][c]) = Elems(full[w][c]) \cup {s}
          \/ /\ Len(freeStack[s]) # 1
             /\ Elems(partial'[w][c]) = Elems(partial[w][c])
             /\ Elems(full'[w][c]) = Elems(full[w][c])
  <2>1. /\ partial[w][c] \in Seq(Slabs) /\ full[w][c] \in Seq(Slabs)
        /\ NoDup(partial[w][c]) /\ NoDup(full[w][c])
    BY <1>3 DEF IInv, Places, ListsTell
  <2>2. CASE Len(freeStack[s]) = 1
    <3>1. /\ partial' = [partial EXCEPT ![w][c] = RemoveFrom(partial[w][c], s)]
          /\ full' = [full EXCEPT ![w][c] = <<s>> \o full[w][c]]
      BY <1>1, <2>2 DEF MoveIfFull, PushOn
    <3>2. /\ RemoveFrom(partial[w][c], s) \in Seq(Slabs) /\ NoDup(RemoveFrom(partial[w][c], s))
          /\ Elems(RemoveFrom(partial[w][c], s)) = Elems(partial[w][c]) \ {s}
      BY <2>1, RemoveElems
    <3>3. /\ <<s>> \o full[w][c] \in Seq(Slabs) /\ NoDup(<<s>> \o full[w][c])
          /\ Elems(<<s>> \o full[w][c]) = Elems(full[w][c]) \cup {s}
      BY <1>2, <2>1, PushElems
    <3>4. /\ partial'[w][c] = RemoveFrom(partial[w][c], s)
          /\ full'[w][c] = <<s>> \o full[w][c]
          /\ \A v \in Workers, d \in Classes : ~(v = w /\ d = c) =>
                partial'[v][d] = partial[v][d] /\ full'[v][d] = full[v][d]
      BY <1>3, <3>1
    <3>5. /\ partial' \in [Workers -> [Classes -> Seq(Slabs)]]
          /\ full' \in [Workers -> [Classes -> Seq(Slabs)]]
      BY <1>3, <3>1, <3>2, <3>3
    <3> QED BY <2>2, <3>2, <3>3, <3>4, <3>5
  <2>3. CASE Len(freeStack[s]) # 1
    <3>1. UNCHANGED <<partial, full>>
      BY <1>1, <2>3 DEF MoveIfFull, listVars
    <3> QED BY <1>3, <2>1, <2>3, <3>1
  <2> QED BY <2>2, <2>3
<1>12. Listed' = Listed
  <2>1. ASSUME NEW t, NEW v \in Workers, NEW d \in Classes
        PROVE  t \in Elems(partial'[v][d]) \/ t \in Elems(full'[v][d])
                 <=> t \in Elems(partial[v][d]) \/ t \in Elems(full[v][d])
    <3>1. CASE v = w /\ d = c
      BY <1>11, <3>1
    <3>2. CASE ~(v = w /\ d = c)
      BY <1>11, <3>2
    <3> QED BY <3>1, <3>2
  <2> QED BY <2>1 DEF Listed
<1>13. Types'
  <2>1. outstanding' \in [Workers -> Int]
    <3>1. outstanding' = [outstanding EXCEPT ![w] = outstanding[w] + z]
      BY <1>1 DEF z
    <3>2. outstanding[w] + z \in Int
      BY <1>3, <1>6
    <3> QED BY <1>3, <3>1, <3>2
  <2>2. live' \subseteq [slab : Slabs, class : Classes, offset : 0 .. SlabSize - 1, id : Nat]
    BY <1>3, <1>7
  <2> QED BY <1>1, <1>8, <1>9, <1>10, <1>11, <2>1, <2>2 DEF IInv, Types
<1>14. Places'
  <2>1. PoolOrHeld'
    BY DEF IInv, Places, PoolOrHeld
  <2>2. ListsTell'
    <3> SUFFICES ASSUME NEW v \in Workers, NEW d \in Classes
                 PROVE
          /\ NoDup(partial'[v][d]) /\ NoDup(full'[v][d])
          /\ \A t \in Elems(partial'[v][d]) :
                /\ t \in held[v] /\ assigned[t] = v /\ class[t] = d /\ capacity[t] = Capacity(d)
                /\ freeStack'[t] # <<>>
                /\ Len(freeStack'[t]) < Capacity(d) \/ slab'[v] = t
          /\ \A t \in Elems(full'[v][d]) :
                /\ t \in held[v] /\ assigned[t] = v /\ class[t] = d /\ capacity[t] = Capacity(d)
                /\ freeStack'[t] = <<>>
                /\ slab'[v] # t
      BY <1>1 DEF ListsTell
    <3>1. /\ NoDup(partial[v][d]) /\ NoDup(full[v][d])
          /\ \A t \in Elems(partial[v][d]) :
                /\ t \in Slabs
                /\ t \in held[v] /\ assigned[t] = v /\ class[t] = d /\ capacity[t] = Capacity(d)
                /\ freeStack[t] # <<>>
                /\ Len(freeStack[t]) < Capacity(d) \/ slab[v] = t
          /\ \A t \in Elems(full[v][d]) :
                /\ t \in Slabs
                /\ t \in held[v] /\ assigned[t] = v /\ class[t] = d /\ capacity[t] = Capacity(d)
                /\ freeStack[t] = <<>>
                /\ slab[v] # t
      BY ListEntries
    <3>2. CASE v = w /\ d = c
      <4>1. slab[w] = NULL_U32 \/ slab[w] = s
        BY DEF IInv, Places, Hands
      <4>2. Len(freeStack[s]) <= Capacity(c)
        BY <1>4, <1>6, FullStack
      <4>3. /\ Len(freeStack'[s]) = Len(freeStack[s]) - 1
            /\ (freeStack'[s] = <<>> <=> Len(freeStack[s]) = 1)
        <5>1. freeStack'[s] = Tail(freeStack[s])
          BY <1>2, <1>8
        <5>2. \A q \in Seq(Nat) : (q = <<>> <=> Len(q) = 0)
          BY ElemsFacts
        <5>3. PICK q \in Seq(Nat) : q = freeStack'[s] /\ Len(q) = Len(freeStack[s]) - 1
          BY <1>5, <5>1
        <5>4. q = <<>> <=> Len(q) = 0
          BY <5>2
        <5>5. Len(q) = 0 <=> Len(freeStack[s]) = 1
          BY <1>5, <5>3
        <5> QED BY <5>3, <5>4, <5>5
      <4>4. Len(freeStack'[s]) < Capacity(c)
        BY <1>5, <1>6, <4>2, <4>3
      <4>5. \A t \in Elems(partial[v][d]) \cup Elems(full[v][d]) :
               t # s => freeStack'[t] = freeStack[t] /\ slab[v] # t
        BY <1>8, <3>1, <3>2, <4>1, NullAssumption
      <4>6. \A t \in Elems(partial'[v][d]) : t \in Elems(partial[v][d])
                                            /\ (t = s => Len(freeStack[s]) # 1)
        BY <1>11, <3>2
      <4>7. \A t \in Elems(full'[v][d]) : \/ t = s /\ Len(freeStack[s]) = 1
                                          \/ t # s /\ t \in Elems(full[v][d])
        BY <1>2, <1>11, <3>2
      <4>8. slab'[v] = NULL_U32
        BY <1>10, <3>2
      <4>9. ASSUME NEW t \in Elems(partial'[v][d])
            PROVE  /\ t \in held[v] /\ assigned[t] = v /\ class[t] = d /\ capacity[t] = Capacity(d)
                   /\ freeStack'[t] # <<>>
                   /\ Len(freeStack'[t]) < Capacity(d) \/ slab'[v] = t
        <5>1. CASE t = s
          BY <1>2, <3>2, <4>3, <4>4, <4>6, <5>1
        <5>2. CASE t # s
          BY <3>1, <4>5, <4>6, <5>2
        <5> QED BY <5>1, <5>2
      <4>10. ASSUME NEW t \in Elems(full'[v][d])
             PROVE  /\ t \in held[v] /\ assigned[t] = v /\ class[t] = d /\ capacity[t] = Capacity(d)
                    /\ freeStack'[t] = <<>>
                    /\ slab'[v] # t
        <5>1. CASE t = s
          BY <1>2, <3>2, <4>3, <4>7, <4>8, <5>1, NullAssumption
        <5>2. CASE t # s
          BY <3>1, <4>5, <4>7, <4>8, <5>2, NullAssumption
        <5> QED BY <5>1, <5>2
      <4> QED BY <1>11, <3>2, <4>9, <4>10
    <3>3. CASE ~(v = w /\ d = c)
      <4>1. partial'[v][d] = partial[v][d] /\ full'[v][d] = full[v][d]
        BY <1>11, <3>3
      <4>2. \A t \in Elems(partial[v][d]) \cup Elems(full[v][d]) :
               t # s /\ freeStack'[t] = freeStack[t]
        BY <1>2, <1>8, <3>1, <3>3
      <4>3. \A t \in Elems(partial[v][d]) \cup Elems(full[v][d]) : 
                slab'[v] = t <=> slab[v] = t
        <5>1. CASE v = w
          <6>1. slab[w] = NULL_U32 \/ slab[w] = s
            BY DEF IInv, Places, Hands
          <6> QED BY <1>10, <3>1, <4>2, <5>1, <6>1, NullAssumption
        <5>2. CASE v # w
          BY <1>10, <5>2
        <5> QED BY <5>1, <5>2
      <4> QED BY <3>1, <4>1, <4>2, <4>3
    <3> QED BY <3>2, <3>3
  <2>3. Hands'
    <3> SUFFICES ASSUME NEW v \in Workers
                 PROVE
          /\ \A t \in held[v] : t \in Listed \/ slab'[v] = t
          /\ slab'[v] # NULL_U32 => slab'[v] \in held[v]
          /\ pc'[v] \in {"assign", "give"} => slab'[v] \in Slabs /\ slab'[v] \notin Listed
          /\ pc'[v] = "within" =>
                /\ slab'[v] \in Slabs
                /\ slab'[v] \in Elems(partial'[v][want'[v]])
                /\ Len(freeStack'[slab'[v]]) = Capacity(want'[v])
          /\ pc'[v] \notin {"assign", "within", "give", "dead"} => slab'[v] = NULL_U32
      BY <1>12 DEF Hands
    <3>1. CASE v = w
      <4>1. slab[w] = NULL_U32 \/ slab[w] = s
        BY DEF IInv, Places, Hands
      <4>2. \A t \in held[w] : t \in Listed
        <5> TAKE t \in held[w]
        <5>1. t \in Slabs /\ (t \in Listed \/ slab[w] = t)
          BY DEF IInv, Places, Hands, Types
        <5> QED BY <1>2, <4>1, <5>1, NullAssumption
      <4> QED BY <1>3, <1>9, <1>10, <3>1, <4>2
    <3>2. CASE v # w
      <4>1. slab'[v] = slab[v] /\ pc'[v] = pc[v] /\ want'[v] = want[v]
        BY <1>9, <1>10, <3>2 DEF Procs
      <4>2. /\ \A t \in held[v] : t \in Listed \/ slab[v] = t
            /\ slab[v] # NULL_U32 => slab[v] \in held[v]
            /\ pc[v] \in {"assign", "give"} => slab[v] \in Slabs /\ slab[v] \notin Listed
            /\ pc[v] = "within" =>
                  /\ slab[v] \in Slabs
                  /\ slab[v] \in Elems(partial[v][want[v]])
                  /\ Len(freeStack[slab[v]]) = Capacity(want[v])
            /\ pc[v] \notin {"assign", "within", "give", "dead"} => slab[v] = NULL_U32
        BY DEF IInv, Places, Hands
      <4>3. ASSUME pc[v] = "within"
            PROVE  /\ slab[v] \in Elems(partial'[v][want[v]])
                   /\ Len(freeStack'[slab[v]]) = Capacity(want[v])
        <5>1. want[v] \in Classes /\ slab[v] \in Slabs /\ slab[v] # s
          BY <1>2, <3>2, <4>2, <4>3, NullAssumption DEF IInv, Calls
        <5>2. freeStack'[slab[v]] = freeStack[slab[v]]
          BY <1>8, <5>1
        <5>3. partial'[v][want[v]] = partial[v][want[v]]
          BY <1>11, <3>2, <5>1
        <5> QED BY <4>2, <4>3, <5>2, <5>3
      <4> QED BY <4>1, <4>2, <4>3
    <3> QED BY <3>1, <3>2
  <2> QED BY <2>1, <2>2, <2>3 DEF Places
<1>15. Calls' /\ Cleans'
  <2>1. iter[w] = NoIter
    BY DEF IInv, Cleans
  <2>2. freeing[w] = NoFree
    BY <1>3 DEF IInv, Calls
  <2> QED BY <1>9, <2>1, <2>2 DEF IInv, Calls, Cleans, Procs, NoIter
<1>16. /\ \A t \in Slabs : FreeIn'[t] = IF t = s THEN FreeIn[s] \ {i} ELSE FreeIn[t]
       /\ \A t \in Slabs : LiveIn'[t] = IF t = s THEN LiveIn[s] \cup {i} ELSE LiveIn[t]
       /\ FreeingIn' = FreeingIn /\ RemoteIn' = RemoteIn /\ DrainedIn' = DrainedIn
  <2>1. ASSUME NEW t \in Slabs
        PROVE  FreeIn'[t] = IF t = s THEN FreeIn[s] \ {i} ELSE FreeIn[t]
    BY <1>5, <1>8 DEF FreeIn
  <2>2. ASSUME NEW t \in Slabs
        PROVE  LiveIn'[t] = IF t = s THEN LiveIn[s] \cup {i} ELSE LiveIn[t]
    <3>1. LiveIn'[t] = {IndexOf(b) : b \in {d \in live \cup {a} : d.slab = t}}
      BY <1>7 DEF LiveIn, IndexOf
    <3>2. LiveIn[t] = {IndexOf(b) : b \in {d \in live : d.slab = t}}
      BY DEF LiveIn
    <3> QED BY <1>7, <3>1, <3>2
  <2>3. FreeingIn' = FreeingIn
    BY DEF FreeingIn
  <2>4. RemoteIn' = RemoteIn
    BY <1>1 DEF RemoteIn
  <2>5. DrainedIn' = DrainedIn
    BY DEF DrainedIn
  <2> QED BY <2>1, <2>2, <2>3, <2>4, <2>5
<1>17. SlotPlace'
  <2>1. SlotsApart' /\ SlotsKept'
    <3>1. /\ FreeIn'[s] = FreeIn[s] \ {i} /\ LiveIn'[s] = LiveIn[s] \cup {i}
          /\ FreeingIn'[s] = FreeingIn[s] /\ RemoteIn'[s] = RemoteIn[s]
          /\ DrainedIn'[s] = DrainedIn[s]
      BY <1>2, <1>16
    <3>2. /\ FreeIn[s] \cap (LiveIn[s] \cup FreeingIn[s] \cup RemoteIn[s] \cup DrainedIn[s]) = {}
          /\ LiveIn[s] \cap (FreeingIn[s] \cup RemoteIn[s] \cup DrainedIn[s]) = {}
          /\ FreeingIn[s] \cap (RemoteIn[s] \cup DrainedIn[s]) = {}
          /\ RemoteIn[s] \cap DrainedIn[s] = {}
      BY <1>2 DEF IInv, SlotPlace, SlotsApart
    <3>3. /\ FreeIn[s] \subseteq 0 .. capacity[s] - 1
          /\ FreeIn[s] \cup LiveIn[s] \cup FreeingIn[s] \cup RemoteIn[s] \cup DrainedIn[s]
                = 0 .. Capacity(class[s]) - 1
      BY <1>2 DEF IInv, SlotPlace, SlotsKept
    <3>4. /\ FreeIn'[s] \cap (LiveIn'[s] \cup FreeingIn'[s] \cup RemoteIn'[s] \cup DrainedIn'[s]) = {}
          /\ LiveIn'[s] \cap (FreeingIn'[s] \cup RemoteIn'[s] \cup DrainedIn'[s]) = {}
          /\ FreeingIn'[s] \cap (RemoteIn'[s] \cup DrainedIn'[s]) = {}
          /\ RemoteIn'[s] \cap DrainedIn'[s] = {}
      BY <1>5, <3>1, <3>2
    <3>5. /\ FreeIn'[s] \subseteq 0 .. capacity'[s] - 1
          /\ FreeIn'[s] \cup LiveIn'[s] \cup FreeingIn'[s] \cup RemoteIn'[s] \cup DrainedIn'[s]
                = 0 .. Capacity(class'[s]) - 1
      <4>1. FreeIn'[s] \cup LiveIn'[s] = FreeIn[s] \cup LiveIn[s]
        BY <1>5, <3>1
      <4> QED BY <1>1, <3>1, <3>3, <4>1
    <3>6. s \in Listed'
      BY <1>2, <1>12
    <3>7. \A t \in Slabs : t # s =>
            /\ FreeIn'[t] = FreeIn[t] /\ LiveIn'[t] = LiveIn[t] /\ FreeingIn'[t] = FreeingIn[t]
            /\ RemoteIn'[t] = RemoteIn[t] /\ DrainedIn'[t] = DrainedIn[t]
            /\ (t \in Listed' <=> t \in Listed)
            /\ capacity'[t] = capacity[t] /\ class'[t] = class[t]
      BY <1>1, <1>12, <1>16
    <3> QED BY <1>2, <3>4, <3>5, <3>6, <3>7, SlotsElsewhere DEF IInv
  <2>2. SlotsOnce'
    BY <1>1, <1>5, <1>8 DEF IInv, SlotPlace, SlotsOnce
  <2>3. LiveSlots'
    <3> SUFFICES ASSUME NEW b \in live'
                 PROVE  /\ b.class = class[b.slab]
                        /\ b.offset = IndexOf(b) * SIZE_CLASSES[b.class]
                        /\ b.id = 0
      BY <1>1 DEF LiveSlots, IndexOf
    <3> QED BY <1>2, <1>7 DEF IInv, SlotPlace, LiveSlots, z
  <2>4. DrainedOwned'
    BY <1>1 DEF IInv, SlotPlace, DrainedOwned
  <2> QED BY <2>1, <2>2, <2>3, <2>4 DEF SlotPlace
<1>18. Walks'
  <2>1. iter[w] = NoIter
    BY DEF IInv, Cleans
  <2>2. ASSUME NEW v \in Workers, iter[v] # NoIter
        PROVE  /\ v # w /\ iter[v].class \in Classes
               /\ \A d \in Classes : partial'[v][d] = partial[v][d] /\ full'[v][d] = full[v][d]
    BY <1>11, <2>1, <2>2 DEF IInv, Cleans
  <2> QED BY <2>2 DEF IInv, Walks, ListOf, LocalList
<1> QED BY <1>13, <1>14, <1>15, <1>17, <1>18 DEF IInv


\* Both ways of allocating take an index off the free stack of the head of the
\* partial list.
LEMMA AllocateStep ==
  ASSUME IInv, NEW w \in Workers, AllocateTaken(w) \/ \E c \in Classes : AllocatePartial(w, c)
  PROVE  IInv'
<1>1. CASE AllocateTaken(w)
  <2>1. PICK c \in Classes : want[w] = c
    BY <1>1 DEF AllocateTaken, IInv, Calls
  <2>2. PICK s \in Elems(partial[w][c]) : slab[w] = s
    BY <1>1, <2>1 DEF AllocateTaken, IInv, Places, Hands
  <2>3. want \in [Workers -> {0} \cup Classes]
    BY DEF IInv, Types
  <2>4. /\ AllocateWithin(w, s, c)
        /\ pc[w] = "within" /\ slab[w] = s /\ want[w] = c
        /\ slab' = [slab EXCEPT ![w] = NULL_U32]
        /\ want' \in [Workers -> {0} \cup Classes]
        /\ \A v \in Workers : v # w => want'[v] = want[v]
        /\ UNCHANGED <<pool, held, freeing, iter>>
    BY <1>1, <2>1, <2>2, <2>3 DEF AllocateTaken, poolVars
  <2> QED BY <2>4, AllocateWithinStep
<1>2. ASSUME NEW c \in Classes, AllocatePartial(w, c) PROVE IInv'
  <2>1. partial[w][c] \in Seq(Slabs) /\ partial[w][c] # <<>>
    BY <1>2 DEF AllocatePartial, IInv, Types
  <2>2. PICK s \in Elems(partial[w][c]) : Head(partial[w][c]) = s
    BY <2>1, ElemsFacts
  <2>3. slab \in [Workers -> Slabs \cup {NULL_U32}] /\ want \in [Workers -> {0} \cup Classes]
    BY DEF IInv, Types
  <2>4. slab[w] = NULL_U32
    BY <1>2 DEF AllocatePartial, IInv, Places, Hands
  <2>5. /\ AllocateWithin(w, s, c)
        /\ pc[w] = "idle"
        /\ slab' = [slab EXCEPT ![w] = NULL_U32]
        /\ want' \in [Workers -> {0} \cup Classes]
        /\ \A v \in Workers : v # w => want'[v] = want[v]
        /\ UNCHANGED <<pool, held, freeing, iter>>
    BY <1>2, <2>2, <2>3, <2>4 DEF AllocatePartial, poolVars, callVars
  <2> QED BY <2>5, AllocateWithinStep
<1> QED BY <1>1, <1>2

-----------------------------------------------------------------------------
\* What returning an index does to the lists: a full slab becomes partial, an
\* empty one leaves the lists.
LEMMA MoveAfterFreeFacts ==
  ASSUME IInv, NEW w \in Workers, NEW c \in Classes,
         NEW s, s \in Elems(partial[w][c]) \/ s \in Elems(full[w][c]),
         MoveAfterFree(w, s, c)
  PROVE  /\ partial' \in [Workers -> [Classes -> Seq(Slabs)]]
         /\ full' \in [Workers -> [Classes -> Seq(Slabs)]]
         /\ \A v \in Workers, d \in Classes : ~(v = w /\ d = c) =>
               partial'[v][d] = partial[v][d] /\ full'[v][d] = full[v][d]
         /\ NoDup(partial'[w][c]) /\ NoDup(full'[w][c])
         /\ \/ /\ freeStack[s] = <<>> /\ ~Emptied(s)
               /\ Elems(partial'[w][c]) = Elems(partial[w][c]) \cup {s}
               /\ Elems(full'[w][c]) = Elems(full[w][c]) \ {s}
               /\ full'[w][c] = RemoveFrom(full[w][c], s)
            \/ /\ freeStack[s] # <<>> /\ Emptied(s)
               /\ Elems(partial'[w][c]) = Elems(partial[w][c]) \ {s}
               /\ partial'[w][c] = RemoveFrom(partial[w][c], s)
               /\ full'[w][c] = full[w][c]
            \/ /\ freeStack[s] # <<>> /\ ~Emptied(s)
               /\ partial'[w][c] = partial[w][c] /\ full'[w][c] = full[w][c]
<1>1. /\ partial \in [Workers -> [Classes -> Seq(Slabs)]]
      /\ full \in [Workers -> [Classes -> Seq(Slabs)]]
  BY DEF IInv, Types
<1>2. /\ partial[w][c] \in Seq(Slabs) /\ full[w][c] \in Seq(Slabs)
      /\ NoDup(partial[w][c]) /\ NoDup(full[w][c])
  BY <1>1 DEF IInv, Places, ListsTell
<1>3. /\ s \in Slabs /\ capacity[s] = Capacity(c)
      /\ (s \in Elems(partial[w][c]) <=> freeStack[s] # <<>>)
      /\ (s \in Elems(full[w][c]) <=> freeStack[s] = <<>>)
  <2>1. s \in Slabs /\ capacity[s] = Capacity(c)
    BY ListFacts
  <2>2. /\ (s \in Elems(partial[w][c]) <=> freeStack[s] # <<>>)
        /\ (s \in Elems(full[w][c]) <=> freeStack[s] = <<>>)
    BY ListFacts
  <2> QED BY <2>1, <2>2
<1>4. CASE freeStack[s] = <<>>
  <2>1. /\ full' = [full EXCEPT ![w][c] = RemoveFrom(full[w][c], s)]
        /\ partial' = [partial EXCEPT ![w][c] = <<s>> \o partial[w][c]]
    BY <1>4 DEF MoveAfterFree, PushOn
  <2>2. /\ RemoveFrom(full[w][c], s) \in Seq(Slabs) /\ NoDup(RemoveFrom(full[w][c], s))
        /\ Elems(RemoveFrom(full[w][c], s)) = Elems(full[w][c]) \ {s}
    BY <1>2, <1>3, <1>4, RemoveElems
  <2>3. /\ <<s>> \o partial[w][c] \in Seq(Slabs) /\ NoDup(<<s>> \o partial[w][c])
        /\ Elems(<<s>> \o partial[w][c]) = Elems(partial[w][c]) \cup {s}
    BY <1>2, <1>3, <1>4, PushElems
  <2>4. /\ full'[w][c] = RemoveFrom(full[w][c], s)
        /\ partial'[w][c] = <<s>> \o partial[w][c]
        /\ \A v \in Workers, d \in Classes : ~(v = w /\ d = c) =>
              partial'[v][d] = partial[v][d] /\ full'[v][d] = full[v][d]
    BY <1>1, <2>1
  <2>5. /\ partial' \in [Workers -> [Classes -> Seq(Slabs)]]
        /\ full' \in [Workers -> [Classes -> Seq(Slabs)]]
    BY <1>1, <2>1, <2>2, <2>3
  <2>6. ~Emptied(s)
    <3>1. Len(freeStack[s]) = 0
      BY <1>4
    <3>2. Capacity(c) \in Nat /\ Capacity(c) >= 2
      BY SizeFacts
    <3> QED BY <1>3, <3>1, <3>2 DEF Emptied
  <2> QED BY <1>4, <2>2, <2>3, <2>4, <2>5, <2>6
<1>5. CASE freeStack[s] # <<>> /\ Emptied(s)
  <2>1. partial' = [partial EXCEPT ![w][c] = RemoveFrom(partial[w][c], s)] /\ full' = full
    BY <1>5 DEF MoveAfterFree
  <2>2. /\ RemoveFrom(partial[w][c], s) \in Seq(Slabs) /\ NoDup(RemoveFrom(partial[w][c], s))
        /\ Elems(RemoveFrom(partial[w][c], s)) = Elems(partial[w][c]) \ {s}
    BY <1>2, <1>3, <1>5, RemoveElems
  <2>3. /\ partial'[w][c] = RemoveFrom(partial[w][c], s)
        /\ \A v \in Workers, d \in Classes : ~(v = w /\ d = c) => partial'[v][d] = partial[v][d]
    BY <1>1, <2>1
  <2>4. partial' \in [Workers -> [Classes -> Seq(Slabs)]]
    BY <1>1, <2>1, <2>2
  <2> QED BY <1>1, <1>2, <1>5, <2>1, <2>2, <2>3, <2>4
<1>6. CASE freeStack[s] # <<>> /\ ~Emptied(s)
  <2>1. partial' = partial /\ full' = full
    BY <1>6 DEF MoveAfterFree
  <2> QED BY <1>1, <1>2, <1>6, <2>1
<1> QED BY <1>4, <1>5, <1>6


\* An index that is not free goes to the free stack of a slab w owns; an empty
\* slab goes from the lists to w's hands.
LEMMA LocalFreePlaces ==
  ASSUME IInv, NEW w \in Workers, NEW c \in Classes,
         NEW s, s \in Elems(partial[w][c]) \/ s \in Elems(full[w][c]),
         NEW i \in 0 .. Capacity(c) - 1, i \notin FreeIn[s],
         NEW then \in {"idle", "drain"},
         pc[w] \in {"free_check", "drain"},
         LocalFree(w, s, c, i, then),
         UNCHANGED <<pool, held, want>>
  PROVE  /\ Places'
         /\ freeStack' \in [Slabs -> Seq(Nat)]
         /\ pc' \in [Procs -> PCs]
         /\ slab' \in [Workers -> Slabs \cup {NULL_U32}]
         /\ \A q \in Procs : q # w => pc'[q] = pc[q]
         /\ pc'[w] = IF Emptied(s) THEN "give" ELSE then
         /\ \A t \in Slabs : FreeIn'[t] = IF t = s THEN FreeIn[s] \cup {i} ELSE FreeIn[t]
         /\ \A t \in Slabs : NoDup(freeStack'[t])
         /\ \A t \in Slabs : t \in Listed' <=> t \in Listed /\ ~(t = s /\ Emptied(s))
         /\ Emptied(s) => FreeIn'[s] = 0 .. Capacity(c) - 1
<1>1. /\ freeStack' = [freeStack EXCEPT ![s] = <<i>> \o freeStack[s]]
      /\ MoveAfterFree(w, s, c)
      /\ slab' = [slab EXCEPT ![w] = IF Emptied(s) THEN s ELSE slab[w]]
      /\ pc' = [pc EXCEPT ![w] = IF Emptied(s) THEN "give" ELSE then]
      /\ UNCHANGED <<assigned, class, remote, capacity>>
  BY DEF LocalFree, Goto
<1>2. /\ s \in Slabs /\ s \in Listed /\ s \in held[w]
      /\ assigned[s] = w /\ class[s] = c /\ capacity[s] = Capacity(c)
      /\ \A v \in Workers : s \in held[v] => v = w
      /\ \A v \in Workers, d \in Classes :
            s \in Elems(partial[v][d]) \/ s \in Elems(full[v][d]) => v = w /\ d = c
      /\ (s \in Elems(partial[w][c]) <=> freeStack[s] # <<>>)
      /\ (s \in Elems(full[w][c]) <=> freeStack[s] = <<>>)
  <2>1. /\ s \in Slabs /\ s \in Listed /\ s \in held[w]
        /\ assigned[s] = w /\ class[s] = c /\ capacity[s] = Capacity(c)
    BY ListFacts
  <2>2. \A v \in Workers : s \in held[v] => v = w
    BY ListFacts
  <2>3. \A v \in Workers, d \in Classes :
           s \in Elems(partial[v][d]) \/ s \in Elems(full[v][d]) => v = w /\ d = c
    BY ListFacts
  <2>4. /\ (s \in Elems(partial[w][c]) <=> freeStack[s] # <<>>)
        /\ (s \in Elems(full[w][c]) <=> freeStack[s] = <<>>)
    BY ListFacts
  <2> QED BY <2>1, <2>2, <2>3, <2>4
<1>3. /\ freeStack \in [Slabs -> Seq(Nat)] /\ pc \in [Procs -> PCs] /\ w \in Procs
      /\ slab \in [Workers -> Slabs \cup {NULL_U32}]
      /\ slab[w] = NULL_U32
  BY DEF IInv, Types, Procs, Places, Hands
<1>4. Capacity(c) \in Nat /\ Capacity(c) >= 2 /\ i \in Nat
  BY SizeFacts
<1>5. /\ freeStack[s] \in Seq(Nat) /\ NoDup(freeStack[s])
      /\ FreeIn[s] = Elems(freeStack[s])
      /\ FreeIn[s] \subseteq 0 .. Capacity(c) - 1
  BY <1>2, <1>3 DEF IInv, SlotPlace, SlotsOnce, SlotsKept, FreeIn
<1>6. PICK stack \in Seq(Nat) :
         /\ stack = <<i>> \o freeStack[s] /\ NoDup(stack) /\ stack # <<>>
         /\ Elems(stack) = FreeIn[s] \cup {i}
         /\ Len(stack) = Len(freeStack[s]) + 1
  <2>1. /\ <<i>> \o freeStack[s] \in Seq(Nat) /\ NoDup(<<i>> \o freeStack[s])
        /\ <<i>> \o freeStack[s] # <<>>
        /\ Elems(<<i>> \o freeStack[s]) = FreeIn[s] \cup {i}
        /\ Len(<<i>> \o freeStack[s]) = Len(freeStack[s]) + 1
    BY <1>4, <1>5, PushElems
  <2> QED BY <2>1
<1>7. /\ freeStack' \in [Slabs -> Seq(Nat)]
      /\ \A t \in Slabs : freeStack'[t] = IF t = s THEN stack ELSE freeStack[t]
  BY <1>1, <1>2, <1>3, <1>6
<1>8. Emptied(s) <=> Len(stack) = Capacity(c)
  BY <1>2, <1>6 DEF Emptied
<1>9. /\ Len(stack) <= Capacity(c)
      /\ (Len(stack) = Capacity(c) => Elems(stack) = 0 .. Capacity(c) - 1)
  <2>1. Elems(stack) \subseteq 0 .. Capacity(c) - 1
    BY <1>5, <1>6
  <2> QED BY <1>4, <1>6, <2>1, FullStack
<1>10. \A t \in Slabs : FreeIn'[t] = IF t = s THEN FreeIn[s] \cup {i} ELSE FreeIn[t]
  BY <1>6, <1>7 DEF FreeIn
<1>11. \A t \in Slabs : NoDup(freeStack'[t])
  BY <1>6, <1>7 DEF IInv, SlotPlace, SlotsOnce
<1>12. /\ pc' \in [Procs -> PCs]
       /\ \A q \in Procs : pc'[q] = IF q = w THEN IF Emptied(s) THEN "give" ELSE then ELSE pc[q]
  BY <1>1, <1>3 DEF PCs
<1>13. /\ slab' \in [Workers -> Slabs \cup {NULL_U32}]
       /\ \A v \in Workers : v # w => slab'[v] = slab[v]
       /\ slab'[w] = IF Emptied(s) THEN s ELSE NULL_U32
  BY <1>1, <1>2, <1>3
<1>14. /\ partial' \in [Workers -> [Classes -> Seq(Slabs)]]
       /\ full' \in [Workers -> [Classes -> Seq(Slabs)]]
       /\ \A v \in Workers, d \in Classes : ~(v = w /\ d = c) =>
             partial'[v][d] = partial[v][d] /\ full'[v][d] = full[v][d]
       /\ NoDup(partial'[w][c]) /\ NoDup(full'[w][c])
       /\ \A t : t \in Elems(partial'[w][c]) <=>
             IF t = s THEN ~Emptied(s) ELSE t \in Elems(partial[w][c])
       /\ \A t : t \in Elems(full'[w][c]) <=> t # s /\ t \in Elems(full[w][c])
  <2>1. /\ partial' \in [Workers -> [Classes -> Seq(Slabs)]]
        /\ full' \in [Workers -> [Classes -> Seq(Slabs)]]
        /\ \A v \in Workers, d \in Classes : ~(v = w /\ d = c) =>
              partial'[v][d] = partial[v][d] /\ full'[v][d] = full[v][d]
        /\ NoDup(partial'[w][c]) /\ NoDup(full'[w][c])
    BY <1>1, MoveAfterFreeFacts
  <2>2. \/ /\ freeStack[s] = <<>> /\ ~Emptied(s)
           /\ Elems(partial'[w][c]) = Elems(partial[w][c]) \cup {s}
           /\ Elems(full'[w][c]) = Elems(full[w][c]) \ {s}
           /\ full'[w][c] = RemoveFrom(full[w][c], s)
        \/ /\ freeStack[s] # <<>> /\ Emptied(s)
           /\ Elems(partial'[w][c]) = Elems(partial[w][c]) \ {s}
           /\ partial'[w][c] = RemoveFrom(partial[w][c], s)
           /\ full'[w][c] = full[w][c]
        \/ /\ freeStack[s] # <<>> /\ ~Emptied(s)
           /\ partial'[w][c] = partial[w][c] /\ full'[w][c] = full[w][c]
    BY <1>1, MoveAfterFreeFacts
  <2>3. ASSUME NEW t
        PROVE  /\ t \in Elems(partial'[w][c]) <=>
                     IF t = s THEN ~Emptied(s) ELSE t \in Elems(partial[w][c])
               /\ t \in Elems(full'[w][c]) <=> t # s /\ t \in Elems(full[w][c])
    BY <1>2, <2>2
  <2> QED BY <2>1, <2>3
<1>15. \A t \in Slabs : t \in Listed' <=> t \in Listed /\ ~(t = s /\ Emptied(s))
  <2>1. ASSUME NEW t, NEW v \in Workers, NEW d \in Classes, t # s
        PROVE  t \in Elems(partial'[v][d]) \/ t \in Elems(full'[v][d])
                 <=> t \in Elems(partial[v][d]) \/ t \in Elems(full[v][d])
    BY <1>14, <2>1
  <2>2. ASSUME NEW v \in Workers, NEW d \in Classes
        PROVE  s \in Elems(partial'[v][d]) \/ s \in Elems(full'[v][d])
                 <=> v = w /\ d = c /\ ~Emptied(s)
    BY <1>2, <1>14
  <2>3. ASSUME NEW t \in Slabs, t # s PROVE t \in Listed' <=> t \in Listed
    BY <2>1, <2>3 DEF Listed
  <2>4. s \in Listed' <=> ~Emptied(s)
    BY <1>2, <2>2 DEF Listed
  <2> QED BY <1>2, <2>3, <2>4
<1>16. Places'
  <2>1. PoolOrHeld'
    BY DEF IInv, Places, PoolOrHeld
  <2>2. ListsTell'
    <3> SUFFICES ASSUME NEW v \in Workers, NEW d \in Classes
                 PROVE
          /\ NoDup(partial'[v][d]) /\ NoDup(full'[v][d])
          /\ \A t \in Elems(partial'[v][d]) :
                /\ t \in held[v] /\ assigned[t] = v /\ class[t] = d /\ capacity[t] = Capacity(d)
                /\ freeStack'[t] # <<>>
                /\ Len(freeStack'[t]) < Capacity(d) \/ slab'[v] = t
          /\ \A t \in Elems(full'[v][d]) :
                /\ t \in held[v] /\ assigned[t] = v /\ class[t] = d /\ capacity[t] = Capacity(d)
                /\ freeStack'[t] = <<>>
                /\ slab'[v] # t
      <4>1. UNCHANGED <<assigned, class, capacity, held>>
        BY <1>1
      <4> QED BY <4>1 DEF ListsTell
    <3>1. /\ NoDup(partial[v][d]) /\ NoDup(full[v][d])
          /\ \A t \in Elems(partial[v][d]) :
                /\ t \in Slabs
                /\ t \in held[v] /\ assigned[t] = v /\ class[t] = d /\ capacity[t] = Capacity(d)
                /\ freeStack[t] # <<>>
                /\ Len(freeStack[t]) < Capacity(d) \/ slab[v] = t
          /\ \A t \in Elems(full[v][d]) :
                /\ t \in Slabs
                /\ t \in held[v] /\ assigned[t] = v /\ class[t] = d /\ capacity[t] = Capacity(d)
                /\ freeStack[t] = <<>>
                /\ slab[v] # t
      BY ListEntries
    <3>2. CASE v = w /\ d = c
      <4>1. ASSUME NEW t \in Elems(partial'[v][d])
            PROVE  /\ t \in held[v] /\ assigned[t] = v /\ class[t] = d /\ capacity[t] = Capacity(d)
                   /\ freeStack'[t] # <<>>
                   /\ Len(freeStack'[t]) < Capacity(d) \/ slab'[v] = t
        <5>1. CASE t = s
          <6>1. Len(stack) < Capacity(c)
            <7>1. ~Emptied(s)
              BY <1>14, <3>2, <4>1, <5>1
            <7> QED BY <1>4, <1>6, <1>8, <1>9, <7>1, ElemsFacts
          <6> QED BY <1>2, <1>6, <1>7, <3>2, <5>1, <6>1
        <5>2. CASE t # s
          <6>1. t \in Elems(partial[v][d]) /\ t \in Slabs /\ slab[v] # t
            BY <1>3, <1>14, <3>1, <3>2, <4>1, <5>2, NullAssumption
          <6> QED BY <1>7, <3>1, <5>2, <6>1
        <5> QED BY <5>1, <5>2
      <4>2. ASSUME NEW t \in Elems(full'[v][d])
            PROVE  /\ t \in held[v] /\ assigned[t] = v /\ class[t] = d /\ capacity[t] = Capacity(d)
                   /\ freeStack'[t] = <<>>
                   /\ slab'[v] # t
        <5>1. t # s /\ t \in Elems(full[v][d]) /\ t \in Slabs
          BY <1>14, <3>1, <3>2, <4>2
        <5> QED BY <1>7, <1>13, <3>1, <3>2, <5>1, NullAssumption
      <4> QED BY <1>14, <3>2, <4>1, <4>2
    <3>3. CASE ~(v = w /\ d = c)
      <4>1. partial'[v][d] = partial[v][d] /\ full'[v][d] = full[v][d]
        BY <1>14, <3>3
      <4>2. \A t \in Elems(partial[v][d]) \cup Elems(full[v][d]) :
               t # s /\ freeStack'[t] = freeStack[t]
        BY <1>2, <1>7, <3>1, <3>3
      <4>3. \A t \in Elems(partial[v][d]) \cup Elems(full[v][d]) :
                slab'[v] = t <=> slab[v] = t
        BY <1>3, <1>13, <3>1, <4>2, NullAssumption
      <4> QED BY <3>1, <4>1, <4>2, <4>3
    <3> QED BY <3>2, <3>3
  <2>3. Hands'
    <3> SUFFICES ASSUME NEW v \in Workers
                 PROVE
          /\ \A t \in held[v] : t \in Listed' \/ slab'[v] = t
          /\ slab'[v] # NULL_U32 => slab'[v] \in held[v]
          /\ pc'[v] \in {"assign", "give"} => slab'[v] \in Slabs /\ slab'[v] \notin Listed'
          /\ pc'[v] = "within" =>
                /\ slab'[v] \in Slabs
                /\ slab'[v] \in Elems(partial'[v][want[v]])
                /\ Len(freeStack'[slab'[v]]) = Capacity(want[v])
          /\ pc'[v] \notin {"assign", "within", "give", "dead"} => slab'[v] = NULL_U32
      BY DEF Hands
    <3>1. /\ held[v] \subseteq Slabs
          /\ \A t \in held[v] : t \in Listed \/ slab[v] = t
          /\ slab[v] # NULL_U32 => slab[v] \in held[v]
          /\ pc[v] \in {"assign", "give"} => slab[v] \in Slabs /\ slab[v] \notin Listed
          /\ pc[v] = "within" =>
                /\ slab[v] \in Slabs
                /\ slab[v] \in Elems(partial[v][want[v]])
                /\ Len(freeStack[slab[v]]) = Capacity(want[v])
          /\ pc[v] \notin {"assign", "within", "give", "dead"} => slab[v] = NULL_U32
      BY DEF IInv, Places, Hands, Types
    <3>2. CASE v = w
      <4>1. \A t \in held[w] : t \in Listed
        BY <1>3, <3>1, <3>2, NullAssumption
      <4>2. pc'[w] = IF Emptied(s) THEN "give" ELSE then
        BY <1>3, <1>12
      <4>3. \A t \in held[w] : t \in Listed' \/ slab'[w] = t
        BY <1>13, <1>15, <3>1, <3>2, <4>1
      <4> QED BY <1>2, <1>13, <1>15, <3>2, <4>2, <4>3, NullAssumption
    <3>3. CASE v # w
      <4>1. slab'[v] = slab[v] /\ pc'[v] = pc[v]
        BY <1>12, <1>13, <3>3 DEF Procs
      <4>2. \A t \in held[v] : t # s
        BY <1>2, <3>3
      <4>3. ASSUME pc[v] = "within"
            PROVE  /\ slab[v] \in Elems(partial'[v][want[v]])
                   /\ Len(freeStack'[slab[v]]) = Capacity(want[v])
        <5>1. want[v] \in Classes /\ slab[v] \in Slabs /\ slab[v] # s
          BY <3>1, <4>2, <4>3, NullAssumption DEF IInv, Calls
        <5> QED BY <1>7, <1>14, <3>1, <3>3, <4>3, <5>1
      <4>4. \A t \in held[v] : t \in Listed' \/ slab[v] = t
        BY <1>15, <3>1, <4>2
      <4>5. \A t \in Slabs : t \notin Listed => t \notin Listed'
        BY <1>15
      <4> QED BY <3>1, <4>1, <4>3, <4>4, <4>5
    <3> QED BY <3>2, <3>3
  <2> QED BY <2>1, <2>2, <2>3 DEF Places
<1> QED BY <1>2, <1>3, <1>6, <1>7, <1>8, <1>9, <1>10, <1>11, <1>12, <1>13, <1>15, <1>16


\* What is in use belongs to a listed slab, at an index below its capacity,
\* and the slab's owner has it on its lists.
LEMMA UsedFacts ==
  ASSUME IInv, NEW s \in Slabs,
         NEW i \in LiveIn[s] \cup FreeingIn[s] \cup RemoteIn[s] \cup DrainedIn[s]
  PROVE  /\ s \in Listed
         /\ class[s] \in Classes /\ i \in 0 .. Capacity(class[s]) - 1 /\ i \notin FreeIn[s]
         /\ \A w \in Workers : assigned[s] = w =>
               s \in Elems(partial[w][class[s]]) \/ s \in Elems(full[w][class[s]])
<1>1. s \in Listed
  BY DEF IInv, SlotPlace, SlotsKept
<1>2. i \in 0 .. Capacity(class[s]) - 1 /\ i \notin FreeIn[s]
  BY <1>1 DEF IInv, SlotPlace, SlotsKept, SlotsApart
<1>3. PICK v \in Workers, c \in Classes : s \in Elems(partial[v][c]) \/ s \in Elems(full[v][c])
  BY <1>1 DEF Listed
<1>4. assigned[s] = v /\ class[s] = c
  BY <1>3, ListFacts
<1> QED BY <1>1, <1>2, <1>3, <1>4

\* A worker frees an index of its own slab.
LEMMA FreeLocalStep ==
  ASSUME IInv, NEW w \in Workers, FreeLocal(w)
  PROVE  IInv'
<1>1. PICK s \in Slabs : freeing[w].slab = s /\ assigned[s] = w
  BY DEF FreeLocal, OwnSlab, IInv, Calls, Procs
<1>2. PICK i \in Nat : freeing[w].index = i /\ i \in FreeingIn[s]
  BY <1>1, FreeingFacts DEF Procs
<1>3. PICK c \in Classes :
         /\ class[s] = c /\ s \in Listed /\ capacity[s] = Capacity(c)
         /\ i \in 0 .. Capacity(c) - 1 /\ i \notin FreeIn[s]
         /\ s \in Elems(partial[w][c]) \/ s \in Elems(full[w][c])
  <2>1. /\ class[s] \in Classes /\ s \in Listed
        /\ i \in 0 .. Capacity(class[s]) - 1 /\ i \notin FreeIn[s]
        /\ s \in Elems(partial[w][class[s]]) \/ s \in Elems(full[w][class[s]])
    BY <1>1, <1>2, UsedFacts
  <2>2. capacity[s] = Capacity(class[s])
    BY <2>1, ListFacts
  <2> QED BY <2>1, <2>2
<1>4. /\ LocalFree(w, s, c, i, "idle")
      /\ outstanding' = [outstanding EXCEPT ![w] = outstanding[w] - SIZE_CLASSES[c]]
      /\ freeing' = [freeing EXCEPT ![w] = NoFree]
      /\ pc[w] = "free_check"
      /\ UNCHANGED <<pool, held, live, want, iter>>
  BY <1>1, <1>2, <1>3 DEF FreeLocal, poolVars
<1>5. /\ UNCHANGED <<assigned, class, remote, capacity>>
      /\ MoveAfterFree(w, s, c)
  BY <1>4 DEF LocalFree
<1>6. /\ Places'
      /\ freeStack' \in [Slabs -> Seq(Nat)]
      /\ pc' \in [Procs -> PCs]
      /\ slab' \in [Workers -> Slabs \cup {NULL_U32}]
      /\ \A q \in Procs : q # w => pc'[q] = pc[q]
      /\ pc'[w] = IF Emptied(s) THEN "give" ELSE "idle"
      /\ \A t \in Slabs : FreeIn'[t] = IF t = s THEN FreeIn[s] \cup {i} ELSE FreeIn[t]
      /\ \A t \in Slabs : NoDup(freeStack'[t])
      /\ \A t \in Slabs : t \in Listed' <=> t \in Listed /\ ~(t = s /\ Emptied(s))
      /\ Emptied(s) => FreeIn'[s] = 0 .. Capacity(c) - 1
  BY <1>3, <1>4, LocalFreePlaces
<1>7. /\ partial' \in [Workers -> [Classes -> Seq(Slabs)]]
      /\ full' \in [Workers -> [Classes -> Seq(Slabs)]]
      /\ \A v \in Workers, d \in Classes : ~(v = w /\ d = c) =>
            partial'[v][d] = partial[v][d] /\ full'[v][d] = full[v][d]
  BY <1>3, <1>5, MoveAfterFreeFacts
<1>8. /\ freeing' \in [Procs -> [slab : Slabs \cup {NULL_U32}, offset : 0 .. SlabSize - 1,
                                 class : {0} \cup Classes, index : Nat]]
      /\ \A q \in Procs : freeing'[q] = IF q = w THEN NoFree ELSE freeing[q]
      /\ \A t \in Slabs : FreeingIn'[t] = IF t = s THEN FreeingIn[t] \ {i} ELSE FreeingIn[t]
  BY <1>1, <1>2, <1>4, FreedFacts DEF Procs
<1>9. Types'
  <2>1. outstanding' \in [Workers -> Int]
    <3>1. outstanding \in [Workers -> Int]
      BY DEF IInv, Types
    <3>2. SIZE_CLASSES[c] \in Nat
      BY SizeFacts
    <3>3. outstanding[w] - SIZE_CLASSES[c] \in Int
      BY <3>1, <3>2
    <3> QED BY <1>4, <3>1, <3>3
  <2> QED BY <1>4, <1>5, <1>6, <1>7, <1>8, <2>1 DEF IInv, Types
<1>10. Calls' /\ Cleans'
  <2>1. iter[w] = NoIter
    BY <1>4 DEF IInv, Cleans
  <2>2. pc'[w] \in {"give", "idle"} /\ w \in Procs /\ w \notin Freers
    BY <1>6 DEF Procs
  <2>3. \A q \in Procs : q # w => pc'[q] = pc[q] /\ freeing'[q] = freeing[q]
    BY <1>6, <1>8
  <2>4. Calls'
    BY <1>4, <1>8, <2>2, <2>3 DEF IInv, Calls, Procs
  <2>5. Cleans'
    BY <1>4, <2>1, <2>2, <2>3 DEF IInv, Cleans, Procs, NoIter
  <2> QED BY <2>4, <2>5
<1>11. LiveIn' = LiveIn /\ RemoteIn' = RemoteIn /\ DrainedIn' = DrainedIn
  <2>1. LiveIn' = LiveIn
    BY <1>4 DEF LiveIn
  <2>2. RemoteIn' = RemoteIn
    BY <1>5 DEF RemoteIn
  <2>3. DrainedIn' = DrainedIn
    BY <1>4 DEF DrainedIn
  <2> QED BY <2>1, <2>2, <2>3
<1>12. SlotPlace'
  <2>1. SlotsApart' /\ SlotsKept'
    <3>1. /\ FreeIn'[s] = FreeIn[s] \cup {i} /\ LiveIn'[s] = LiveIn[s]
          /\ FreeingIn'[s] = FreeingIn[s] \ {i} /\ RemoteIn'[s] = RemoteIn[s]
          /\ DrainedIn'[s] = DrainedIn[s]
      BY <1>6, <1>8, <1>11
    <3>2. /\ FreeIn[s] \cap (LiveIn[s] \cup FreeingIn[s] \cup RemoteIn[s] \cup DrainedIn[s]) = {}
          /\ LiveIn[s] \cap (FreeingIn[s] \cup RemoteIn[s] \cup DrainedIn[s]) = {}
          /\ FreeingIn[s] \cap (RemoteIn[s] \cup DrainedIn[s]) = {}
          /\ RemoteIn[s] \cap DrainedIn[s] = {}
      BY DEF IInv, SlotPlace, SlotsApart
    <3>3. /\ FreeIn[s] \subseteq 0 .. capacity[s] - 1
          /\ FreeIn[s] \cup LiveIn[s] \cup FreeingIn[s] \cup RemoteIn[s] \cup DrainedIn[s]
                = 0 .. Capacity(class[s]) - 1
      BY <1>3 DEF IInv, SlotPlace, SlotsKept
    <3>4. /\ FreeIn'[s] \cap (LiveIn'[s] \cup FreeingIn'[s] \cup RemoteIn'[s] \cup DrainedIn'[s]) = {}
          /\ LiveIn'[s] \cap (FreeingIn'[s] \cup RemoteIn'[s] \cup DrainedIn'[s]) = {}
          /\ FreeingIn'[s] \cap (RemoteIn'[s] \cup DrainedIn'[s]) = {}
          /\ RemoteIn'[s] \cap DrainedIn'[s] = {}
      BY <1>2, <3>1, <3>2
    <3>5. FreeIn'[s] \subseteq 0 .. capacity'[s] - 1
      <4>1. capacity'[s] = Capacity(c)
        BY <1>3, <1>5
      <4> QED BY <1>3, <3>1, <3>3, <4>1
    <3>6. FreeIn'[s] \cup LiveIn'[s] \cup FreeingIn'[s] \cup RemoteIn'[s] \cup DrainedIn'[s]
             = 0 .. Capacity(class'[s]) - 1
      <4>1. FreeIn'[s] \cup FreeingIn'[s] = FreeIn[s] \cup FreeingIn[s]
        BY <1>2, <3>1
      <4>2. class'[s] = class[s]
        BY <1>5
      <4> QED BY <3>1, <3>3, <4>1, <4>2
    <3>7. s \notin Listed' => LiveIn'[s] \cup FreeingIn'[s] \cup RemoteIn'[s] \cup DrainedIn'[s] = {}
      <4> SUFFICES ASSUME Emptied(s)
                   PROVE  LiveIn'[s] \cup FreeingIn'[s] \cup RemoteIn'[s] \cup DrainedIn'[s] = {}
        BY <1>3, <1>6
      <4>1. FreeIn'[s] = 0 .. Capacity(c) - 1 /\ class'[s] = c
        BY <1>3, <1>5, <1>6
      <4> QED BY <3>4, <3>6, <4>1
    <3>8. \A t \in Slabs : t # s =>
            /\ FreeIn'[t] = FreeIn[t] /\ LiveIn'[t] = LiveIn[t] /\ FreeingIn'[t] = FreeingIn[t]
            /\ RemoteIn'[t] = RemoteIn[t] /\ DrainedIn'[t] = DrainedIn[t]
            /\ (t \in Listed' <=> t \in Listed)
            /\ capacity'[t] = capacity[t] /\ class'[t] = class[t]
      BY <1>5, <1>6, <1>8, <1>11
    <3> QED BY <3>4, <3>5, <3>6, <3>7, <3>8, SlotsElsewhere DEF IInv
  <2>2. SlotsOnce'
    BY <1>4, <1>5, <1>6, <1>8 DEF IInv, SlotPlace, SlotsOnce, NoFree
  <2>3. LiveSlots' /\ DrainedOwned'
    BY <1>4, <1>5 DEF IInv, SlotPlace, LiveSlots, DrainedOwned, IndexOf
  <2> QED BY <2>1, <2>2, <2>3 DEF SlotPlace
<1>13. Walks'
  <2>1. iter[w] = NoIter
    BY <1>4 DEF IInv, Cleans
  <2>2. ASSUME NEW v \in Workers, iter[v] # NoIter
        PROVE  /\ v # w /\ iter[v].class \in Classes
               /\ \A d \in Classes : partial'[v][d] = partial[v][d] /\ full'[v][d] = full[v][d]
    BY <1>7, <2>1, <2>2 DEF IInv, Cleans
  <2> QED BY <1>4, <2>2 DEF IInv, Walks, ListOf, LocalList
<1> QED BY <1>6, <1>9, <1>10, <1>12, <1>13 DEF IInv


\* What is drained is in use, of a slab the drainer owns, and nobody else has
\* drained anything of that slab.
LEMMA DrainFacts ==
  ASSUME IInv, NEW w \in Workers, iter[w].drained # <<>>
  PROVE  /\ iter[w].slab \in Slabs
         /\ assigned[iter[w].slab] = w /\ class[iter[w].slab] = iter[w].class
         /\ iter[w].drained \in Seq(Nat) /\ NoDup(iter[w].drained)
         /\ DrainedIn[iter[w].slab] = Elems(iter[w].drained)
<1>1. iter[w] \in Iters
  BY DEF IInv, Types
<1>2. iter[w].slab \in Slabs
  BY <1>1 DEF IInv, Cleans, Iters
<1>3. assigned[iter[w].slab] = w /\ class[iter[w].slab] = iter[w].class
  BY DEF IInv, SlotPlace, DrainedOwned
<1>4. iter[w].drained \in Seq(Nat) /\ NoDup(iter[w].drained)
  BY <1>1 DEF IInv, SlotPlace, SlotsOnce, Iters
<1>5. ASSUME NEW v \in Workers, iter[v].slab = iter[w].slab, v # w
      PROVE  Elems(iter[v].drained) = {}
  <2>1. iter[v].drained = <<>>
    BY <1>3, <1>5 DEF IInv, SlotPlace, DrainedOwned
  <2> QED BY <2>1, EmptyElems
<1>6. DrainedIn[iter[w].slab] = Elems(iter[w].drained)
  BY <1>2, <1>5 DEF DrainedIn
<1> QED BY <1>2, <1>3, <1>4, <1>6

\* A drained index becomes free, on whichever list the clean walks.
LEMMA DrainIndexStep ==
  ASSUME IInv, NEW w \in Workers, DrainIndex(w)
  PROVE  IInv'
<1>1. PICK s \in Slabs, c \in Classes :
         /\ iter[w].slab = s /\ iter[w].class = c
         /\ assigned[s] = w /\ class[s] = c
         /\ iter[w].drained \in Seq(Nat) /\ NoDup(iter[w].drained) /\ iter[w].drained # <<>>
         /\ DrainedIn[s] = Elems(iter[w].drained)
         /\ iter[w] \in Iters /\ iter[w] # NoIter
  <2>1. iter[w].drained # <<>>
    BY DEF DrainIndex
  <2>2. iter[w] \in Iters /\ iter[w] # NoIter /\ iter[w].class \in Classes
    BY DEF DrainIndex, IInv, Types, Cleans
  <2> QED BY <2>1, <2>2, DrainFacts
<1>2. PICK i \in Nat, rest \in Seq(Nat) :
         /\ Head(iter[w].drained) = i /\ i \in DrainedIn[s]
         /\ Tail(iter[w].drained) = rest /\ NoDup(rest) /\ Elems(rest) = DrainedIn[s] \ {i}
  <2>1. /\ Head(iter[w].drained) \in Nat /\ Head(iter[w].drained) \in DrainedIn[s]
        /\ Tail(iter[w].drained) \in Seq(Nat) /\ NoDup(Tail(iter[w].drained))
        /\ Elems(Tail(iter[w].drained)) = DrainedIn[s] \ {Head(iter[w].drained)}
    BY <1>1, TailElems
  <2> QED BY <2>1
<1>3. /\ s \in Listed /\ capacity[s] = Capacity(c)
      /\ i \in 0 .. Capacity(c) - 1 /\ i \notin FreeIn[s]
      /\ s \in Elems(partial[w][c]) \/ s \in Elems(full[w][c])
  <2>1. /\ s \in Listed
        /\ i \in 0 .. Capacity(class[s]) - 1 /\ i \notin FreeIn[s]
        /\ s \in Elems(partial[w][class[s]]) \/ s \in Elems(full[w][class[s]])
    BY <1>1, <1>2, UsedFacts
  <2>2. capacity[s] = Capacity(c)
    BY <1>1, <2>1, ListFacts
  <2> QED BY <1>1, <2>1, <2>2
<1>4. /\ LocalFree(w, s, c, i, "drain")
      /\ iter' = [iter EXCEPT ![w].drained = Tail(@), ![w].count = @ + 1]
      /\ pc[w] = "drain"
      /\ UNCHANGED <<pool, held, outstanding, live, want, freeing>>
  BY <1>1, <1>2 DEF DrainIndex, poolVars
<1>5. /\ UNCHANGED <<assigned, class, remote, capacity>>
      /\ MoveAfterFree(w, s, c)
  BY <1>4 DEF LocalFree
<1>6. /\ Places'
      /\ freeStack' \in [Slabs -> Seq(Nat)]
      /\ pc' \in [Procs -> PCs]
      /\ slab' \in [Workers -> Slabs \cup {NULL_U32}]
      /\ \A q \in Procs : q # w => pc'[q] = pc[q]
      /\ pc'[w] = IF Emptied(s) THEN "give" ELSE "drain"
      /\ \A t \in Slabs : FreeIn'[t] = IF t = s THEN FreeIn[s] \cup {i} ELSE FreeIn[t]
      /\ \A t \in Slabs : NoDup(freeStack'[t])
      /\ \A t \in Slabs : t \in Listed' <=> t \in Listed /\ ~(t = s /\ Emptied(s))
      /\ Emptied(s) => FreeIn'[s] = 0 .. Capacity(c) - 1
  BY <1>3, <1>4, LocalFreePlaces
<1>7. /\ partial' \in [Workers -> [Classes -> Seq(Slabs)]]
      /\ full' \in [Workers -> [Classes -> Seq(Slabs)]]
      /\ \A v \in Workers, d \in Classes : ~(v = w /\ d = c) =>
            partial'[v][d] = partial[v][d] /\ full'[v][d] = full[v][d]
  BY <1>3, <1>5, MoveAfterFreeFacts
<1>8. /\ iter' \in [Workers -> Iters]
      /\ \A v \in Workers : v # w => iter'[v] = iter[v]
      /\ iter'[w].class = c /\ iter'[w].list = iter[w].list
      /\ iter'[w].cursor = iter[w].cursor /\ iter'[w].slab = s
      /\ iter'[w].drained = rest /\ iter'[w].visited = iter[w].visited
      /\ iter'[w] # NoIter
  <2>1. iter \in [Workers -> Iters]
    BY DEF IInv, Types
  <2>2. iter' = [iter EXCEPT ![w] = [iter[w] EXCEPT !.drained = rest, !.count = iter[w].count + 1]]
    BY <1>1, <1>2, <1>4, <2>1 DEF Iters
  <2>3. [iter[w] EXCEPT !.drained = rest, !.count = iter[w].count + 1] \in Iters
    <3>1. ASSUME NEW it \in Iters, NEW q \in Seq(Nat)
          PROVE  [it EXCEPT !.drained = q, !.count = it.count + 1] \in Iters
      <4>1. it.count + 1 \in Nat
        BY DEF Iters
      <4> QED BY <4>1 DEF Iters
    <3> QED BY <1>1, <1>2, <3>1
  <2>4. /\ iter' \in [Workers -> Iters]
        /\ \A v \in Workers : v # w => iter'[v] = iter[v]
        /\ iter'[w] = [iter[w] EXCEPT !.drained = rest, !.count = iter[w].count + 1]
    BY <2>1, <2>2, <2>3
  <2>5. /\ iter'[w].class = c /\ iter'[w].list = iter[w].list
        /\ iter'[w].cursor = iter[w].cursor /\ iter'[w].slab = s
        /\ iter'[w].drained = rest /\ iter'[w].visited = iter[w].visited
    BY <1>1, <2>4 DEF Iters
  <2>6. NoIter.class = 0 /\ c # 0
    BY DEF NoIter, Classes
  <2> QED BY <2>4, <2>5, <2>6
<1>9. Types'
  BY <1>4, <1>5, <1>6, <1>7, <1>8 DEF IInv, Types
<1>10. Calls' /\ Cleans'
  <2>1. pc'[w] \in {"give", "drain"} /\ w \in Procs /\ w \notin Freers
    BY <1>6 DEF Procs
  <2>2. Calls'
    BY <1>4, <1>6, <2>1 DEF IInv, Calls, Procs
  <2>3. Cleans'
    <3>1. iter[w].list \in {"partial", "full"} /\ s # NULL_U32
      BY <1>1, NullAssumption DEF IInv, Cleans
    <3>2. ASSUME NEW v \in Workers
          PROVE
            /\ iter'[v] # NoIter => iter'[v].class \in Classes /\ iter'[v].list \in {"partial", "full"}
            /\ pc'[v] \notin {"clean_next", "drain", "give", "dead"} => iter'[v] = NoIter
            /\ pc'[v] \in {"clean_next", "drain"} => iter'[v] # NoIter
            /\ pc'[v] = "clean_next" => iter'[v].slab = NULL_U32
            /\ pc'[v] = "drain" => iter'[v].slab \in Slabs
            /\ pc'[v] = "give" /\ iter'[v] # NoIter => iter'[v].slab \in Slabs
            /\ iter'[v].slab = NULL_U32 => iter'[v].drained = <<>>
      <4>1. CASE v = w
        BY <1>8, <2>1, <3>1, <4>1
      <4>2. CASE v # w
        <5>1. iter'[v] = iter[v] /\ pc'[v] = pc[v]
          BY <1>6, <1>8, <4>2 DEF Procs
        <5> QED BY <5>1 DEF IInv, Cleans
      <4> QED BY <4>1, <4>2
    <3> QED BY <3>2 DEF Cleans
  <2> QED BY <2>2, <2>3
<1>11. /\ \A t \in Slabs : DrainedIn'[t] = IF t = s THEN DrainedIn[s] \ {i} ELSE DrainedIn[t]
       /\ LiveIn' = LiveIn /\ RemoteIn' = RemoteIn /\ FreeingIn' = FreeingIn
  <2>1. LiveIn' = LiveIn
    BY <1>4 DEF LiveIn
  <2>2. RemoteIn' = RemoteIn
    BY <1>5 DEF RemoteIn
  <2>3. FreeingIn' = FreeingIn
    BY <1>4 DEF FreeingIn
  <2>4. ASSUME NEW t \in Slabs, t # s PROVE DrainedIn'[t] = DrainedIn[t]
    <3>1. \A v \in Workers : iter'[v].slab = t <=> iter[v].slab = t
      BY <1>1, <1>8, <2>4
    <3>2. \A v \in Workers : iter[v].slab = t => iter'[v].drained = iter[v].drained
      BY <1>1, <1>8, <2>4
    <3>3. DrainedIn'[t] = UNION {Elems(iter'[v].drained) : v \in {u \in Workers : iter'[u].slab = t}}
      BY DEF DrainedIn
    <3>4. DrainedIn[t] = UNION {Elems(iter[v].drained) : v \in {u \in Workers : iter[u].slab = t}}
      BY DEF DrainedIn
    <3> QED BY <3>1, <3>2, <3>3, <3>4
  <2>5. DrainedIn'[s] = Elems(rest)
    <3>1. ASSUME NEW v \in Workers, iter'[v].slab = s, v # w PROVE Elems(iter'[v].drained) = {}
      <4>1. iter'[v] = iter[v]
        BY <1>8, <3>1
      <4>2. iter[v].drained = <<>>
        BY <1>1, <3>1, <4>1 DEF IInv, SlotPlace, DrainedOwned
      <4> QED BY <4>1, <4>2, EmptyElems
    <3>2. DrainedIn'[s] = UNION {Elems(iter'[v].drained) : v \in {u \in Workers : iter'[u].slab = s}}
      BY DEF DrainedIn
    <3>3. w \in {u \in Workers : iter'[u].slab = s}
      BY <1>8
    <3>4. ASSUME NEW x \in DrainedIn'[s] PROVE x \in Elems(rest)
      <4>1. PICK v \in Workers : iter'[v].slab = s /\ x \in Elems(iter'[v].drained)
        BY <3>2
      <4>2. v = w
        BY <3>1, <4>1
      <4> QED BY <1>8, <4>1, <4>2
    <3>5. Elems(rest) \subseteq DrainedIn'[s]
      BY <1>8, <3>2, <3>3
    <3> QED BY <3>4, <3>5
  <2> QED BY <1>2, <2>1, <2>2, <2>3, <2>4, <2>5
<1>12. SlotPlace'
  <2>1. SlotsApart' /\ SlotsKept'
    <3>1. /\ FreeIn'[s] = FreeIn[s] \cup {i} /\ LiveIn'[s] = LiveIn[s]
          /\ FreeingIn'[s] = FreeingIn[s] /\ RemoteIn'[s] = RemoteIn[s]
          /\ DrainedIn'[s] = DrainedIn[s] \ {i}
      BY <1>6, <1>11
    <3>2. /\ FreeIn[s] \cap (LiveIn[s] \cup FreeingIn[s] \cup RemoteIn[s] \cup DrainedIn[s]) = {}
          /\ LiveIn[s] \cap (FreeingIn[s] \cup RemoteIn[s] \cup DrainedIn[s]) = {}
          /\ FreeingIn[s] \cap (RemoteIn[s] \cup DrainedIn[s]) = {}
          /\ RemoteIn[s] \cap DrainedIn[s] = {}
      BY DEF IInv, SlotPlace, SlotsApart
    <3>3. /\ FreeIn[s] \subseteq 0 .. capacity[s] - 1
          /\ FreeIn[s] \cup LiveIn[s] \cup FreeingIn[s] \cup RemoteIn[s] \cup DrainedIn[s]
                = 0 .. Capacity(class[s]) - 1
      BY <1>3 DEF IInv, SlotPlace, SlotsKept
    <3>4. /\ FreeIn'[s] \cap (LiveIn'[s] \cup FreeingIn'[s] \cup RemoteIn'[s] \cup DrainedIn'[s]) = {}
          /\ LiveIn'[s] \cap (FreeingIn'[s] \cup RemoteIn'[s] \cup DrainedIn'[s]) = {}
          /\ FreeingIn'[s] \cap (RemoteIn'[s] \cup DrainedIn'[s]) = {}
          /\ RemoteIn'[s] \cap DrainedIn'[s] = {}
      BY <1>2, <3>1, <3>2
    <3>5. FreeIn'[s] \subseteq 0 .. capacity'[s] - 1
      <4>1. capacity'[s] = Capacity(c)
        BY <1>3, <1>5
      <4> QED BY <1>3, <3>1, <3>3, <4>1
    <3>6. FreeIn'[s] \cup LiveIn'[s] \cup FreeingIn'[s] \cup RemoteIn'[s] \cup DrainedIn'[s]
             = 0 .. Capacity(class'[s]) - 1
      <4>1. FreeIn'[s] \cup DrainedIn'[s] = FreeIn[s] \cup DrainedIn[s]
        BY <1>2, <3>1
      <4>2. class'[s] = class[s]
        BY <1>5
      <4> QED BY <3>1, <3>3, <4>1, <4>2
    <3>7. s \notin Listed' => LiveIn'[s] \cup FreeingIn'[s] \cup RemoteIn'[s] \cup DrainedIn'[s] = {}
      <4> SUFFICES ASSUME Emptied(s)
                   PROVE  LiveIn'[s] \cup FreeingIn'[s] \cup RemoteIn'[s] \cup DrainedIn'[s] = {}
        BY <1>3, <1>6
      <4>1. FreeIn'[s] = 0 .. Capacity(c) - 1 /\ class'[s] = c
        BY <1>1, <1>5, <1>6
      <4> QED BY <3>4, <3>6, <4>1
    <3>8. \A t \in Slabs : t # s =>
            /\ FreeIn'[t] = FreeIn[t] /\ LiveIn'[t] = LiveIn[t] /\ FreeingIn'[t] = FreeingIn[t]
            /\ RemoteIn'[t] = RemoteIn[t] /\ DrainedIn'[t] = DrainedIn[t]
            /\ (t \in Listed' <=> t \in Listed)
            /\ capacity'[t] = capacity[t] /\ class'[t] = class[t]
      BY <1>5, <1>6, <1>11
    <3> QED BY <3>4, <3>5, <3>6, <3>7, <3>8, SlotsElsewhere DEF IInv
  <2>2. SlotsOnce'
    <3>1. SlotsOnce
      BY DEF IInv, SlotPlace
    <3>2. ASSUME NEW v \in Workers PROVE NoDup(iter'[v].drained)
      <4>1. CASE v = w
        BY <1>2, <1>8, <4>1
      <4>2. CASE v # w
        BY <1>8, <3>1, <4>2 DEF SlotsOnce
      <4> QED BY <4>1, <4>2
    <3>3. remote' = remote /\ freeing' = freeing
      BY <1>4, <1>5
    <3>4. \A t \in Slabs : NoDup(freeStack'[t]) /\ NoDup(remote'[t])
      BY <1>6, <3>1, <3>3 DEF SlotsOnce
    <3> QED BY <3>1, <3>2, <3>3, <3>4 DEF SlotsOnce
  <2>3. LiveSlots'
    BY <1>4, <1>5 DEF IInv, SlotPlace, LiveSlots, IndexOf
  <2>4. DrainedOwned'
    BY <1>1, <1>5, <1>8 DEF IInv, SlotPlace, DrainedOwned
  <2> QED BY <2>1, <2>2, <2>3, <2>4 DEF SlotPlace
<1>13. Walks'
  <2>1. /\ \A d \in Classes : d < c =>
              Elems(partial[w][d]) \cup Elems(full[w][d]) \subseteq iter[w].visited
        /\ \A d \in Classes : d > c =>
              (Elems(partial[w][d]) \cup Elems(full[w][d])) \cap iter[w].visited = {}
        /\ iter[w].list = "full" => Elems(partial[w][c]) \subseteq iter[w].visited
        /\ iter[w].list = "partial" => Elems(full[w][c]) \cap iter[w].visited = {}
        /\ iter[w].list = "partial" => Walking(partial[w][c], iter[w].cursor, iter[w].visited)
        /\ iter[w].list = "full" => Walking(full[w][c], iter[w].cursor, iter[w].visited)
        /\ s \in iter[w].visited
        /\ iter[w].list \in {"partial", "full"}
    BY <1>1, NullAssumption DEF IInv, Walks, ListOf, LocalList, Cleans
  <2>2. /\ partial[w][c] \in Seq(Slabs) /\ full[w][c] \in Seq(Slabs)
        /\ NoDup(partial[w][c]) /\ NoDup(full[w][c])
    BY DEF IInv, Types, Places, ListsTell
  <2>3. \/ /\ freeStack[s] = <<>> /\ ~Emptied(s)
           /\ Elems(partial'[w][c]) = Elems(partial[w][c]) \cup {s}
           /\ Elems(full'[w][c]) = Elems(full[w][c]) \ {s}
           /\ full'[w][c] = RemoveFrom(full[w][c], s)
        \/ /\ freeStack[s] # <<>> /\ Emptied(s)
           /\ Elems(partial'[w][c]) = Elems(partial[w][c]) \ {s}
           /\ partial'[w][c] = RemoveFrom(partial[w][c], s)
           /\ full'[w][c] = full[w][c]
        \/ /\ freeStack[s] # <<>> /\ ~Emptied(s)
           /\ partial'[w][c] = partial[w][c] /\ full'[w][c] = full[w][c]
    BY <1>3, <1>5, MoveAfterFreeFacts
  <2>4. /\ (s \in Elems(partial[w][c]) <=> freeStack[s] # <<>>)
        /\ (s \in Elems(full[w][c]) <=> freeStack[s] = <<>>)
    BY <1>3, ListFacts
  <2>5. /\ iter[w].list = "full" => Elems(partial'[w][c]) \subseteq iter[w].visited
        /\ iter[w].list = "partial" => Elems(full'[w][c]) \cap iter[w].visited = {}
    BY <2>1, <2>3, <2>4
  <2>6. iter[w].list = "partial" => Walking(partial'[w][c], iter[w].cursor, iter[w].visited)
    <3> SUFFICES ASSUME iter[w].list = "partial"
                 PROVE  Walking(partial'[w][c], iter[w].cursor, iter[w].visited)
      OBVIOUS
    <3>1. s \in Elems(partial[w][c]) \cap iter[w].visited
      BY <1>3, <2>1
    <3>2. Walking(RemoveFrom(partial[w][c], s), iter[w].cursor, iter[w].visited)
      BY <2>1, <2>2, <3>1, WalkRemove
    <3> QED BY <2>1, <2>3, <2>4, <3>1, <3>2
  <2>7. iter[w].list = "full" => Walking(full'[w][c], iter[w].cursor, iter[w].visited)
    <3> SUFFICES ASSUME iter[w].list = "full"
                 PROVE  Walking(full'[w][c], iter[w].cursor, iter[w].visited)
      OBVIOUS
    <3>1. CASE freeStack[s] = <<>>
      <4>1. s \in Elems(full[w][c]) \cap iter[w].visited
        BY <2>1, <2>4, <3>1
      <4>2. Walking(RemoveFrom(full[w][c], s), iter[w].cursor, iter[w].visited)
        BY <2>1, <2>2, <4>1, WalkRemove
      <4> QED BY <2>3, <3>1, <4>2
    <3>2. CASE freeStack[s] # <<>>
      BY <2>1, <2>3, <3>2
    <3> QED BY <3>1, <3>2
  <2> SUFFICES ASSUME NEW v \in Workers, iter'[v] # NoIter
               PROVE
        /\ \A d \in Classes : d < iter'[v].class =>
              Elems(partial'[v][d]) \cup Elems(full'[v][d]) \subseteq iter'[v].visited
        /\ \A d \in Classes : d > iter'[v].class =>
              (Elems(partial'[v][d]) \cup Elems(full'[v][d])) \cap iter'[v].visited = {}
        /\ iter'[v].list = "full" => Elems(partial'[v][iter'[v].class]) \subseteq iter'[v].visited
        /\ iter'[v].list = "partial" => Elems(full'[v][iter'[v].class]) \cap iter'[v].visited = {}
        /\ Walking(ListOf(v)', iter'[v].cursor, iter'[v].visited)
        /\ iter'[v].slab # NULL_U32 => iter'[v].slab \in iter'[v].visited
    BY DEF Walks, Walking
  <2>8. CASE v = w
    <3>1. ListOf(v)' = IF iter[w].list = "partial" THEN partial'[w][c] ELSE full'[w][c]
      BY <1>8, <2>8 DEF ListOf, LocalList
    <3>2. Walking(ListOf(v)', iter'[v].cursor, iter'[v].visited)
      BY <1>8, <2>1, <2>6, <2>7, <2>8, <3>1
    <3>3. \A d \in Classes : d # c => partial'[w][d] = partial[w][d] /\ full'[w][d] = full[w][d]
      BY <1>7
    <3>4. c \in Nat
      BY DEF Classes
    <3> QED BY <1>8, <2>1, <2>5, <2>8, <3>2, <3>3, <3>4
  <2>9. CASE v # w
    <3>1. iter'[v] = iter[v] /\ iter[v].class \in Classes
      BY <1>8, <2>9 DEF IInv, Cleans
    <3>2. \A d \in Classes : partial'[v][d] = partial[v][d] /\ full'[v][d] = full[v][d]
      BY <1>7, <2>9
    <3>3. ListOf(v)' = ListOf(v)
      BY <3>1, <3>2 DEF ListOf, LocalList
    <3> QED BY <3>1, <3>2, <3>3 DEF IInv, Walks
  <2> QED BY <2>8, <2>9
<1> QED BY <1>6, <1>9, <1>10, <1>12, <1>13 DEF IInv


-----------------------------------------------------------------------------
\* Steps of a clean that move only the iterator.
LEMMA IterStep ==
  ASSUME IInv, NEW w \in Workers, NEW label \in {"idle", "clean_next"},
         pc[w] \in {"idle", "clean_next", "drain"},
         pc' = [pc EXCEPT ![w] = label],
         iter' \in [Workers -> Iters],
         \A v \in Workers : v # w => iter'[v] = iter[v],
         outstanding' \in [Workers -> Int],
         UNCHANGED <<pool, held, assigned, class, remote, freeStack, capacity, partial, full,
                     live, slab, want, freeing>>,
         iter[w].drained = <<>> /\ iter'[w].drained = <<>>,
         label = "idle" => iter'[w] = NoIter,
         label = "clean_next" =>
            /\ iter'[w] # NoIter
            /\ iter'[w].class \in Classes /\ iter'[w].list \in {"partial", "full"}
            /\ iter'[w].slab = NULL_U32
            /\ \A c \in Classes : c < iter'[w].class =>
                  Elems(partial[w][c]) \cup Elems(full[w][c]) \subseteq iter'[w].visited
            /\ \A c \in Classes : c > iter'[w].class =>
                  (Elems(partial[w][c]) \cup Elems(full[w][c])) \cap iter'[w].visited = {}
            /\ iter'[w].list = "full" => Elems(partial[w][iter'[w].class]) \subseteq iter'[w].visited
            /\ iter'[w].list = "partial" => Elems(full[w][iter'[w].class]) \cap iter'[w].visited = {}
            /\ Walking(LocalList(w, iter'[w].list, iter'[w].class), iter'[w].cursor, iter'[w].visited)
  PROVE  IInv'
<1>1. pc \in [Procs -> PCs] /\ w \in Procs
  BY DEF IInv, Types, Procs
<1>2. /\ pc' \in [Procs -> PCs]
      /\ \A q \in Procs : pc'[q] = IF q = w THEN label ELSE pc[q]
  BY <1>1 DEF PCs
<1>3. Types'
  BY <1>2 DEF IInv, Types
<1>4. Listed' = Listed
  BY DEF Listed
<1>5. Places'
  <2>1. PoolOrHeld'
    BY DEF IInv, Places, PoolOrHeld
  <2>2. ListsTell'
    BY DEF IInv, Places, ListsTell
  <2>3. Hands'
    BY <1>2, <1>4 DEF IInv, Places, Hands, Procs
  <2> QED BY <2>1, <2>2, <2>3 DEF Places
<1>6. Calls'
  BY <1>2 DEF IInv, Calls, Procs
<1>7. Cleans'
  <2>1. ASSUME NEW v \in Workers
        PROVE
          /\ iter'[v] # NoIter => iter'[v].class \in Classes /\ iter'[v].list \in {"partial", "full"}
          /\ pc'[v] \notin {"clean_next", "drain", "give", "dead"} => iter'[v] = NoIter
          /\ pc'[v] \in {"clean_next", "drain"} => iter'[v] # NoIter
          /\ pc'[v] = "clean_next" => iter'[v].slab = NULL_U32
          /\ pc'[v] = "drain" => iter'[v].slab \in Slabs
          /\ pc'[v] = "give" /\ iter'[v] # NoIter => iter'[v].slab \in Slabs
          /\ iter'[v].slab = NULL_U32 => iter'[v].drained = <<>>
    <3>1. CASE v = w
      BY <1>1, <1>2, <3>1
    <3>2. CASE v # w
      <4>1. iter'[v] = iter[v] /\ pc'[v] = pc[v]
        BY <1>2, <3>2 DEF Procs
      <4> QED BY <4>1 DEF IInv, Cleans
    <3> QED BY <3>1, <3>2
  <2> QED BY <2>1 DEF Cleans
<1>8. SlotPlace'
  <2>1. SameDrained
    BY DEF SameDrained
  <2> QED BY <1>4, <2>1, SlotFrame DEF IInv
<1>9. Walks'
  <2> SUFFICES ASSUME NEW v \in Workers, iter'[v] # NoIter
               PROVE
        /\ \A d \in Classes : d < iter'[v].class =>
              Elems(partial[v][d]) \cup Elems(full[v][d]) \subseteq iter'[v].visited
        /\ \A d \in Classes : d > iter'[v].class =>
              (Elems(partial[v][d]) \cup Elems(full[v][d])) \cap iter'[v].visited = {}
        /\ iter'[v].list = "full" => Elems(partial[v][iter'[v].class]) \subseteq iter'[v].visited
        /\ iter'[v].list = "partial" => Elems(full[v][iter'[v].class]) \cap iter'[v].visited = {}
        /\ Walking(LocalList(v, iter'[v].list, iter'[v].class), iter'[v].cursor, iter'[v].visited)
        /\ iter'[v].slab # NULL_U32 => iter'[v].slab \in iter'[v].visited
    BY DEF Walks, Walking, ListOf, LocalList
  <2>1. CASE v = w
    BY <2>1
  <2>2. CASE v # w
    BY <2>2 DEF IInv, Walks, ListOf
  <2> QED BY <2>1, <2>2
<1> QED BY <1>3, <1>5, <1>6, <1>7, <1>8, <1>9 DEF IInv


\* The iterator on the head of a list.
LEMMA StartFacts ==
  ASSUME IInv, NEW w \in Workers, NEW c \in Classes, NEW kind \in {"partial", "full"},
         NEW visited \in SUBSET Slabs, StartOn(w, [class |-> c, list |-> kind], visited)
  PROVE  /\ iter' \in [Workers -> Iters]
         /\ \A v \in Workers : v # w => iter'[v] = iter[v]
         /\ iter'[w].class = c /\ iter'[w].list = kind /\ iter'[w].visited = visited
         /\ iter'[w].cursor = HeadOf(LocalList(w, kind, c))
         /\ iter'[w].slab = NULL_U32 /\ iter'[w].drained = <<>> /\ iter'[w] # NoIter
<1> DEFINE first == HeadOf(LocalList(w, kind, c))
           start == [NoIter EXCEPT !.class = c, !.list = kind, !.visited = visited,
                                   !.cursor = first]
<1>1. iter' = [iter EXCEPT ![w] = start]
  BY Zenon DEF StartOn
<1>2. first \in Slabs \cup {NULL_U32}
  <2>1. LocalList(w, kind, c) \in Seq(Slabs)
    BY DEF IInv, Types, LocalList
  <2> QED BY <2>1, ElemsFacts DEF HeadOf
<1> HIDE DEF first
<1>3. /\ start \in Iters
      /\ start.class = c /\ start.list = kind /\ start.visited = visited
      /\ start.cursor = first
      /\ start.slab = NULL_U32 /\ start.drained = <<>>
  <2>1. start.class = c /\ start.list = kind /\ start.visited = visited /\ start.cursor = first
    BY DEF NoIter
  <2>2. start.slab = NULL_U32 /\ start.drained = <<>>
    BY DEF NoIter
  <2>3. NoIter \in [class : {0} \cup Classes, list : {"none", "partial", "full"},
                    cursor : Slabs \cup {NULL_U32}, slab : Slabs \cup {NULL_U32}, size : Nat,
                    drained : Seq(Nat), count : Nat, visited : SUBSET Slabs]
    BY DEF NoIter
  <2>4. start \in Iters
    BY <1>2, <2>3 DEF Iters
  <2> QED BY <2>1, <2>2, <2>4
<1>4. start # NoIter
  BY <1>3 DEF NoIter
<1> HIDE DEF start
<1>5. iter \in [Workers -> Iters]
  BY DEF IInv, Types
<1> QED BY <1>1, <1>3, <1>4, <1>5 DEF first

\* A clean starts at the first partial list that is not empty, with nothing visited.
LEMMA CleanCallStep ==
  ASSUME IInv, NEW w \in Workers, CleanCall(w)
  PROVE  IInv'
<1>1. 1 \in Classes /\ iter[w] = NoIter /\ partial[w][1] \in Seq(Slabs)
  <2>1. iter[w] = NoIter
    BY DEF CleanCall, IInv, Cleans
  <2> QED BY <2>1, FirstClass DEF IInv, Types
<1>2. StartOn(w, [class |-> 1, list |-> "partial"], {})
  BY DEF CleanCall, FirstList, Order
<1>3. /\ iter' \in [Workers -> Iters]
      /\ \A v \in Workers : v # w => iter'[v] = iter[v]
      /\ iter'[w].class = 1 /\ iter'[w].list = "partial" /\ iter'[w].visited = {}
      /\ iter'[w].cursor = HeadOf(LocalList(w, "partial", 1))
      /\ iter'[w].slab = NULL_U32 /\ iter'[w].drained = <<>> /\ iter'[w] # NoIter
  <2>1. {} \in SUBSET Slabs /\ "partial" \in {"partial", "full"}
    OBVIOUS
  <2> QED BY <1>1, <1>2, <2>1, StartFacts, ZenonT(40)
<1>4. Walking(partial[w][1], iter'[w].cursor, iter'[w].visited)
  BY <1>1, <1>3, WalkStart DEF LocalList
<1>5. /\ pc[w] = "idle" /\ pc' = [pc EXCEPT ![w] = "clean_next"]
      /\ UNCHANGED <<pool, held, assigned, class, remote, freeStack, capacity, partial, full,
                     outstanding, live, slab, want, freeing>>
  BY DEF CleanCall, Goto, poolVars, slabVars, listVars
<1>6. outstanding' \in [Workers -> Int]
  BY <1>5 DEF IInv, Types
<1>7. iter[w].drained = <<>>
  BY <1>1 DEF NoIter
<1>8. \A c \in Classes : c \in Nat /\ ~(c < 1)
  BY DEF Classes
<1>9. /\ \A c \in Classes : c < iter'[w].class =>
            Elems(partial[w][c]) \cup Elems(full[w][c]) \subseteq iter'[w].visited
      /\ \A c \in Classes : c > iter'[w].class =>
            (Elems(partial[w][c]) \cup Elems(full[w][c])) \cap iter'[w].visited = {}
      /\ iter'[w].list = "full" => Elems(partial[w][iter'[w].class]) \subseteq iter'[w].visited
      /\ iter'[w].list = "partial" => Elems(full[w][iter'[w].class]) \cap iter'[w].visited = {}
      /\ Walking(LocalList(w, iter'[w].list, iter'[w].class), iter'[w].cursor, iter'[w].visited)
  BY <1>3, <1>4, <1>8 DEF LocalList
<1> QED BY <1>1, <1>3, <1>5, <1>6, <1>7, <1>9, IterStep

\* What IInv says of a clean between two slabs.
LEMMA CleanFacts ==
  ASSUME IInv, NEW w \in Workers, pc[w] = "clean_next"
  PROVE  /\ iter[w] \in Iters /\ iter[w] # NoIter
         /\ iter[w].class \in Classes /\ iter[w].list \in {"partial", "full"}
         /\ iter[w].slab = NULL_U32 /\ iter[w].drained = <<>>
         /\ ListOf(w) \in Seq(Slabs) /\ NoDup(ListOf(w))
         /\ ListOf(w) = IF iter[w].list = "partial"
                        THEN partial[w][iter[w].class] ELSE full[w][iter[w].class]
         /\ \A c \in Classes : c < iter[w].class =>
               Elems(partial[w][c]) \cup Elems(full[w][c]) \subseteq iter[w].visited
         /\ \A c \in Classes : c > iter[w].class =>
               (Elems(partial[w][c]) \cup Elems(full[w][c])) \cap iter[w].visited = {}
         /\ iter[w].list = "full" => Elems(partial[w][iter[w].class]) \subseteq iter[w].visited
         /\ iter[w].list = "partial" => Elems(full[w][iter[w].class]) \cap iter[w].visited = {}
         /\ Walking(ListOf(w), iter[w].cursor, iter[w].visited)
<1>1. /\ iter[w] \in Iters /\ iter[w] # NoIter
      /\ iter[w].class \in Classes /\ iter[w].list \in {"partial", "full"}
      /\ iter[w].slab = NULL_U32 /\ iter[w].drained = <<>>
  BY DEF IInv, Types, Cleans
<1>2. ListOf(w) = IF iter[w].list = "partial"
                  THEN partial[w][iter[w].class] ELSE full[w][iter[w].class]
  BY DEF ListOf, LocalList
<1>3. ListOf(w) \in Seq(Slabs) /\ NoDup(ListOf(w))
  BY <1>1, <1>2 DEF IInv, Types, Places, ListsTell
<1> QED BY <1>1, <1>2, <1>3 DEF IInv, Walks

\* A list is done: all of it has been visited, and nothing of the next.
LEMMA CleanListStep ==
  ASSUME IInv, NEW w \in Workers, CleanList(w)
  PROVE  IInv'
<1> DEFINE n == iter[w].class
           kind == iter[w].list
           seen == iter[w].visited
<1>1. /\ pc[w] = "clean_next" /\ iter[w].cursor = NULL_U32
      /\ UNCHANGED <<pool, held, assigned, class, remote, freeStack, capacity, partial, full,
                     outstanding, live, slab, want, freeing>>
  BY DEF CleanList, poolVars, slabVars, listVars
<1>2. /\ n \in Classes /\ kind \in {"partial", "full"} /\ seen \in SUBSET Slabs
      /\ iter[w].drained = <<>>
      /\ \A c \in Classes : c < n => Elems(partial[w][c]) \cup Elems(full[w][c]) \subseteq seen
      /\ \A c \in Classes : c > n => (Elems(partial[w][c]) \cup Elems(full[w][c])) \cap seen = {}
      /\ kind = "full" => Elems(partial[w][n]) \subseteq seen
      /\ kind = "partial" => Elems(full[w][n]) \cap seen = {}
      /\ Elems(IF kind = "partial" THEN partial[w][n] ELSE full[w][n]) \subseteq seen
  BY <1>1, CleanFacts DEF Walking, Iters
<1>3. /\ pc \in [Procs -> PCs] /\ iter \in [Workers -> Iters] /\ outstanding \in [Workers -> Int]
      /\ partial \in [Workers -> [Classes -> Seq(Slabs)]]
      /\ full \in [Workers -> [Classes -> Seq(Slabs)]]
  BY DEF IInv, Types
<1>4. CASE [class |-> n, list |-> kind] = LastList
  <2>1. iter' = [iter EXCEPT ![w] = NoIter] /\ pc' = [pc EXCEPT ![w] = "idle"]
    BY <1>4 DEF CleanList, Goto
  <2>2. NoIter \in Iters /\ NoIter.drained = <<>>
    BY DEF NoIter, Iters
  <2>3. /\ iter' \in [Workers -> Iters] /\ iter'[w] = NoIter
        /\ \A v \in Workers : v # w => iter'[v] = iter[v]
    BY <1>3, <2>1, <2>2
  <2> QED BY <1>1, <1>2, <1>3, <2>1, <2>2, <2>3, IterStep
<1>5. CASE [class |-> n, list |-> kind] # LastList
  <2>1. PICK c \in Classes, next \in {"partial", "full"} :
           /\ StartOn(w, [class |-> c, list |-> next], seen)
           /\ \/ kind = "partial" /\ c = n /\ next = "full"
              \/ kind = "full" /\ c = n + 1 /\ next = "partial"
    <3>1. StartOn(w, NextList([class |-> n, list |-> kind]), seen)
      BY <1>5 DEF CleanList
    <3>2. CASE kind = "partial"
      BY <1>2, <3>1, <3>2 DEF NextList, Order
    <3>3. CASE kind = "full"
      <4>1. n # Len(SIZE_CLASSES)
        BY <1>5, <3>3 DEF LastList, Order
      <4>2. n + 1 \in Classes /\ NextList([class |-> n, list |-> kind])
                                    = [class |-> n + 1, list |-> "partial"]
        BY <1>2, <3>3, <4>1, SizesAssumption, LenProperties DEF NextList, Order, Classes
      <4> QED BY <3>1, <3>3, <4>2
    <3> QED BY <1>2, <3>2, <3>3
  <2>2. /\ iter' \in [Workers -> Iters]
        /\ \A v \in Workers : v # w => iter'[v] = iter[v]
        /\ iter'[w].class = c /\ iter'[w].list = next /\ iter'[w].visited = seen
        /\ iter'[w].cursor = HeadOf(LocalList(w, next, c))
        /\ iter'[w].slab = NULL_U32 /\ iter'[w].drained = <<>> /\ iter'[w] # NoIter
    <3>1. seen \in SUBSET Slabs /\ StartOn(w, [class |-> c, list |-> next], seen)
      BY <1>2, <2>1
    <3> HIDE DEF n, kind, seen
    <3>2. iter' \in [Workers -> Iters] /\ \A v \in Workers : v # w => iter'[v] = iter[v]
      BY <3>1, StartFacts, Zenon
    <3>3. /\ iter'[w].class = c /\ iter'[w].list = next /\ iter'[w].visited = seen
          /\ iter'[w].cursor = HeadOf(LocalList(w, next, c))
          /\ iter'[w].slab = NULL_U32 /\ iter'[w].drained = <<>> /\ iter'[w] # NoIter
      BY <3>1, StartFacts, Zenon
    <3> QED BY <3>2, <3>3
  <2>3. pc' = [pc EXCEPT ![w] = "clean_next"]
    BY <1>1, <1>3, <1>5 DEF CleanList
  <2>4. \A d \in Classes : d \in Nat
    BY DEF Classes
  <2>5. \A d \in Classes : d < c => Elems(partial[w][d]) \cup Elems(full[w][d]) \subseteq seen
    <3> SUFFICES ASSUME NEW d \in Classes, d < c
                 PROVE  Elems(partial[w][d]) \cup Elems(full[w][d]) \subseteq seen
      OBVIOUS
    <3>1. CASE d < n
      BY <1>2, <3>1
    <3>2. CASE ~(d < n)
      <4>1. d = n /\ kind = "full"
        BY <1>2, <2>1, <2>4, <3>2
      <4> QED BY <1>2, <4>1
    <3> QED BY <3>1, <3>2
  <2>6. \A d \in Classes : d > c => (Elems(partial[w][d]) \cup Elems(full[w][d])) \cap seen = {}
    BY <1>2, <2>1, <2>4
  <2>7. next = "full" => Elems(partial[w][c]) \subseteq seen
    BY <1>2, <2>1
  <2>8. next = "partial" => Elems(full[w][c]) \cap seen = {}
    BY <1>2, <2>1, <2>4
  <2>9. Walking(LocalList(w, next, c), HeadOf(LocalList(w, next, c)), seen)
    <3>1. LocalList(w, next, c) \in Seq(Slabs)
      BY <1>3 DEF LocalList
    <3>2. Elems(LocalList(w, next, c)) \cap seen = {}
      BY <1>2, <2>1, <2>4 DEF LocalList
    <3> QED BY <3>1, <3>2, WalkStart
  <2>10. outstanding' \in [Workers -> Int]
    BY <1>1, <1>3
  <2> HIDE DEF n, kind, seen
  <2>11. /\ \A d \in Classes : d < iter'[w].class =>
               Elems(partial[w][d]) \cup Elems(full[w][d]) \subseteq iter'[w].visited
         /\ \A d \in Classes : d > iter'[w].class =>
               (Elems(partial[w][d]) \cup Elems(full[w][d])) \cap iter'[w].visited = {}
         /\ iter'[w].list = "full" => Elems(partial[w][iter'[w].class]) \subseteq iter'[w].visited
         /\ iter'[w].list = "partial" => Elems(full[w][iter'[w].class]) \cap iter'[w].visited = {}
         /\ Walking(LocalList(w, iter'[w].list, iter'[w].class), iter'[w].cursor, iter'[w].visited)
    BY <2>2, <2>5, <2>6, <2>7, <2>8, <2>9
  <2> QED BY <1>1, <1>2, <2>2, <2>3, <2>10, <2>11, IterStep
<1> QED BY <1>4, <1>5

\* What was drained from a slab has all been freed.
LEMMA DrainDoneStep ==
  ASSUME IInv, NEW w \in Workers, DrainDone(w)
  PROVE  IInv'
<1>1. /\ pc[w] = "drain" /\ iter[w].drained = <<>>
      /\ outstanding' = [outstanding EXCEPT ![w] = @ - DrainedBytes(w)]
      /\ iter' = [iter EXCEPT ![w] = [iter[w] EXCEPT !.slab = NULL_U32, !.size = 0, !.count = 0]]
      /\ pc' = [pc EXCEPT ![w] = "clean_next"]
      /\ UNCHANGED <<pool, held, assigned, class, remote, freeStack, capacity, partial, full,
                     live, slab, want, freeing>>
  BY DEF DrainDone, Goto, poolVars, slabVars, listVars
<1>2. /\ iter \in [Workers -> Iters] /\ outstanding \in [Workers -> Int]
      /\ iter[w] # NoIter
      /\ iter[w].class \in Classes /\ iter[w].list \in {"partial", "full"}
  BY <1>1 DEF IInv, Types, Cleans
<1>3. [iter[w] EXCEPT !.slab = NULL_U32, !.size = 0, !.count = 0] \in Iters
  <2>1. ASSUME NEW it \in Iters
        PROVE  [it EXCEPT !.slab = NULL_U32, !.size = 0, !.count = 0] \in Iters
    BY DEF Iters
  <2> QED BY <1>2, <2>1
<1>4. /\ iter' \in [Workers -> Iters]
      /\ \A v \in Workers : v # w => iter'[v] = iter[v]
      /\ iter'[w] = [iter[w] EXCEPT !.slab = NULL_U32, !.size = 0, !.count = 0]
  BY <1>1, <1>2, <1>3
<1>5. /\ iter'[w].class = iter[w].class /\ iter'[w].list = iter[w].list
      /\ iter'[w].cursor = iter[w].cursor /\ iter'[w].visited = iter[w].visited
      /\ iter'[w].slab = NULL_U32 /\ iter'[w].drained = <<>>
  BY <1>1, <1>2, <1>4 DEF Iters
<1>6. iter'[w] # NoIter
  BY <1>2, <1>5 DEF NoIter, Classes
<1>7. outstanding' \in [Workers -> Int]
  <2>1. ASSUME NEW a \in Nat, NEW b \in Nat PROVE a * b \in Int
    BY SMT
  <2>2. DrainedBytes(w) \in Int
    BY <1>2, <2>1 DEF DrainedBytes, Iters
  <2> QED BY <1>1, <1>2, <2>2
<1>8. /\ \A c \in Classes : c < iter'[w].class =>
            Elems(partial[w][c]) \cup Elems(full[w][c]) \subseteq iter'[w].visited
      /\ \A c \in Classes : c > iter'[w].class =>
            (Elems(partial[w][c]) \cup Elems(full[w][c])) \cap iter'[w].visited = {}
      /\ iter'[w].list = "full" => Elems(partial[w][iter'[w].class]) \subseteq iter'[w].visited
      /\ iter'[w].list = "partial" => Elems(full[w][iter'[w].class]) \cap iter'[w].visited = {}
      /\ Walking(LocalList(w, iter'[w].list, iter'[w].class), iter'[w].cursor, iter'[w].visited)
  BY <1>2, <1>5 DEF IInv, Walks, ListOf
<1> QED BY <1>1, <1>2, <1>4, <1>5, <1>6, <1>7, <1>8, IterStep


\* The iterator moves past a slab, and what was freed to it remotely is drained.
LEMMA CleanSlabStep ==
  ASSUME IInv, NEW w \in Workers, CleanSlab(w)
  PROVE  IInv'
<1>1. /\ pc[w] = "clean_next" /\ iter[w].cursor # NULL_U32
      /\ pc' = [pc EXCEPT ![w] = "drain"]
      /\ remote' = [remote EXCEPT ![iter[w].cursor] = <<>>]
      /\ UNCHANGED <<pool, held, assigned, class, freeStack, capacity, partial, full,
                     outstanding, live, slab, want, freeing>>
  BY DEF CleanSlab, Drain, Goto, poolVars, listVars
<1>2. PICK s \in Slabs, c \in Classes, kind \in {"partial", "full"}, seen \in SUBSET Slabs :
         /\ iter[w].cursor = s /\ iter[w].class = c /\ iter[w].list = kind
         /\ iter[w].visited = seen
  <2>1. /\ iter[w] \in Iters /\ iter[w].class \in Classes /\ iter[w].list \in {"partial", "full"}
    BY <1>1, CleanFacts
  <2>2. iter[w].cursor \in Slabs /\ iter[w].visited \in SUBSET Slabs
    BY <1>1, <2>1 DEF Iters
  <2> QED BY <2>1, <2>2
<1>3. /\ iter[w] \in Iters /\ iter[w].slab = NULL_U32 /\ iter[w].drained = <<>>
      /\ ListOf(w) \in Seq(Slabs) /\ NoDup(ListOf(w))
      /\ ListOf(w) = IF kind = "partial" THEN partial[w][c] ELSE full[w][c]
      /\ \A d \in Classes : d < c => Elems(partial[w][d]) \cup Elems(full[w][d]) \subseteq seen
      /\ \A d \in Classes : d > c => (Elems(partial[w][d]) \cup Elems(full[w][d])) \cap seen = {}
      /\ kind = "full" => Elems(partial[w][c]) \subseteq seen
      /\ kind = "partial" => Elems(full[w][c]) \cap seen = {}
      /\ Walking(ListOf(w), s, seen)
  BY <1>1, <1>2, CleanFacts
<1>4. /\ s \in Elems(ListOf(w)) \ seen
      /\ After(ListOf(w), s) \in Slabs \cup {NULL_U32}
      /\ Walking(ListOf(w), After(ListOf(w), s), seen \cup {s})
  BY <1>3, WalkNext
<1>5. /\ assigned[s] = w /\ class[s] = c /\ s \in Listed
      /\ \A d \in Classes :
            s \in Elems(partial[w][d]) \/ s \in Elems(full[w][d]) => d = c
      /\ kind = "partial" => s \notin Elems(full[w][c])
  <2>1. s \in Elems(partial[w][c]) \/ s \in Elems(full[w][c])
    BY <1>3, <1>4
  <2>2. assigned[s] = w /\ class[s] = c /\ s \in Listed
    BY <2>1, ListFacts
  <2>3. \A d \in Classes : s \in Elems(partial[w][d]) \/ s \in Elems(full[w][d]) => d = c
    BY <2>1, ListFacts
  <2>4. /\ (s \in Elems(partial[w][c]) <=> freeStack[s] # <<>>)
        /\ (s \in Elems(full[w][c]) <=> freeStack[s] = <<>>)
    BY <2>1, ListFacts
  <2> QED BY <1>3, <1>4, <2>2, <2>3, <2>4
<1>6. /\ pc \in [Procs -> PCs] /\ remote \in [Slabs -> Seq(Nat)] /\ w \in Procs
      /\ iter \in [Workers -> Iters]
  BY DEF IInv, Types, Procs
<1>7. /\ pc' \in [Procs -> PCs]
      /\ \A q \in Procs : pc'[q] = IF q = w THEN "drain" ELSE pc[q]
  BY <1>1, <1>6 DEF PCs
<1>8. /\ remote' \in [Slabs -> Seq(Nat)]
      /\ \A t \in Slabs : remote'[t] = IF t = s THEN <<>> ELSE remote[t]
  BY <1>1, <1>2, <1>6
<1>9. /\ iter' \in [Workers -> Iters]
      /\ \A v \in Workers : v # w => iter'[v] = iter[v]
      /\ iter'[w].class = c /\ iter'[w].list = kind
      /\ iter'[w].cursor = After(ListOf(w), s) /\ iter'[w].slab = s
      /\ iter'[w].drained = remote[s] /\ iter'[w].visited = seen \cup {s}
      /\ iter'[w] # NoIter
  <2> DEFINE z == SIZE_CLASSES[class[s]]
             next == After(ListOf(w), s)
             indices == remote[s]
             step(it) == [it EXCEPT !.cursor = next, !.slab = s, !.size = z,
                                    !.drained = indices, !.visited = it.visited \cup {s}]
  <2>1. iter' = [iter EXCEPT ![w] = step(iter[w])]
    BY <1>2, <1>3, <1>6 DEF CleanSlab, Iters
  <2>2. z \in Nat /\ next \in Slabs \cup {NULL_U32} /\ indices \in Seq(Nat)
    BY <1>4, <1>5, <1>6, SizeFacts
  <2> HIDE DEF z, next, indices
  <2>3. ASSUME NEW it \in Iters PROVE step(it) \in Iters
    <3>1. it.visited \cup {s} \in SUBSET Slabs
      BY DEF Iters
    <3> QED BY <2>2, <3>1 DEF Iters
  <2>4. ASSUME NEW it \in Iters
        PROVE  /\ step(it).class = it.class /\ step(it).list = it.list
               /\ step(it).cursor = next /\ step(it).slab = s
               /\ step(it).drained = indices /\ step(it).visited = it.visited \cup {s}
    BY DEF Iters
  <2> HIDE DEF step
  <2>5. /\ iter' \in [Workers -> Iters]
        /\ \A v \in Workers : v # w => iter'[v] = iter[v]
        /\ iter'[w] = step(iter[w])
    BY <1>3, <1>6, <2>1, <2>3
  <2>6. /\ iter'[w].class = c /\ iter'[w].list = kind
        /\ iter'[w].cursor = next /\ iter'[w].slab = s
        /\ iter'[w].drained = indices /\ iter'[w].visited = seen \cup {s}
    BY <1>2, <1>3, <2>4, <2>5
  <2>7. iter'[w] # NoIter
    BY <2>6 DEF NoIter
  <2> QED BY <2>5, <2>6, <2>7 DEF next, indices
<1>10. Types'
  BY <1>1, <1>7, <1>8, <1>9 DEF IInv, Types
<1>11. Listed' = Listed
  BY <1>1 DEF Listed
<1>12. Places'
  <2>1. PoolOrHeld' /\ ListsTell'
    BY <1>1 DEF IInv, Places, PoolOrHeld, ListsTell
  <2>2. Hands'
    BY <1>1, <1>7, <1>11 DEF IInv, Places, Hands, Procs
  <2> QED BY <2>1, <2>2 DEF Places
<1>13. Calls'
  BY <1>1, <1>7 DEF IInv, Calls, Procs
<1>14. Cleans'
  <2>1. ASSUME NEW v \in Workers
        PROVE
          /\ iter'[v] # NoIter => iter'[v].class \in Classes /\ iter'[v].list \in {"partial", "full"}
          /\ pc'[v] \notin {"clean_next", "drain", "give", "dead"} => iter'[v] = NoIter
          /\ pc'[v] \in {"clean_next", "drain"} => iter'[v] # NoIter
          /\ pc'[v] = "clean_next" => iter'[v].slab = NULL_U32
          /\ pc'[v] = "drain" => iter'[v].slab \in Slabs
          /\ pc'[v] = "give" /\ iter'[v] # NoIter => iter'[v].slab \in Slabs
          /\ iter'[v].slab = NULL_U32 => iter'[v].drained = <<>>
    <3>1. CASE v = w
      BY <1>6, <1>7, <1>9, <3>1, NullAssumption
    <3>2. CASE v # w
      <4>1. iter'[v] = iter[v] /\ pc'[v] = pc[v]
        BY <1>7, <1>9, <3>2 DEF Procs
      <4> QED BY <4>1 DEF IInv, Cleans
    <3> QED BY <3>1, <3>2
  <2> QED BY <2>1 DEF Cleans
<1>15. /\ \A t \in Slabs : RemoteIn'[t] = IF t = s THEN {} ELSE RemoteIn[t]
       /\ \A t \in Slabs : DrainedIn'[t] = IF t = s THEN RemoteIn[s] ELSE DrainedIn[t]
       /\ DrainedIn[s] = {}
       /\ FreeIn' = FreeIn /\ LiveIn' = LiveIn /\ FreeingIn' = FreeingIn
  <2>1. ASSUME NEW t \in Slabs PROVE RemoteIn'[t] = IF t = s THEN {} ELSE RemoteIn[t]
    BY <1>8, EmptyElems DEF RemoteIn
  <2>2. ASSUME NEW t \in Slabs, t # s PROVE DrainedIn'[t] = DrainedIn[t]
    <3>1. \A v \in Workers : iter'[v].slab = t <=> iter[v].slab = t
      BY <1>3, <1>9, <2>2, NullAssumption
    <3>2. \A v \in Workers : iter[v].slab = t => iter'[v].drained = iter[v].drained
      BY <1>3, <1>9, <2>2, NullAssumption
    <3>3. DrainedIn'[t] = UNION {Elems(iter'[v].drained) : v \in {u \in Workers : iter'[u].slab = t}}
      BY DEF DrainedIn
    <3>4. DrainedIn[t] = UNION {Elems(iter[v].drained) : v \in {u \in Workers : iter[u].slab = t}}
      BY DEF DrainedIn
    <3> QED BY <3>1, <3>2, <3>3, <3>4
  <2>3. ASSUME NEW v \in Workers, iter[v].slab = s PROVE Elems(iter[v].drained) = {} /\ v # w
    <3>1. v # w
      BY <1>3, <2>3, NullAssumption
    <3>2. iter[v].drained = <<>>
      BY <1>5, <2>3, <3>1 DEF IInv, SlotPlace, DrainedOwned
    <3> QED BY <3>1, <3>2, EmptyElems
  <2>4. DrainedIn[s] = {}
    BY <2>3 DEF DrainedIn
  <2>5. DrainedIn'[s] = RemoteIn[s]
    <3>1. ASSUME NEW v \in Workers, iter'[v].slab = s, v # w PROVE Elems(iter'[v].drained) = {}
      <4>1. iter'[v] = iter[v]
        BY <1>9, <3>1
      <4> QED BY <2>3, <3>1, <4>1
    <3>2. DrainedIn'[s] = UNION {Elems(iter'[v].drained) : v \in {u \in Workers : iter'[u].slab = s}}
      BY DEF DrainedIn
    <3>3. w \in {u \in Workers : iter'[u].slab = s} /\ Elems(iter'[w].drained) = RemoteIn[s]
      BY <1>9 DEF RemoteIn
    <3>4. \A x : x \in DrainedIn'[s] <=> x \in RemoteIn[s]
      BY <3>1, <3>2, <3>3
    <3> QED BY <3>4
  <2>6. FreeIn' = FreeIn
    BY <1>1 DEF FreeIn
  <2>7. LiveIn' = LiveIn
    BY <1>1 DEF LiveIn
  <2>8. FreeingIn' = FreeingIn
    BY <1>1 DEF FreeingIn
  <2> QED BY <2>1, <2>2, <2>4, <2>5, <2>6, <2>7, <2>8
<1>16. SlotPlace'
  <2>1. SlotsApart' /\ SlotsKept'
    <3>1. /\ FreeIn'[s] = FreeIn[s] /\ LiveIn'[s] = LiveIn[s] /\ FreeingIn'[s] = FreeingIn[s]
          /\ RemoteIn'[s] = {} /\ DrainedIn'[s] = RemoteIn[s] /\ DrainedIn[s] = {}
      BY <1>15
    <3>2. /\ FreeIn[s] \cap (LiveIn[s] \cup FreeingIn[s] \cup RemoteIn[s] \cup DrainedIn[s]) = {}
          /\ LiveIn[s] \cap (FreeingIn[s] \cup RemoteIn[s] \cup DrainedIn[s]) = {}
          /\ FreeingIn[s] \cap (RemoteIn[s] \cup DrainedIn[s]) = {}
      BY DEF IInv, SlotPlace, SlotsApart
    <3>3. /\ FreeIn[s] \subseteq 0 .. capacity[s] - 1
          /\ FreeIn[s] \cup LiveIn[s] \cup FreeingIn[s] \cup RemoteIn[s] \cup DrainedIn[s]
                = 0 .. Capacity(class[s]) - 1
      BY <1>5 DEF IInv, SlotPlace, SlotsKept
    <3>4. /\ FreeIn'[s] \cap (LiveIn'[s] \cup FreeingIn'[s] \cup RemoteIn'[s] \cup DrainedIn'[s]) = {}
          /\ LiveIn'[s] \cap (FreeingIn'[s] \cup RemoteIn'[s] \cup DrainedIn'[s]) = {}
          /\ FreeingIn'[s] \cap (RemoteIn'[s] \cup DrainedIn'[s]) = {}
          /\ RemoteIn'[s] \cap DrainedIn'[s] = {}
      BY <3>1, <3>2
    <3>5. /\ capacity'[s] = capacity[s] /\ class'[s] = class[s]
          /\ s \in Listed'
      BY <1>1, <1>5, <1>11
    <3>6. /\ FreeIn'[s] \subseteq 0 .. capacity'[s] - 1
          /\ FreeIn'[s] \cup LiveIn'[s] \cup FreeingIn'[s] \cup RemoteIn'[s] \cup DrainedIn'[s]
                = 0 .. Capacity(class'[s]) - 1
      BY <3>1, <3>3, <3>5
    <3>7. \A t \in Slabs : t # s =>
            /\ FreeIn'[t] = FreeIn[t] /\ LiveIn'[t] = LiveIn[t] /\ FreeingIn'[t] = FreeingIn[t]
            /\ RemoteIn'[t] = RemoteIn[t] /\ DrainedIn'[t] = DrainedIn[t]
            /\ (t \in Listed' <=> t \in Listed)
            /\ capacity'[t] = capacity[t] /\ class'[t] = class[t]
      BY <1>1, <1>11, <1>15
    <3> QED BY <3>4, <3>5, <3>6, <3>7, SlotsElsewhere DEF IInv
  <2>2. SlotsOnce'
    BY <1>1, <1>8, <1>9, EmptyElems DEF IInv, SlotPlace, SlotsOnce
  <2>3. LiveSlots'
    BY <1>1 DEF IInv, SlotPlace, LiveSlots, IndexOf
  <2>4. DrainedOwned'
    BY <1>1, <1>5, <1>9 DEF IInv, SlotPlace, DrainedOwned
  <2> QED BY <2>1, <2>2, <2>3, <2>4 DEF SlotPlace
<1>17. Walks'
  <2> SUFFICES ASSUME NEW v \in Workers, iter'[v] # NoIter
               PROVE
        /\ \A d \in Classes : d < iter'[v].class =>
              Elems(partial[v][d]) \cup Elems(full[v][d]) \subseteq iter'[v].visited
        /\ \A d \in Classes : d > iter'[v].class =>
              (Elems(partial[v][d]) \cup Elems(full[v][d])) \cap iter'[v].visited = {}
        /\ iter'[v].list = "full" => Elems(partial[v][iter'[v].class]) \subseteq iter'[v].visited
        /\ iter'[v].list = "partial" => Elems(full[v][iter'[v].class]) \cap iter'[v].visited = {}
        /\ Walking(LocalList(v, iter'[v].list, iter'[v].class), iter'[v].cursor, iter'[v].visited)
        /\ iter'[v].slab # NULL_U32 => iter'[v].slab \in iter'[v].visited
    BY <1>1 DEF Walks, Walking, ListOf, LocalList
  <2>1. CASE v = w
    <3>1. LocalList(v, iter'[v].list, iter'[v].class) = ListOf(w)
      BY <1>2, <1>9, <2>1 DEF ListOf
    <3>2. Walking(LocalList(v, iter'[v].list, iter'[v].class), iter'[v].cursor, iter'[v].visited)
      BY <1>4, <1>9, <2>1, <3>1
    <3>3. \A d \in Classes : d > c => (Elems(partial[w][d]) \cup Elems(full[w][d])) \cap (seen \cup {s}) = {}
      <4>1. \A d \in Classes : d > c => d # c
        BY DEF Classes
      <4> QED BY <1>3, <1>5, <4>1
    <3>4. kind = "partial" => Elems(full[w][c]) \cap (seen \cup {s}) = {}
      BY <1>3, <1>5
    <3> QED BY <1>3, <1>9, <2>1, <3>2, <3>3, <3>4
  <2>2. CASE v # w
    <3>1. iter'[v] = iter[v]
      BY <1>9, <2>2
    <3> QED BY <3>1 DEF IInv, Walks, ListOf
  <2> QED BY <2>1, <2>2
<1> QED BY <1>10, <1>12, <1>13, <1>14, <1>16, <1>17 DEF IInv


-----------------------------------------------------------------------------
\* Every step of every process keeps the invariant.
LEMMA NextIInv == IInv /\ [Next]_vars => IInv'
<1> SUFFICES ASSUME IInv, [Next]_vars PROVE IInv'
  OBVIOUS
<1>1. ASSUME NEW w \in Workers, Step(w) PROVE IInv'
  <2>1. CASE TakeSlab(w)
    BY <2>1, TakeSlabStep
  <2>2. CASE AllocateNone(w)
    BY <2>2, AskPoolStep
  <2>3. CASE AssignSlab(w)
    BY <2>3, AssignSlabStep
  <2>4. CASE AllocateTaken(w)
    BY <2>4, AllocateStep
  <2>5. CASE FreeLocal(w)
    BY <2>5, FreeLocalStep
  <2>6. CASE FreeRemote(w)
    BY <2>6, PcStep DEF Procs
  <2>7. CASE RemotePush(w)
    BY <2>7, RemotePushStep DEF Procs
  <2>8. CASE GiveSlab(w)
    BY <2>8, GiveSlabStep
  <2>9. CASE CleanSlab(w)
    BY <2>9, CleanSlabStep
  <2>10. CASE DrainIndex(w)
    BY <2>10, DrainIndexStep
  <2>11. CASE DrainDone(w)
    BY <2>11, DrainDoneStep
  <2>12. CASE CleanList(w)
    BY <2>12, CleanListStep
  <2> QED BY <1>1, <2>1, <2>2, <2>3, <2>4, <2>5, <2>6, <2>7, <2>8, <2>9, <2>10, <2>11, <2>12
             DEF Step
<1>2. ASSUME NEW w \in Workers, CallStep(w) PROVE IInv'
  <2>1. CASE Claim(w) \/ Release(w)
    BY <2>1, PcStep DEF Procs
  <2>2. CASE CleanCall(w)
    BY <2>2, CleanCallStep
  <2>3. CASE \E c \in Classes : AllocatePartial(w, c)
    BY <2>3, AllocateStep
  <2>4. CASE \E c \in Classes : AllocateCall(w, c)
    BY <2>4, AskPoolStep
  <2> QED BY <1>2, <2>1, <2>2, <2>3, <2>4 DEF CallStep
<1>3. ASSUME NEW f \in Freers, RemotePush(f) PROVE IInv'
  BY <1>3, RemotePushStep DEF Procs
<1>4. ASSUME NEW p \in Procs, Crash(p) PROVE IInv'
  BY <1>4, PcStep
<1>5. ASSUME NEW p \in Procs, NEW a \in live, FreeCall(p, a) PROVE IInv'
  BY <1>5, FreeCallStep
<1>6. CASE UNCHANGED vars
  <2>1. UNCHANGED <<pool, held, assigned, class, remote, freeStack, capacity, partial, full,
                    outstanding, live, pc, slab, want, freeing, iter>>
    BY <1>6 DEF vars, poolVars, slabVars, listVars, callVars
  <2>2. Types' /\ Calls' /\ Cleans'
    BY <2>1 DEF IInv, Types, Calls, Cleans
  <2>3. Listed' = Listed /\ SameDrained
    BY <2>1 DEF Listed, SameDrained
  <2>4. Places'
    BY <2>1, <2>3 DEF IInv, Places, PoolOrHeld, ListsTell, Hands
  <2>5. SlotPlace'
    BY <2>1, <2>3, SlotFrame DEF IInv
  <2>6. Walks'
    BY <2>1 DEF IInv, Walks, ListOf, LocalList
  <2> QED BY <2>2, <2>4, <2>5, <2>6 DEF IInv
<1> QED BY <1>1, <1>2, <1>3, <1>4, <1>5, <1>6 DEF Next

\* The invariant holds in every reachable state.
THEOREM Invariance == Spec => []IInv
  BY InitIInv, NextIInv, PTL DEF Spec

-----------------------------------------------------------------------------
(* Byte counters.  Total is recursive: that it exists, and what it is, is by    *)
(* induction, which follows from the order of the naturals being well-founded.  *)

\* Induction on the elements of a set.
LEMMA SetInduction ==
  ASSUME NEW P, 0 \in P, \A n \in Nat : n \in P => n + 1 \in P
  PROVE  Nat \subseteq P
<1> DEFINE T == Nat \ P
           R == {ss \in Nat \X Nat : ss[1] < ss[2]}
<1> SUFFICES ASSUME T # {} PROVE FALSE
  OBVIOUS
<1>1. IsWellFoundedOn(R, Nat)
  BY NatLessThanWellFounded DEF OpToRel
<1>2. PICK n \in T : \A m \in T : ~(<<m, n>> \in R)
  BY <1>1, WFMin
<1>3. n \in Nat /\ n \notin P
  OBVIOUS
<1>4. n # 0 /\ n - 1 \in Nat /\ (n - 1) + 1 = n
  BY <1>3
<1>5. n - 1 \in P
  <2> SUFFICES ASSUME n - 1 \notin P PROVE FALSE
    OBVIOUS
  <2>1. <<n - 1, n>> \in R
    <3>1. n - 1 < n
      BY <1>3
    <3> QED BY <1>3, <1>4, <3>1
  <2> QED BY <1>2, <1>4, <2>1
<1> QED BY <1>3, <1>4, <1>5

\* There are the sums of the first values of a function.
LEMMA SumsExist ==
  ASSUME NEW f, NEW top \in Nat
  PROVE  \E g : g = [n \in 0 .. top |-> IF n = 0 THEN 0 ELSE g[n - 1] + f[n - 1]]
<1> DEFINE Val(g, n) == IF n = 0 THEN 0 ELSE g[n - 1] + f[n - 1]
           Fun(m) == \E g : g = [n \in 0 .. m |-> Val(g, n)]
           P == {m \in Nat : Fun(m)}
<1>1. Fun(0)
  <2>1. PICK g : g = [n \in 0 .. 0 |-> 0]
    OBVIOUS
  <2>2. g = [n \in 0 .. 0 |-> Val(g, n)]
    BY <2>1
  <2> QED BY <2>2
<1>2. ASSUME NEW m \in Nat, Fun(m) PROVE Fun(m + 1)
  <2> HIDE DEF Val
  <2>1. PICK h : h = [n \in 0 .. m |-> Val(h, n)]
    BY <1>2
  <2>2. PICK g : g = [n \in 0 .. m + 1 |-> Val(h, n)]
    OBVIOUS
  <2>3. ASSUME NEW n \in 0 .. m PROVE g[n] = h[n]
    <3>1. h[n] = Val(h, n)
      BY <2>1
    <3>2. n \in 0 .. m + 1
      OBVIOUS
    <3> QED BY <2>2, <3>1, <3>2
  <2>4. ASSUME NEW n \in 0 .. m + 1 PROVE Val(h, n) = Val(g, n)
    <3>1. n # 0 => n - 1 \in 0 .. m
      OBVIOUS
    <3>2. n # 0 => g[n - 1] = h[n - 1]
      BY <3>1, <2>3
    <3> QED BY <3>2 DEF Val
  <2>5. g = [n \in 0 .. m + 1 |-> Val(g, n)]
    BY <2>2, <2>4
  <2> QED BY <2>5
<1> HIDE DEF Fun
<1>3. 0 \in P /\ \A m \in Nat : m \in P => m + 1 \in P
  BY <1>1, <1>2
<1>4. P \subseteq Nat /\ \A m \in P : Fun(m)
  OBVIOUS
<1> HIDE DEF P
<1>5. Fun(top)
  BY <1>3, <1>4, SetInduction
<1> QED BY <1>5 DEF Fun

\* Total is the last of them.
LEMMA TotalSums ==
  ASSUME NEW f \in [Slabs -> Int]
  PROVE  \E g : /\ Total(f) = g[NumSlabs] /\ g[0] = 0
                /\ \A n \in 0 .. NumSlabs : g[n] \in Int
                /\ \A n \in 0 .. NumSlabs - 1 : g[n + 1] = g[n] + f[n]
<1> DEFINE IsSums(g) == g = [n \in 0 .. NumSlabs |-> IF n = 0 THEN 0 ELSE g[n - 1] + f[n - 1]]
           g == CHOOSE h : IsSums(h)
<1>1. \E h : IsSums(h)
  BY SumsExist
<1>2. IsSums(g)
  BY <1>1
<1>3. Total(f) = g[NumSlabs]
  BY DEF Total
<1> HIDE DEF g
<1>4. \A n \in 0 .. NumSlabs : g[n] = IF n = 0 THEN 0 ELSE g[n - 1] + f[n - 1]
  BY <1>2
<1>5. g[0] = 0
  BY <1>4
<1>6. \A n \in 0 .. NumSlabs - 1 : g[n + 1] = g[n] + f[n] /\ f[n] \in Int
  <2> TAKE n \in 0 .. NumSlabs - 1
  <2>1. n + 1 \in 0 .. NumSlabs /\ n + 1 # 0 /\ (n + 1) - 1 = n
    OBVIOUS
  <2>2. f[n] \in Int
    BY DEF Slabs
  <2> QED BY <1>4, <2>1, <2>2
<1> DEFINE P == {n \in Nat : n \in 0 .. NumSlabs => g[n] \in Int}
<1>7. 0 \in P
  BY <1>5
<1>8. ASSUME NEW n \in Nat, n \in P PROVE n + 1 \in P
  <2> SUFFICES ASSUME n + 1 \in 0 .. NumSlabs PROVE g[n + 1] \in Int
    OBVIOUS
  <2>1. n \in 0 .. NumSlabs - 1 /\ n \in 0 .. NumSlabs
    OBVIOUS
  <2>2. g[n] \in Int
    BY <1>8, <2>1
  <2> QED BY <1>6, <2>1, <2>2
<1> HIDE DEF P
<1>9. Nat \subseteq P
  BY <1>7, <1>8, SetInduction
<1>10. \A n \in 0 .. NumSlabs : g[n] \in Int
  BY <1>9 DEF P
<1> QED BY <1>3, <1>5, <1>6, <1>10

\* It changes by as much as one of the values.
LEMMA TotalChange ==
  ASSUME NEW f \in [Slabs -> Int], NEW h \in [Slabs -> Int], NEW s \in Slabs,
         \A t \in Slabs : t # s => h[t] = f[t]
  PROVE  Total(f) \in Int /\ Total(h) = Total(f) + (h[s] - f[s])
<1>1. PICK F : /\ Total(f) = F[NumSlabs] /\ F[0] = 0
               /\ \A n \in 0 .. NumSlabs : F[n] \in Int
               /\ \A n \in 0 .. NumSlabs - 1 : F[n + 1] = F[n] + f[n]
  BY TotalSums
<1>2. PICK H : /\ Total(h) = H[NumSlabs] /\ H[0] = 0
               /\ \A n \in 0 .. NumSlabs : H[n] \in Int
               /\ \A n \in 0 .. NumSlabs - 1 : H[n + 1] = H[n] + h[n]
  BY TotalSums
<1>3. PICK d \in Int : d = h[s] - f[s]
  OBVIOUS
<1> DEFINE P == {n \in Nat : n \in 0 .. NumSlabs => H[n] = F[n] + IF n > s THEN d ELSE 0}
<1>4. 0 \in P
  BY <1>1, <1>2 DEF Slabs
<1>5. ASSUME NEW n \in Nat, n \in P PROVE n + 1 \in P
  <2> SUFFICES ASSUME n + 1 \in 0 .. NumSlabs
               PROVE  H[n + 1] = F[n + 1] + IF n + 1 > s THEN d ELSE 0
    OBVIOUS
  <2>1. n \in 0 .. NumSlabs - 1 /\ n \in 0 .. NumSlabs /\ n \in Slabs /\ s \in Nat
    BY DEF Slabs
  <2>2. H[n] = F[n] + IF n > s THEN d ELSE 0
    BY <1>5, <2>1
  <2>3. H[n + 1] = H[n] + h[n] /\ F[n + 1] = F[n] + f[n]
    BY <1>1, <1>2, <2>1
  <2>4. F[n] \in Int /\ f[n] \in Int /\ h[n] \in Int
    BY <1>1, <2>1
  <2>5. CASE n = s
    <3>1. h[n] = f[n] + d
      BY <1>3, <2>4, <2>5
    <3> QED BY <2>1, <2>2, <2>3, <2>4, <2>5, <3>1
  <2>6. CASE n # s
    <3>1. h[n] = f[n] /\ (n + 1 > s <=> n > s)
      BY <2>1, <2>6
    <3> QED BY <2>1, <2>2, <2>3, <2>4, <3>1
  <2> QED BY <2>5, <2>6
<1> HIDE DEF P
<1>6. Nat \subseteq P
  BY <1>4, <1>5, SetInduction
<1>7. NumSlabs > s /\ NumSlabs \in 0 .. NumSlabs
  BY DEF Slabs
<1>8. H[NumSlabs] = F[NumSlabs] + d
  BY <1>6, <1>7 DEF P
<1> QED BY <1>1, <1>2, <1>3, <1>7, <1>8

\* It is a natural if they are, and zero if they are zero.
LEMMA TotalNat ==
  ASSUME NEW f \in [Slabs -> Nat]
  PROVE  /\ Total(f) \in Nat
         /\ (\A s \in Slabs : f[s] = 0) => Total(f) = 0
<1>1. f \in [Slabs -> Int]
  OBVIOUS
<1>2. PICK F : /\ Total(f) = F[NumSlabs] /\ F[0] = 0
               /\ \A n \in 0 .. NumSlabs : F[n] \in Int
               /\ \A n \in 0 .. NumSlabs - 1 : F[n + 1] = F[n] + f[n]
  BY <1>1, TotalSums
<1> DEFINE P == {n \in Nat : n \in 0 .. NumSlabs =>
                    F[n] \in Nat /\ ((\A s \in Slabs : f[s] = 0) => F[n] = 0)}
<1>3. 0 \in P
  BY <1>2
<1>4. ASSUME NEW n \in Nat, n \in P PROVE n + 1 \in P
  <2> SUFFICES ASSUME n + 1 \in 0 .. NumSlabs
               PROVE  F[n + 1] \in Nat /\ ((\A s \in Slabs : f[s] = 0) => F[n + 1] = 0)
    OBVIOUS
  <2>1. n \in 0 .. NumSlabs - 1 /\ n \in 0 .. NumSlabs /\ n \in Slabs
    BY DEF Slabs
  <2>2. F[n] \in Nat /\ ((\A s \in Slabs : f[s] = 0) => F[n] = 0)
    BY <1>4, <2>1
  <2>3. F[n + 1] = F[n] + f[n] /\ f[n] \in Nat
    BY <1>2, <2>1
  <2> QED BY <2>1, <2>2, <2>3
<1> HIDE DEF P
<1>5. Nat \subseteq P
  BY <1>3, <1>4, SetInduction
<1>6. NumSlabs \in 0 .. NumSlabs /\ NumSlabs \in Nat
  OBVIOUS
<1> QED BY <1>2, <1>5, <1>6 DEF P

-----------------------------------------------------------------------------
\* What every slab counts for a worker.
Bytes(w) == [s \in Slabs |-> Used(w, s)]

\* A slab counts for the worker on whose lists it is: what is not on its free stack.
LEMMA UsedBytes ==
  ASSUME IInv, NEW w \in Workers, NEW s \in Slabs
  PROVE  /\ Used(w, s) \in Nat
         /\ \A c \in Classes : s \in Elems(partial[w][c]) \/ s \in Elems(full[w][c]) =>
               /\ Used(w, s) = SIZE_CLASSES[c] * (Capacity(c) - Len(freeStack[s]))
               /\ Len(freeStack[s]) \in 0 .. Capacity(c)
         /\ s \notin Listed => Used(w, s) = 0
<1>1. ASSUME NEW c \in Classes, s \in Elems(partial[w][c]) \/ s \in Elems(full[w][c])
      PROVE  /\ Used(w, s) = SIZE_CLASSES[c] * (Capacity(c) - Len(freeStack[s]))
             /\ Len(freeStack[s]) \in 0 .. Capacity(c)
             /\ Used(w, s) \in Nat
  <2>1. class[s] = c /\ capacity[s] = Capacity(c)
    BY <1>1, ListFacts
  <2>2. PICK seq \in Seq(Nat) :
           seq = freeStack[s] /\ NoDup(seq) /\ Elems(seq) \subseteq 0 .. Capacity(c) - 1
    BY <2>1 DEF IInv, Types, SlotPlace, SlotsOnce, SlotsKept, FreeIn
  <2>3. SIZE_CLASSES[c] \in Nat /\ Capacity(c) \in Nat
    BY SizeFacts
  <2>4. Len(seq) \in 0 .. Capacity(c)
    BY <2>2, <2>3, FullStack, LenProperties
  <2>5. Used(w, s) = SIZE_CLASSES[c] * (Capacity(c) - Len(freeStack[s]))
    BY <1>1, <2>1 DEF Used
  <2>6. ASSUME NEW a \in Nat, NEW b \in Nat PROVE a * b \in Nat
    BY SMT
  <2>7. Capacity(c) - Len(seq) \in Nat
    BY <2>3, <2>4
  <2> QED BY <2>2, <2>3, <2>4, <2>5, <2>6, <2>7
<1>2. CASE \A c \in Classes : ~(s \in Elems(partial[w][c]) \/ s \in Elems(full[w][c]))
  <2>1. Used(w, s) = 0
    BY <1>2 DEF Used
  <2> QED BY <1>2, <2>1
<1>3. s \notin Listed => Used(w, s) = 0
  BY DEF Listed, Used
<1> QED BY <1>1, <1>2, <1>3

\* A worker's step on one of its slabs changes what that slab counts for it, only.
LEMMA UsedElsewhere ==
  ASSUME NEW w \in Workers, NEW s \in Slabs,
         \A v \in Workers, c \in Classes : v # w =>
            /\ partial'[v][c] = partial[v][c] /\ full'[v][c] = full[v][c]
            /\ s \notin Elems(partial[v][c]) /\ s \notin Elems(full[v][c]),
         \A t \in Slabs : t # s =>
            /\ class'[t] = class[t] /\ freeStack'[t] = freeStack[t]
            /\ \A c \in Classes :
                  t \in Elems(partial'[w][c]) \cup Elems(full'[w][c])
                     <=> t \in Elems(partial[w][c]) \cup Elems(full[w][c])
  PROVE  \A v \in Workers, t \in Slabs : v # w \/ t # s => Used(v, t)' = Used(v, t)
<1>1. ASSUME NEW v \in Workers, NEW t \in Slabs, t # s PROVE Used(v, t)' = Used(v, t)
  <2>1. \A c \in Classes :
           t \in Elems(partial'[v][c]) \cup Elems(full'[v][c])
              <=> t \in Elems(partial[v][c]) \cup Elems(full[v][c])
    BY <1>1
  <2>2. class'[t] = class[t] /\ freeStack'[t] = freeStack[t]
    BY <1>1
  <2> QED BY <2>1, <2>2 DEF Used
<1>2. ASSUME NEW v \in Workers, v # w PROVE Used(v, s)' = Used(v, s)
  <2>1. \A c \in Classes :
           /\ s \notin Elems(partial'[v][c]) \cup Elems(full'[v][c])
           /\ s \notin Elems(partial[v][c]) \cup Elems(full[v][c])
    BY <1>2
  <2> QED BY <2>1 DEF Used
<1> QED BY <1>1, <1>2

\* What a worker counts, and what it will subtract when a drain is done.
Counted(w) == outstanding[w] = Total(Bytes(w)) + iter[w].count * iter[w].size
Subtracts(w) ==
    /\ iter[w].slab = NULL_U32 => iter[w].count = 0
    /\ iter[w].slab # NULL_U32 => iter[w].size = SIZE_CLASSES[iter[w].class]

Counts == \A w \in Workers : Counted(w) /\ Subtracts(w)

\* A step of w that changes what slab s counts by d keeps the counts if it changes
\* the counter, less what a drain will subtract, by as much.
LEMMA CountsStep ==
  ASSUME IInv, Counts, NEW w \in Workers, NEW s \in Slabs, NEW d \in Int,
         \A v \in Workers, t \in Slabs : v # w \/ t # s => Used(v, t)' = Used(v, t),
         Used(w, s)' = Used(w, s) + d,
         \A v \in Workers : v # w => iter'[v] = iter[v] /\ outstanding'[v] = outstanding[v],
         outstanding'[w] = outstanding[w] + d
                           + (iter'[w].count * iter'[w].size - iter[w].count * iter[w].size),
         iter[w].count * iter[w].size \in Int, iter'[w].count * iter'[w].size \in Int,
         Subtracts(w)'
  PROVE  Counts'
<1>1. ASSUME NEW v \in Workers, v # w PROVE Counted(v)' /\ Subtracts(v)'
  <2>1. Bytes(v)' = Bytes(v)
    BY <1>1 DEF Bytes
  <2>2. iter'[v] = iter[v] /\ outstanding'[v] = outstanding[v]
    BY <1>1
  <2>3. Total(Bytes(v))' = Total(Bytes(v))
    BY <2>1 DEF Total
  <2> QED BY <2>2, <2>3 DEF Counts, Counted, Subtracts
<1>2. Counted(w)'
  <2>1. PICK f \in [Slabs -> Int] : f = Bytes(w)
    <3>1. \A t \in Slabs : Used(w, t) \in Int
      BY UsedBytes
    <3> QED BY <3>1 DEF Bytes
  <2>2. PICK h : h = Bytes(w)'
    OBVIOUS
  <2>3. h = [t \in Slabs |-> Used(w, t)'] /\ f = [t \in Slabs |-> Used(w, t)]
    BY <2>1, <2>2 DEF Bytes
  <2>4. h[s] = f[s] + d /\ \A t \in Slabs : t # s => h[t] = f[t]
    BY <2>3
  <2>5. h \in [Slabs -> Int]
    <3>1. \A t \in Slabs : h[t] \in Int
      BY <2>1, <2>4
    <3> QED BY <2>3, <3>1
  <2>6. Total(f) \in Int /\ Total(h) = Total(f) + (h[s] - f[s])
    BY <2>4, <2>5, TotalChange
  <2>7. h[s] - f[s] = d
    BY <2>1, <2>4
  <2>8. Total(Bytes(w))' = Total(h)
    BY <2>2 DEF Total
  <2>9. outstanding[w] = Total(f) + iter[w].count * iter[w].size
    BY <2>1 DEF Counts, Counted
  <2>10. PICK a \in Int, b \in Int :
            a = iter[w].count * iter[w].size /\ b = iter'[w].count * iter'[w].size
    OBVIOUS
  <2>11. outstanding'[w] = Total(h) + b
    BY <2>6, <2>7, <2>9, <2>10
  <2> QED BY <2>8, <2>10, <2>11 DEF Counted
<1> QED BY <1>1, <1>2 DEF Counts


\* A step on no slab's bytes.
LEMMA CountsFrame ==
  ASSUME IInv, Counts, NEW w \in Workers,
         UNCHANGED <<class, freeStack, partial, full>>,
         \A v \in Workers : v # w => iter'[v] = iter[v] /\ outstanding'[v] = outstanding[v],
         outstanding'[w] = outstanding[w]
                           + (iter'[w].count * iter'[w].size - iter[w].count * iter[w].size),
         iter[w].count * iter[w].size \in Int, iter'[w].count * iter'[w].size \in Int,
         Subtracts(w)'
  PROVE  Counts'
<1>1. PICK s \in Slabs : TRUE
  <2>1. 0 \in Slabs
    BY DEF Slabs
  <2> QED BY <2>1
<1>2. \A v \in Workers, t \in Slabs : Used(v, t)' = Used(v, t)
  BY DEF Used
<1>3. Used(w, s)' = Used(w, s) + 0
  BY <1>2, UsedBytes
<1>4. outstanding[w] \in Int
  BY DEF IInv, Types
<1>5. outstanding'[w] = outstanding[w] + 0
                        + (iter'[w].count * iter'[w].size - iter[w].count * iter[w].size)
  BY <1>4
<1> QED BY <1>2, <1>3, <1>5, CountsStep

\* Bytes are integers.
LEMMA CountFacts ==
  ASSUME IInv, NEW w \in Workers
  PROVE  /\ outstanding[w] \in Int /\ iter[w] \in Iters
         /\ iter[w].count \in Nat /\ iter[w].size \in Nat
         /\ iter[w].count * iter[w].size \in Nat
<1>1. outstanding[w] \in Int /\ iter[w] \in Iters
  BY DEF IInv, Types
<1>2. iter[w].count \in Nat /\ iter[w].size \in Nat
  BY <1>1 DEF Iters
<1>3. ASSUME NEW a \in Nat, NEW b \in Nat PROVE a * b \in Nat
  BY SMT
<1> QED BY <1>1, <1>2, <1>3

\* Most steps change no count at all.
LEMMA CountsStay ==
  ASSUME Counts, UNCHANGED <<class, freeStack, partial, full, outstanding, iter>>
  PROVE  Counts'
<1>1. \A w \in Workers : Bytes(w)' = Bytes(w)
  BY DEF Bytes, Used
<1>2. ASSUME NEW w \in Workers PROVE Counted(w)'
  <2>1. Total(Bytes(w))' = Total(Bytes(w))
    BY <1>1 DEF Total
  <2> QED BY <2>1 DEF Counts, Counted
<1> QED BY <1>2 DEF Counts, Subtracts

\* A slab that is taken counts nothing: all of it is on its free stack.
LEMMA AssignSlabCounts ==
  ASSUME IInv, Counts, NEW w \in Workers, AssignSlab(w)
  PROVE  Counts'
<1>1. PICK s \in Slabs, c \in Classes :
         /\ s \notin Listed
         /\ class' = [class EXCEPT ![s] = c]
         /\ freeStack' = [freeStack EXCEPT ![s] = ResetStack(c)]
         /\ partial' = [partial EXCEPT ![w][c] = <<s>> \o partial[w][c]]
         /\ UNCHANGED <<full, outstanding, iter>>
  <2>1. PICK s \in Slabs : slab[w] = s /\ s \notin Listed
    BY DEF AssignSlab, IInv, Places, Hands
  <2>2. PICK c \in Classes : want[w] = c
    BY DEF AssignSlab, IInv, Calls
  <2> QED BY <2>1, <2>2 DEF AssignSlab, PushOn, callVars
<1>2. /\ class \in [Slabs -> Classes] /\ freeStack \in [Slabs -> Seq(Nat)]
      /\ partial \in [Workers -> [Classes -> Seq(Slabs)]]
  BY DEF IInv, Types
<1>3. /\ Elems(partial'[w][c]) = Elems(partial[w][c]) \cup {s}
      /\ \A d \in Classes : d # c => partial'[w][d] = partial[w][d]
      /\ \A v \in Workers, d \in Classes : v # w => partial'[v][d] = partial[v][d]
  <2>1. Elems(<<s>> \o partial[w][c]) = Elems(partial[w][c]) \cup {s}
    BY <1>2, PushElems
  <2> QED BY <1>1, <1>2, <2>1
<1>4. \A v \in Workers, d \in Classes : s \notin Elems(partial[v][d]) /\ s \notin Elems(full[v][d])
  BY <1>1 DEF Listed
<1>5. \A v \in Workers, t \in Slabs : v # w \/ t # s => Used(v, t)' = Used(v, t)
  <2>1. \A v \in Workers, d \in Classes : v # w =>
           /\ partial'[v][d] = partial[v][d] /\ full'[v][d] = full[v][d]
           /\ s \notin Elems(partial[v][d]) /\ s \notin Elems(full[v][d])
    BY <1>1, <1>3, <1>4
  <2>2. \A t \in Slabs : t # s =>
           /\ class'[t] = class[t] /\ freeStack'[t] = freeStack[t]
           /\ \A d \in Classes :
                 t \in Elems(partial'[w][d]) \cup Elems(full'[w][d])
                    <=> t \in Elems(partial[w][d]) \cup Elems(full[w][d])
    BY <1>1, <1>2, <1>3
  <2> QED BY <2>1, <2>2, UsedElsewhere
<1>6. Used(w, s) = 0 /\ Used(w, s)' = 0
  <2>1. class'[s] = c /\ Len(freeStack'[s]) = Capacity(c)
    BY <1>1, <1>2, ResetFacts
  <2>2. SIZE_CLASSES[c] \in Nat /\ Capacity(c) \in Nat
    BY SizeFacts
  <2>3. SIZE_CLASSES[c] * (Capacity(c) - Capacity(c)) = 0
    BY <2>2
  <2>4. s \in Elems(partial'[w][c]) \cup Elems(full'[w][c])
    BY <1>3
  <2> QED BY <1>4, <2>1, <2>3, <2>4 DEF Used
<1>7. /\ outstanding[w] \in Int /\ iter[w].count * iter[w].size \in Int
      /\ Subtracts(w)' /\ iter' = iter /\ outstanding' = outstanding
  BY <1>1, CountFacts DEF Counts, Subtracts
<1> QED BY <1>5, <1>6, <1>7, CountsStep

\* An allocation counts its bytes, whichever list its slab is on afterwards.
LEMMA AllocateWithinCounts ==
  ASSUME IInv, Counts, NEW w \in Workers, NEW c \in Classes, NEW s \in Elems(partial[w][c]),
         AllocateWithin(w, s, c), iter' = iter
  PROVE  Counts'
<1>1. /\ freeStack' = [freeStack EXCEPT ![s] = Tail(freeStack[s])]
      /\ MoveIfFull(w, s, c)
      /\ outstanding' = [outstanding EXCEPT ![w] = outstanding[w] + SIZE_CLASSES[c]]
      /\ class' = class
  BY DEF AllocateWithin, PopTop
<1>2. /\ freeStack \in [Slabs -> Seq(Nat)] /\ outstanding \in [Workers -> Int]
      /\ partial \in [Workers -> [Classes -> Seq(Slabs)]]
      /\ full \in [Workers -> [Classes -> Seq(Slabs)]]
  BY DEF IInv, Types
<1>3. /\ s \in Slabs /\ class[s] = c /\ freeStack[s] # <<>> /\ s \notin Elems(full[w][c])
      /\ \A v \in Workers, d \in Classes :
            s \in Elems(partial[v][d]) \/ s \in Elems(full[v][d]) => v = w /\ d = c
  BY ListFacts
<1>4. /\ Len(freeStack[s]) \in Nat \ {0}
      /\ Len(Tail(freeStack[s])) = Len(freeStack[s]) - 1
  <2>1. freeStack[s] \in Seq(Nat)
    BY <1>2, <1>3
  <2> QED BY <1>3, <2>1, EmptySeq, HeadTailProperties, LenProperties
<1>5. /\ \A v \in Workers, d \in Classes : ~(v = w /\ d = c) =>
            partial'[v][d] = partial[v][d] /\ full'[v][d] = full[v][d]
      /\ Elems(partial'[w][c]) \cup Elems(full'[w][c])
            = Elems(partial[w][c]) \cup Elems(full[w][c])
  <2>1. CASE Len(freeStack[s]) = 1
    <3>1. /\ partial' = [partial EXCEPT ![w][c] = RemoveFrom(partial[w][c], s)]
          /\ full' = [full EXCEPT ![w][c] = <<s>> \o full[w][c]]
      BY <1>1, <2>1 DEF MoveIfFull, PushOn
    <3>2. Elems(RemoveFrom(partial[w][c], s)) = Elems(partial[w][c]) \ {s}
      <4>1. partial[w][c] \in Seq(Slabs) /\ NoDup(partial[w][c])
        BY <1>2 DEF IInv, Places, ListsTell
      <4> QED BY <4>1, RemoveElems
    <3>3. Elems(<<s>> \o full[w][c]) = Elems(full[w][c]) \cup {s}
      BY <1>2, <1>3, PushElems
    <3>4. /\ partial'[w][c] = RemoveFrom(partial[w][c], s) /\ full'[w][c] = <<s>> \o full[w][c]
          /\ \A v \in Workers, d \in Classes : ~(v = w /\ d = c) =>
                partial'[v][d] = partial[v][d] /\ full'[v][d] = full[v][d]
      BY <1>2, <3>1
    <3> QED BY <3>2, <3>3, <3>4
  <2>2. CASE Len(freeStack[s]) # 1
    BY <1>1, <2>2 DEF MoveIfFull, listVars
  <2> QED BY <2>1, <2>2
<1>6. \A v \in Workers, t \in Slabs : v # w \/ t # s => Used(v, t)' = Used(v, t)
  <2>1. \A v \in Workers, d \in Classes : v # w =>
           /\ partial'[v][d] = partial[v][d] /\ full'[v][d] = full[v][d]
           /\ s \notin Elems(partial[v][d]) /\ s \notin Elems(full[v][d])
    BY <1>3, <1>5
  <2>2. ASSUME NEW t \in Slabs, t # s
        PROVE  /\ class'[t] = class[t] /\ freeStack'[t] = freeStack[t]
               /\ \A d \in Classes :
                     t \in Elems(partial'[w][d]) \cup Elems(full'[w][d])
                        <=> t \in Elems(partial[w][d]) \cup Elems(full[w][d])
    BY <1>1, <1>2, <1>5, <2>2
  <2> QED BY <1>3, <2>1, <2>2, UsedElsewhere
<1>7. Used(w, s)' = Used(w, s) + SIZE_CLASSES[c]
  <2>1. /\ Len(freeStack'[s]) = Len(freeStack[s]) - 1 /\ class'[s] = c
        /\ s \in Elems(partial'[w][c]) \cup Elems(full'[w][c])
    BY <1>1, <1>2, <1>3, <1>4, <1>5
  <2>2. Used(w, s)' = SIZE_CLASSES[c] * (Capacity(c) - (Len(freeStack[s]) - 1))
    BY <2>1 DEF Used
  <2>3. Used(w, s) = SIZE_CLASSES[c] * (Capacity(c) - Len(freeStack[s]))
    BY <1>3, UsedBytes
  <2>4. SIZE_CLASSES[c] \in Nat /\ Capacity(c) \in Nat
    BY SizeFacts
  <2>5. ASSUME NEW z \in Nat, NEW n \in Nat, NEW k \in Nat
        PROVE  z * (n - (k - 1)) = z * (n - k) + z
    BY SMT
  <2> QED BY <1>4, <2>2, <2>3, <2>4, <2>5
<1>8. /\ outstanding[w] \in Int /\ iter[w].count * iter[w].size \in Int
      /\ SIZE_CLASSES[c] \in Int /\ Subtracts(w)'
      /\ \A v \in Workers : outstanding'[v] = IF v = w THEN outstanding[w] + SIZE_CLASSES[c]
                                              ELSE outstanding[v]
  BY <1>1, <1>2, CountFacts, SizeFacts DEF Counts, Subtracts
<1>9. outstanding'[w] = outstanding[w] + SIZE_CLASSES[c]
                        + (iter'[w].count * iter'[w].size - iter[w].count * iter[w].size)
  BY <1>8
<1> QED BY <1>3, <1>6, <1>7, <1>8, <1>9, CountsStep


\* A free index counts no more, whether the slab stays on its list, changes
\* lists or leaves them.
LEMMA LocalFreeBytes ==
  ASSUME IInv, NEW w \in Workers, NEW c \in Classes,
         NEW s, s \in Elems(partial[w][c]) \/ s \in Elems(full[w][c]),
         NEW i \in Nat, NEW then, LocalFree(w, s, c, i, then)
  PROVE  /\ \A v \in Workers, t \in Slabs : v # w \/ t # s => Used(v, t)' = Used(v, t)
         /\ Used(w, s)' = Used(w, s) - SIZE_CLASSES[c]
<1>1. /\ freeStack' = [freeStack EXCEPT ![s] = <<i>> \o freeStack[s]]
      /\ MoveAfterFree(w, s, c)
      /\ class' = class
  BY DEF LocalFree
<1>2. /\ freeStack \in [Slabs -> Seq(Nat)]
      /\ s \in Slabs /\ class[s] = c /\ capacity[s] = Capacity(c)
  <2>1. s \in Slabs /\ class[s] = c /\ capacity[s] = Capacity(c)
    BY ListFacts
  <2> QED BY <2>1 DEF IInv, Types
<1>3. /\ \A v \in Workers, d \in Classes :
            s \in Elems(partial[v][d]) \/ s \in Elems(full[v][d]) => v = w /\ d = c
      /\ freeStack[s] # <<>> => s \notin Elems(full[w][c])
  BY ListFacts
<1>4. /\ \A v \in Workers, d \in Classes : ~(v = w /\ d = c) =>
            partial'[v][d] = partial[v][d] /\ full'[v][d] = full[v][d]
      /\ \/ /\ ~Emptied(s)
            /\ Elems(partial'[w][c]) \cup Elems(full'[w][c])
                  = Elems(partial[w][c]) \cup Elems(full[w][c])
         \/ /\ Emptied(s)
            /\ Elems(partial'[w][c]) \cup Elems(full'[w][c])
                  = (Elems(partial[w][c]) \cup Elems(full[w][c])) \ {s}
  <2>1. /\ \A v \in Workers, d \in Classes : ~(v = w /\ d = c) =>
              partial'[v][d] = partial[v][d] /\ full'[v][d] = full[v][d]
        /\ \/ /\ freeStack[s] = <<>> /\ ~Emptied(s)
              /\ Elems(partial'[w][c]) = Elems(partial[w][c]) \cup {s}
              /\ Elems(full'[w][c]) = Elems(full[w][c]) \ {s}
           \/ /\ freeStack[s] # <<>> /\ Emptied(s)
              /\ Elems(partial'[w][c]) = Elems(partial[w][c]) \ {s}
              /\ full'[w][c] = full[w][c]
           \/ /\ freeStack[s] # <<>> /\ ~Emptied(s)
              /\ partial'[w][c] = partial[w][c] /\ full'[w][c] = full[w][c]
    <3>1. \A v \in Workers, d \in Classes : ~(v = w /\ d = c) =>
             partial'[v][d] = partial[v][d] /\ full'[v][d] = full[v][d]
      BY <1>1, MoveAfterFreeFacts
    <3>2. \/ /\ freeStack[s] = <<>> /\ ~Emptied(s)
             /\ Elems(partial'[w][c]) = Elems(partial[w][c]) \cup {s}
             /\ Elems(full'[w][c]) = Elems(full[w][c]) \ {s}
             /\ full'[w][c] = RemoveFrom(full[w][c], s)
          \/ /\ freeStack[s] # <<>> /\ Emptied(s)
             /\ Elems(partial'[w][c]) = Elems(partial[w][c]) \ {s}
             /\ partial'[w][c] = RemoveFrom(partial[w][c], s)
             /\ full'[w][c] = full[w][c]
          \/ /\ freeStack[s] # <<>> /\ ~Emptied(s)
             /\ partial'[w][c] = partial[w][c] /\ full'[w][c] = full[w][c]
      BY <1>1, MoveAfterFreeFacts, Zenon
    <3> QED BY <3>1, <3>2
  <2> QED BY <1>3, <2>1
<1>5. \A v \in Workers, t \in Slabs : v # w \/ t # s => Used(v, t)' = Used(v, t)
  <2>1. \A v \in Workers, d \in Classes : v # w =>
           /\ partial'[v][d] = partial[v][d] /\ full'[v][d] = full[v][d]
           /\ s \notin Elems(partial[v][d]) /\ s \notin Elems(full[v][d])
    BY <1>3, <1>4
  <2>2. ASSUME NEW t \in Slabs, t # s
        PROVE  /\ class'[t] = class[t] /\ freeStack'[t] = freeStack[t]
               /\ \A d \in Classes :
                     t \in Elems(partial'[w][d]) \cup Elems(full'[w][d])
                        <=> t \in Elems(partial[w][d]) \cup Elems(full[w][d])
    BY <1>1, <1>2, <1>4, <2>2
  <2> QED BY <1>2, <2>1, <2>2, UsedElsewhere
<1>6. /\ SIZE_CLASSES[c] \in Nat /\ Capacity(c) \in Nat
      /\ Used(w, s) = SIZE_CLASSES[c] * (Capacity(c) - Len(freeStack[s]))
      /\ Len(freeStack[s]) \in Nat
  <2>1. SIZE_CLASSES[c] \in Nat /\ Capacity(c) \in Nat
    BY SizeFacts
  <2>2. /\ Used(w, s) = SIZE_CLASSES[c] * (Capacity(c) - Len(freeStack[s]))
        /\ Len(freeStack[s]) \in 0 .. Capacity(c)
    BY <1>2, UsedBytes
  <2> QED BY <2>1, <2>2
<1>7. class'[s] = c /\ Len(freeStack'[s]) = Len(freeStack[s]) + 1
  <2>1. Len(<<i>> \o freeStack[s]) = Len(freeStack[s]) + 1
    BY <1>2, PushElems
  <2> QED BY <1>1, <1>2, <2>1
<1>8. CASE Emptied(s)
  <2>1. Capacity(c) - Len(freeStack[s]) = 1
    BY <1>2, <1>6, <1>8 DEF Emptied
  <2>2. Used(w, s) = SIZE_CLASSES[c]
    BY <1>6, <2>1
  <2>3. \A d \in Classes : s \notin Elems(partial'[w][d]) \cup Elems(full'[w][d])
    BY <1>3, <1>4, <1>8
  <2>4. Used(w, s)' = 0
    BY <2>3 DEF Used
  <2> QED BY <1>5, <1>6, <2>2, <2>4
<1>9. CASE ~Emptied(s)
  <2>1. s \in Elems(partial'[w][c]) \cup Elems(full'[w][c])
    BY <1>4, <1>9
  <2>2. Used(w, s)' = SIZE_CLASSES[c] * (Capacity(c) - (Len(freeStack[s]) + 1))
    BY <1>7, <2>1 DEF Used
  <2>3. ASSUME NEW z \in Nat, NEW n \in Nat, NEW k \in Nat
        PROVE  z * (n - (k + 1)) = z * (n - k) - z
    BY SMT
  <2> QED BY <1>5, <1>6, <2>2, <2>3
<1> QED BY <1>8, <1>9

\* A local free leaves the counter with the slot.
LEMMA FreeLocalCounts ==
  ASSUME IInv, Counts, NEW w \in Workers, FreeLocal(w)
  PROVE  Counts'
<1>1. PICK s \in Slabs : freeing[w].slab = s /\ assigned[s] = w
  BY DEF FreeLocal, OwnSlab, IInv, Calls, Procs
<1>2. PICK i \in Nat : freeing[w].index = i /\ i \in FreeingIn[s]
  BY <1>1, FreeingFacts DEF Procs
<1>3. PICK c \in Classes :
         class[s] = c /\ (s \in Elems(partial[w][c]) \/ s \in Elems(full[w][c]))
  BY <1>1, <1>2, UsedFacts
<1>4. /\ LocalFree(w, s, c, i, "idle")
      /\ outstanding' = [outstanding EXCEPT ![w] = outstanding[w] - SIZE_CLASSES[c]]
      /\ iter' = iter
  BY <1>1, <1>2, <1>3 DEF FreeLocal
<1>5. PICK d \in Int : d = -SIZE_CLASSES[c] /\ SIZE_CLASSES[c] \in Nat
  BY SizeFacts
<1>6. /\ \A v \in Workers, t \in Slabs : v # w \/ t # s => Used(v, t)' = Used(v, t)
      /\ Used(w, s)' = Used(w, s) - SIZE_CLASSES[c]
  BY <1>3, <1>4, LocalFreeBytes
<1>7. Used(w, s)' = Used(w, s) + d
  BY <1>5, <1>6, UsedBytes
<1>8. /\ outstanding[w] \in Int /\ iter[w].count * iter[w].size \in Int
      /\ outstanding \in [Workers -> Int] /\ Subtracts(w)'
  <2>1. outstanding[w] \in Int /\ iter[w].count * iter[w].size \in Int
    BY CountFacts
  <2>2. outstanding \in [Workers -> Int]
    BY DEF IInv, Types
  <2> QED BY <1>4, <2>1, <2>2 DEF Counts, Subtracts
<1>9. /\ \A v \in Workers : v # w => outstanding'[v] = outstanding[v]
      /\ outstanding'[w] = outstanding[w] + d
                           + (iter'[w].count * iter'[w].size - iter[w].count * iter[w].size)
  BY <1>4, <1>5, <1>8
<1> QED BY <1>4, <1>6, <1>7, <1>8, <1>9, CountsStep

\* A drained slot leaves the counter later: until then its drain counts it.
LEMMA DrainIndexCounts ==
  ASSUME IInv, Counts, NEW w \in Workers, DrainIndex(w)
  PROVE  Counts'
<1>1. PICK s \in Slabs, c \in Classes :
         /\ iter[w].slab = s /\ iter[w].class = c /\ assigned[s] = w /\ class[s] = c
         /\ iter[w].drained \in Seq(Nat) /\ iter[w].drained # <<>>
         /\ DrainedIn[s] = Elems(iter[w].drained)
  <2>1. iter[w].drained # <<>> /\ iter[w].class \in Classes
    BY DEF DrainIndex, IInv, Cleans
  <2> QED BY <2>1, DrainFacts
<1>2. PICK i \in Nat : Head(iter[w].drained) = i /\ i \in DrainedIn[s]
  <2>1. Head(iter[w].drained) \in Elems(iter[w].drained) /\ Elems(iter[w].drained) \subseteq Nat
    BY <1>1, ElemsFacts
  <2> QED BY <1>1, <2>1
<1>3. s \in Elems(partial[w][c]) \/ s \in Elems(full[w][c])
  BY <1>1, <1>2, UsedFacts
<1>4. /\ LocalFree(w, s, c, i, "drain")
      /\ iter' = [iter EXCEPT ![w].drained = Tail(@), ![w].count = @ + 1]
      /\ outstanding' = outstanding
  BY <1>1, <1>2 DEF DrainIndex
<1>5. PICK n \in Nat, z \in Nat :
         /\ n = iter[w].count /\ z = iter[w].size /\ z = SIZE_CLASSES[c]
  BY <1>1, CountFacts DEF Counts, Subtracts
<1>6. /\ \A v \in Workers : v # w => iter'[v] = iter[v]
      /\ iter'[w].count = n + 1 /\ iter'[w].size = z
      /\ iter'[w].slab = s /\ iter'[w].class = c
  <2>1. iter \in [Workers -> Iters]
    BY DEF IInv, Types
  <2> QED BY <1>1, <1>4, <1>5, <2>1 DEF Iters
<1>7. PICK d \in Int : d = -z
  OBVIOUS
<1>8. /\ \A v \in Workers, t \in Slabs : v # w \/ t # s => Used(v, t)' = Used(v, t)
      /\ Used(w, s)' = Used(w, s) - SIZE_CLASSES[c]
  BY <1>3, <1>4, LocalFreeBytes
<1>9. Used(w, s)' = Used(w, s) + d
  BY <1>5, <1>7, <1>8, UsedBytes
<1>10. outstanding[w] \in Int /\ n * z \in Int /\ (n + 1) * z \in Int /\ (n + 1) * z - n * z = z
  <2>1. ASSUME NEW a \in Nat, NEW b \in Nat
        PROVE  a * b \in Int /\ (a + 1) * b \in Int /\ (a + 1) * b - a * b = b
    BY SMT
  <2> QED BY <2>1, CountFacts
<1>11. outstanding'[w] = outstanding[w] + d + ((n + 1) * z - n * z)
  <2>1. outstanding[w] \in Int
    BY <1>10
  <2>2. outstanding[w] + d + z = outstanding[w]
    BY <1>7, <2>1
  <2> QED BY <1>4, <1>10, <2>2
<1>12. Subtracts(w)'
  BY <1>1, <1>5, <1>6 DEF Subtracts
<1>13. \A v \in Workers : v # w => iter'[v] = iter[v] /\ outstanding'[v] = outstanding[v]
  <2>1. outstanding' = outstanding
    BY <1>4
  <2> QED BY <1>6, <2>1
<1>14. /\ iter[w].count * iter[w].size = n * z
       /\ iter'[w].count * iter'[w].size = (n + 1) * z
  BY <1>5, <1>6
<1>15. /\ iter[w].count * iter[w].size \in Int /\ iter'[w].count * iter'[w].size \in Int
       /\ outstanding'[w] = outstanding[w] + d
             + (iter'[w].count * iter'[w].size - iter[w].count * iter[w].size)
  BY <1>10, <1>11, <1>14
<1> QED BY <1>8, <1>9, <1>12, <1>13, <1>15, CountsStep


\* Between two slabs a clean has nothing to subtract.
LEMMA BetweenCounts ==
  ASSUME IInv, Counts, NEW w \in Workers,
         UNCHANGED <<class, freeStack, partial, full, outstanding>>,
         \A v \in Workers : v # w => iter'[v] = iter[v],
         iter[w].slab = NULL_U32, iter'[w].count = 0, iter'[w].size \in Nat,
         iter'[w].slab # NULL_U32 => iter'[w].size = SIZE_CLASSES[iter'[w].class]
  PROVE  Counts'
<1>1. /\ outstanding[w] \in Int /\ iter[w].count = 0 /\ iter[w].size \in Nat
  BY CountFacts DEF Counts, Subtracts
<1>2. iter[w].count * iter[w].size = 0 /\ iter'[w].count * iter'[w].size = 0
  BY <1>1
<1>3. outstanding'[w] = outstanding[w]
                        + (iter'[w].count * iter'[w].size - iter[w].count * iter[w].size)
  BY <1>1, <1>2
<1>4. /\ \A v \in Workers : v # w => iter'[v] = iter[v] /\ outstanding'[v] = outstanding[v]
      /\ iter[w].count * iter[w].size \in Int /\ iter'[w].count * iter'[w].size \in Int
      /\ Subtracts(w)'
  BY <1>2 DEF Subtracts
<1> QED BY <1>3, <1>4, CountsFrame

\* A clean begins, goes on to the next list, or returns.
LEMMA CleanCounts ==
  ASSUME IInv, Counts, NEW w \in Workers, CleanCall(w) \/ CleanList(w)
  PROVE  Counts'
<1>1. UNCHANGED <<class, freeStack, partial, full, outstanding>>
  BY DEF CleanCall, CleanList, slabVars, listVars
<1>2. iter[w].slab = NULL_U32
  <2>1. CleanCall(w) => iter[w] = NoIter
    BY DEF CleanCall, IInv, Cleans
  <2>2. CleanList(w) => iter[w].slab = NULL_U32
    BY DEF CleanList, IInv, Cleans
  <2> QED BY <2>1, <2>2 DEF NoIter
<1>3. \/ iter' = [iter EXCEPT ![w] = NoIter]
      \/ \E at, visited : StartOn(w, at, visited)
  BY DEF CleanCall, CleanList
<1>4. PICK it : /\ iter' = [iter EXCEPT ![w] = it]
                /\ it.count = 0 /\ it.size = 0 /\ it.slab = NULL_U32
  <2>1. ASSUME NEW at, NEW visited, StartOn(w, at, visited)
        PROVE  \E it : /\ iter' = [iter EXCEPT ![w] = it]
                       /\ it.count = 0 /\ it.size = 0 /\ it.slab = NULL_U32
    <3>1. PICK it : it = [NoIter EXCEPT !.class = at.class, !.list = at.list,
                                        !.visited = visited,
                                        !.cursor = HeadOf(LocalList(w, at.list, at.class))]
      OBVIOUS
    <3>2. iter' = [iter EXCEPT ![w] = it]
      BY <2>1, <3>1, Zenon DEF StartOn
    <3>3. it.count = 0 /\ it.size = 0 /\ it.slab = NULL_U32
      BY <3>1 DEF NoIter
    <3> QED BY <3>2, <3>3
  <2>2. NoIter.count = 0 /\ NoIter.size = 0 /\ NoIter.slab = NULL_U32
    BY DEF NoIter
  <2> QED BY <1>3, <2>1, <2>2
<1>5. iter'[w] = it /\ \A v \in Workers : v # w => iter'[v] = iter[v]
  <2>1. iter \in [Workers -> Iters]
    BY DEF IInv, Types
  <2> QED BY <1>4, <2>1
<1> QED BY <1>1, <1>2, <1>4, <1>5, BetweenCounts

\* The size of what is to be drained is the size of the class whose list is walked.
LEMMA CleanSlabCounts ==
  ASSUME IInv, Counts, NEW w \in Workers, CleanSlab(w)
  PROVE  Counts'
<1>1. /\ pc[w] = "clean_next" /\ iter[w].cursor # NULL_U32
      /\ UNCHANGED <<class, freeStack, partial, full, outstanding>>
  BY DEF CleanSlab, listVars
<1>2. /\ iter[w] \in Iters /\ iter[w].slab = NULL_U32 /\ iter[w].class \in Classes
      /\ ListOf(w) \in Seq(Slabs) /\ NoDup(ListOf(w))
      /\ ListOf(w) = IF iter[w].list = "partial"
                     THEN partial[w][iter[w].class] ELSE full[w][iter[w].class]
      /\ Walking(ListOf(w), iter[w].cursor, iter[w].visited)
  BY <1>1, CleanFacts
<1>3. iter[w].cursor \in Elems(ListOf(w))
  <2>1. iter[w].cursor \in Slabs
    BY <1>1, <1>2 DEF Iters
  <2> QED BY <1>2, <2>1, WalkNext
<1>4. PICK z \in Nat : z = SIZE_CLASSES[class[iter[w].cursor]] /\ z = SIZE_CLASSES[iter[w].class]
  <2>1. class[iter[w].cursor] = iter[w].class
    BY <1>2, <1>3, ListFacts
  <2> QED BY <1>2, <2>1, SizeFacts
<1>5. /\ \A v \in Workers : v # w => iter'[v] = iter[v]
      /\ iter'[w].size = z /\ iter'[w].class = iter[w].class
      /\ iter'[w].count = iter[w].count
  <2>1. iter \in [Workers -> Iters]
    BY DEF IInv, Types
  <2>2. iter' = [iter EXCEPT ![w].cursor = After(ListOf(w), iter[w].cursor),
                             ![w].slab = iter[w].cursor,
                             ![w].size = z,
                             ![w].drained = remote[iter[w].cursor],
                             ![w].visited = @ \cup {iter[w].cursor}]
    BY <1>4 DEF CleanSlab
  <2> QED BY <2>1, <2>2 DEF Iters
<1>6. iter[w].count = 0
  BY <1>2 DEF Counts, Subtracts
<1> QED BY <1>1, <1>2, <1>4, <1>5, <1>6, BetweenCounts

\* When a drain is done the counter loses what it freed.
LEMMA DrainDoneCounts ==
  ASSUME IInv, Counts, NEW w \in Workers, DrainDone(w)
  PROVE  Counts'
<1>1. PICK b \in Int : b = iter[w].count * iter[w].size
  BY CountFacts
<1>2. /\ outstanding' = [outstanding EXCEPT ![w] = outstanding[w] - b]
      /\ iter' = [iter EXCEPT ![w] = [iter[w] EXCEPT !.slab = NULL_U32, !.size = 0, !.count = 0]]
      /\ UNCHANGED <<class, freeStack, partial, full>>
  BY <1>1 DEF DrainDone, DrainedBytes, slabVars, listVars
<1>3. outstanding \in [Workers -> Int] /\ iter \in [Workers -> Iters]
  BY DEF IInv, Types
<1>4. /\ \A v \in Workers : v # w => iter'[v] = iter[v] /\ outstanding'[v] = outstanding[v]
      /\ iter'[w].count = 0 /\ iter'[w].size = 0 /\ iter'[w].slab = NULL_U32
      /\ outstanding'[w] = outstanding[w] - b
  BY <1>2, <1>3 DEF Iters
<1>5. iter'[w].count * iter'[w].size = 0
  BY <1>4
<1>6. outstanding[w] \in Int /\ outstanding[w] - b = outstanding[w] + (0 - b)
  BY <1>3
<1>7. /\ outstanding'[w] = outstanding[w]
                           + (iter'[w].count * iter'[w].size - iter[w].count * iter[w].size)
      /\ iter[w].count * iter[w].size \in Int /\ iter'[w].count * iter'[w].size \in Int
  BY <1>1, <1>4, <1>5, <1>6
<1>8. Subtracts(w)'
  BY <1>4 DEF Subtracts
<1> QED BY <1>2, <1>4, <1>7, <1>8, CountsFrame

\* No slab is on a list of a new file.
LEMMA InitCounts == Init => Counts
<1> SUFFICES ASSUME Init, NEW w \in Workers PROVE Counted(w) /\ Subtracts(w)
  BY DEF Counts
<1>1. /\ outstanding[w] = 0
      /\ iter[w].slab = NULL_U32 /\ iter[w].count = 0 /\ iter[w].size = 0
  BY DEF Init, NoIter
<1>2. \A s \in Slabs : Used(w, s) = 0
  BY EmptyElems DEF Init, Used
<1>3. Bytes(w) \in [Slabs -> Nat] /\ \A s \in Slabs : Bytes(w)[s] = 0
  BY <1>2 DEF Bytes
<1>4. Total(Bytes(w)) = 0
  BY <1>3, TotalNat
<1> QED BY <1>1, <1>4 DEF Counted, Subtracts

\* Every step of every process keeps the counts.
LEMMA NextCounts ==
  ASSUME IInv, Counts, [Next]_vars
  PROVE  Counts'
<1>1. ASSUME NEW w \in Workers, Step(w) PROVE Counts'
  <2>1. CASE TakeSlab(w) \/ AllocateNone(w) \/ FreeRemote(w) \/ RemotePush(w) \/ GiveSlab(w)
    BY <2>1, CountsStay DEF TakeSlab, AllocateNone, FreeRemote, RemotePush, GiveSlab,
                            slabVars, listVars, callVars
  <2>2. CASE AssignSlab(w)
    BY <2>2, AssignSlabCounts
  <2>3. CASE AllocateTaken(w)
    <3>1. PICK c \in Classes : want[w] = c
      BY <2>3 DEF AllocateTaken, IInv, Calls
    <3>2. slab[w] \in Elems(partial[w][c])
      BY <2>3, <3>1 DEF AllocateTaken, IInv, Places, Hands
    <3>3. AllocateWithin(w, slab[w], c) /\ iter' = iter
      BY <2>3, <3>1 DEF AllocateTaken
    <3> QED BY <3>2, <3>3, AllocateWithinCounts
  <2>4. CASE FreeLocal(w)
    BY <2>4, FreeLocalCounts
  <2>5. CASE CleanSlab(w)
    BY <2>5, CleanSlabCounts
  <2>6. CASE DrainIndex(w)
    BY <2>6, DrainIndexCounts
  <2>7. CASE DrainDone(w)
    BY <2>7, DrainDoneCounts
  <2>8. CASE CleanList(w)
    BY <2>8, CleanCounts
  <2> QED BY <1>1, <2>1, <2>2, <2>3, <2>4, <2>5, <2>6, <2>7, <2>8 DEF Step
<1>2. ASSUME NEW w \in Workers, CallStep(w) PROVE Counts'
  <2>1. CASE Claim(w) \/ Release(w) \/ \E c \in Classes : AllocateCall(w, c)
    BY <2>1, CountsStay DEF Claim, Release, AllocateCall, slabVars, listVars, callVars
  <2>2. CASE CleanCall(w)
    BY <2>2, CleanCounts
  <2>3. ASSUME NEW c \in Classes, AllocatePartial(w, c) PROVE Counts'
    <3>1. partial[w][c] \in Seq(Slabs) /\ partial[w][c] # <<>>
      BY <2>3 DEF AllocatePartial, IInv, Types
    <3>2. Head(partial[w][c]) \in Elems(partial[w][c])
      BY <3>1, ElemsFacts
    <3>3. AllocateWithin(w, Head(partial[w][c]), c) /\ iter' = iter
      BY <2>3 DEF AllocatePartial, callVars
    <3> QED BY <3>2, <3>3, AllocateWithinCounts
  <2> QED BY <1>2, <2>1, <2>2, <2>3 DEF CallStep
<1>3. ASSUME NEW f \in Freers, RemotePush(f) PROVE Counts'
  BY <1>3, CountsStay DEF RemotePush, listVars
<1>4. ASSUME NEW p \in Procs, Crash(p) \/ \E a \in live : FreeCall(p, a) PROVE Counts'
  BY <1>4, CountsStay DEF Crash, FreeCall, slabVars, listVars, callVars
<1>5. CASE UNCHANGED vars
  BY <1>5, CountsStay DEF vars, slabVars, listVars, callVars
<1> QED BY <1>1, <1>2, <1>3, <1>4, <1>5 DEF Next

\* The byte counter of a worker is the bytes of its slabs that are not on their
\* free stacks, and what its drain has freed and not subtracted yet; with steps of
\* others, deaths and changes of class in between.
THEOREM CountsTrue == Spec => []Accounting
<1>1. Init => IInv /\ Counts
  BY InitIInv, InitCounts
<1>2. (IInv /\ Counts) /\ [Next]_vars => (IInv /\ Counts)'
  BY NextIInv, NextCounts
<1>3. Counts => Accounting
  BY DEF Counts, Counted, Accounting, Bytes
<1> QED BY <1>1, <1>2, <1>3, PTL DEF Spec

\* Every variable has its type; a byte counter never goes below zero, because it
\* is a sum.
THEOREM TypeCorrect == Spec => []TypeOK
<1>1. ASSUME IInv, Accounting PROVE TypeOK
  <2>1. ASSUME NEW w \in Workers PROVE outstanding[w] \in Nat
    <3>1. PICK f \in [Slabs -> Nat] : f = [s \in Slabs |-> Used(w, s)]
      <4>1. \A s \in Slabs : Used(w, s) \in Nat
        BY <1>1, UsedBytes
      <4> QED BY <4>1
    <3>2. PICK b \in Nat : b = iter[w].count * iter[w].size
      BY <1>1, CountFacts
    <3>3. outstanding[w] = Total(f) + b
      BY <1>1, <3>1, <3>2 DEF Accounting
    <3> QED BY <3>3, TotalNat
  <2>2. outstanding \in [Workers -> Int]
    BY <1>1 DEF IInv, Types
  <2>3. outstanding \in [Workers -> Nat]
    BY <2>1, <2>2
  <2> QED BY <1>1, <2>3 DEF IInv, Types, TypeOK
<1> QED BY <1>1, Invariance, CountsTrue, PTL


-----------------------------------------------------------------------------
(* Lists and slots. *)

\* Local lists tell the truth: the owner and the class of a slab, and whether
\* it has a free index and one in use.
THEOREM ListsTrue == Spec => []ListsTruthful
<1>1. IInv => ListsTruthful
  <2> SUFFICES ASSUME IInv, NEW w \in Workers, NEW c \in Classes
               PROVE
        /\ \A s \in Elems(partial[w][c]) :
              /\ s \in held[w] /\ assigned[s] = w /\ class[s] = c
              /\ Len(freeStack[s]) > 0
              /\ Len(freeStack[s]) < Capacity(c) \/ slab[w] = s
        /\ \A s \in Elems(full[w][c]) :
              s \in held[w] /\ assigned[s] = w /\ class[s] = c /\ freeStack[s] = <<>>
    BY DEF ListsTruthful
  <2>1. ASSUME NEW s \in Elems(partial[w][c]) PROVE Len(freeStack[s]) > 0
    <3>1. s \in Slabs /\ freeStack[s] # <<>>
      BY ListFacts
    <3>2. freeStack[s] \in Seq(Nat)
      BY <3>1 DEF IInv, Types
    <3> QED BY <3>1, <3>2, ElemsFacts
  <2> QED BY <2>1 DEF IInv, Places, ListsTell
<1> QED BY <1>1, Invariance, PTL

\* An iterator that a clean still holds stands on a slab of the list it walks,
\* which it has not met before, whatever the bodies did to the lists.
THEOREM NothingTwice == Spec => []CleanOnce
<1>1. IInv => CleanOnce
  <2> SUFFICES ASSUME IInv, NEW w \in Workers, iter[w].cursor # NULL_U32
               PROVE  iter[w].cursor \in Elems(ListOf(w)) \ iter[w].visited
    BY DEF CleanOnce
  <2>1. iter[w] # NoIter
    BY DEF NoIter
  <2>2. iter[w].class \in Classes /\ iter[w].list \in {"partial", "full"}
    BY <2>1 DEF IInv, Cleans
  <2>3. ListOf(w) \in Seq(Slabs)
    BY <2>2 DEF IInv, Types, ListOf, LocalList
  <2>4. PICK j \in DOMAIN ListOf(w) :
           /\ ListOf(w)[j] = iter[w].cursor
           /\ \A k \in DOMAIN ListOf(w) : (ListOf(w)[k] \in iter[w].visited <=> k < j)
    BY <2>1 DEF IInv, Walks, Walking
  <2>5. DOMAIN ListOf(w) = 1 .. Len(ListOf(w)) /\ Len(ListOf(w)) \in Nat
    BY <2>3, ElemsFacts
  <2> QED BY <2>4, <2>5 DEF Elems
<1> QED BY <1>1, Invariance, PTL

\* A slab with a slot in use is on a list, and not in the pool.
LEMMA InUseListed ==
  ASSUME IInv, NEW s \in Slabs, InUse(s)
  PROVE  s \in Listed
<1>1. CASE \E a \in live : a.slab = s
  <2>1. LiveIn[s] # {}
    BY <1>1 DEF LiveIn
  <2> QED BY <2>1, UsedFacts
<1>2. CASE \E p \in Procs : freeing[p].slab = s
  <2>1. FreeingIn[s] # {}
    BY <1>2 DEF FreeingIn
  <2> QED BY <2>1, UsedFacts
<1>3. CASE remote[s] # <<>>
  <2>1. remote[s] \in Seq(Nat)
    BY DEF IInv, Types
  <2>2. RemoteIn[s] # {}
    BY <1>3, <2>1, ElemsFacts DEF RemoteIn
  <2> QED BY <2>2, UsedFacts
<1>4. CASE \E w \in Workers : iter[w].slab = s /\ iter[w].drained # <<>>
  <2>1. PICK w \in Workers : iter[w].slab = s /\ iter[w].drained # <<>>
    BY <1>4
  <2>2. iter[w].drained \in Seq(Nat) /\ DrainedIn[s] = Elems(iter[w].drained)
    BY <2>1, DrainFacts
  <2>3. DrainedIn[s] # {}
    BY <2>1, <2>2, ElemsFacts
  <2> QED BY <2>3, UsedFacts
<1> QED BY <1>1, <1>2, <1>3, <1>4 DEF InUse

\* While some slot of a slab is allocated or on its way back, its owner and its
\* class stay: what a free has read of them stays true.
THEOREM MetadataStable == Spec => MetaStable
<1> DEFINE Stable == \A s \in Slabs :
              InUse(s) => assigned'[s] = assigned[s] /\ class'[s] = class[s]
<1>1. IInv /\ [Next]_vars => [Stable]_vars
  <2> SUFFICES ASSUME IInv, Next, NEW s \in Slabs, InUse(s)
               PROVE  assigned'[s] = assigned[s] /\ class'[s] = class[s]
    OBVIOUS
  <2>1. CASE UNCHANGED <<assigned, class>>
    BY <2>1
  <2>2. CASE \E w \in Workers : AssignSlab(w)
    <3>1. PICK w \in Workers : AssignSlab(w)
      BY <2>2
    <3>2. slab[w] \notin Listed /\ slab[w] \in Slabs
      BY <3>1 DEF AssignSlab, IInv, Places, Hands
    <3>3. s \in Listed
      BY InUseListed
    <3>4. /\ assigned' = [assigned EXCEPT ![slab[w]] = w]
          /\ class' = [class EXCEPT ![slab[w]] = want[w]]
          /\ assigned \in [Slabs -> Workers \cup {NULL_U32}] /\ class \in [Slabs -> Classes]
      BY <3>1 DEF AssignSlab, IInv, Types
    <3> QED BY <3>2, <3>3, <3>4
  <2>3. UNCHANGED <<assigned, class>> \/ \E w \in Workers : AssignSlab(w)
    <3>1. ASSUME NEW w \in Workers, Step(w), ~AssignSlab(w) PROVE UNCHANGED <<assigned, class>>
      BY <3>1 DEF Step, TakeSlab, AllocateNone, AllocateTaken, AllocateWithin, PopTop, FreeLocal,
                  LocalFree, FreeRemote, RemotePush, GiveSlab, CleanSlab, DrainIndex, DrainDone,
                  CleanList, slabVars
    <3>2. ASSUME NEW w \in Workers, CallStep(w) PROVE UNCHANGED <<assigned, class>>
      BY <3>2 DEF CallStep, Claim, Release, CleanCall, AllocatePartial, AllocateCall,
                  AllocateWithin, PopTop, slabVars
    <3>3. ASSUME NEW f \in Freers, RemotePush(f) PROVE UNCHANGED <<assigned, class>>
      BY <3>3 DEF RemotePush
    <3>4. ASSUME NEW p \in Procs, Crash(p) \/ \E a \in live : FreeCall(p, a)
          PROVE  UNCHANGED <<assigned, class>>
      BY <3>4 DEF Crash, FreeCall, slabVars
    <3> QED BY <3>1, <3>2, <3>3, <3>4 DEF Next
  <2> QED BY <2>1, <2>2, <2>3
<1> QED BY <1>1, Invariance, PTL DEF Spec, MetaStable

\* A clean that returns has drained every slab its worker still owns.
THEOREM CleanComplete == Spec => CleanCovers
<1> DEFINE Covers == \A w \in Workers :
              pc[w] = "clean_next" /\ pc'[w] = "idle" => held[w] \subseteq iter[w].visited
<1>1. IInv /\ [Next]_vars => [Covers]_vars
  <2> SUFFICES ASSUME IInv, Next, NEW w \in Workers, pc[w] = "clean_next", pc'[w] = "idle"
               PROVE  held[w] \subseteq iter[w].visited
    OBVIOUS
  <2>1. CleanList(w)
    <3>1. /\ \/ \E v \in Workers : Step(v) \/ CallStep(v)
             \/ \E f \in Freers : RemotePush(f)
             \/ \E p \in Procs : Crash(p) \/ \E a \in live : FreeCall(p, a)
          /\ pc \in [Procs -> PCs] /\ w \in Procs
      BY DEF Next, IInv, Types, Procs
    <3>2. ASSUME NEW v \in Procs, NEW label, v # w, pc' = [pc EXCEPT ![v] = label] PROVE FALSE
      BY <3>1, <3>2
    <3>3. \A label : pc' = [pc EXCEPT ![w] = label] => label = "idle"
      BY <3>1
    <3>4. pc' # pc
      OBVIOUS
    <3>5. ASSUME NEW v \in Workers, Step(v) PROVE CleanList(w)
      <4>1. CASE v # w
        <5>1. (\E label : pc' = [pc EXCEPT ![v] = label]) \/ pc' = pc
          BY <3>5 DEF Step, TakeSlab, AllocateNone, AssignSlab, AllocateTaken, AllocateWithin, PopTop,
                      FreeLocal, LocalFree, FreeRemote, RemotePush, GiveSlab, CleanSlab,
                      DrainIndex, DrainDone, CleanList, Goto
        <5> QED BY <3>2, <3>4, <4>1, <5>1 DEF Procs
      <4>2. CASE v = w
        <5>1. CleanSlab(w) \/ CleanList(w)
          BY <3>5, <4>2 DEF Step, TakeSlab, AllocateNone, AssignSlab, AllocateTaken,
                      FreeLocal, FreeRemote, RemotePush, GiveSlab, DrainIndex, DrainDone
        <5> QED BY <3>3, <5>1 DEF CleanSlab, Goto
      <4> QED BY <4>1, <4>2
    <3>6. ASSUME NEW v \in Workers, CallStep(v) PROVE FALSE
      <4>1. pc[v] \in {"idle", "unclaimed"} /\ \E label : pc' = [pc EXCEPT ![v] = label]
        BY <3>6 DEF CallStep, Claim, Release, CleanCall, AllocatePartial, AllocateCall,
                    AllocateWithin, PopTop, Goto
      <4> QED BY <3>2, <4>1 DEF Procs
    <3>7. ASSUME NEW f \in Freers, RemotePush(f) PROVE FALSE
      <4>1. pc[f] = "remote_push" /\ \E label : pc' = [pc EXCEPT ![f] = label]
        BY <3>7 DEF RemotePush, Goto
      <4> QED BY <3>2, <4>1 DEF Procs
    <3>8. ASSUME NEW p \in Procs, Crash(p) PROVE FALSE
      <4>1. pc' = [pc EXCEPT ![p] = "dead"]
        BY <3>8 DEF Crash, Goto
      <4> QED BY <3>2, <3>3, <4>1
    <3>9. ASSUME NEW p \in Procs, NEW a \in live, FreeCall(p, a) PROVE FALSE
      <4>1. pc[p] = "idle" /\ \E label : pc' = [pc EXCEPT ![p] = label]
        BY <3>9 DEF FreeCall, Goto
      <4> QED BY <3>2, <4>1
    <3> QED BY <3>1, <3>5, <3>6, <3>7, <3>8, <3>9
  <2>2. [class |-> iter[w].class, list |-> iter[w].list] = LastList /\ iter[w].cursor = NULL_U32
    BY <2>1 DEF CleanList
  <2>3. iter[w].class = Len(SIZE_CLASSES) /\ iter[w].list = "full"
    BY <2>2 DEF LastList, Order
  <2>4. /\ \A c \in Classes : c < iter[w].class =>
              Elems(partial[w][c]) \cup Elems(full[w][c]) \subseteq iter[w].visited
        /\ iter[w].class \in Classes
        /\ Elems(partial[w][iter[w].class]) \subseteq iter[w].visited
        /\ Elems(full[w][iter[w].class]) \subseteq iter[w].visited
    BY <2>2, <2>3, CleanFacts DEF Walking
  <2>5. ASSUME NEW s \in held[w] PROVE s \in iter[w].visited
    <3>1. s \in Slabs /\ s \in Listed
      <4>1. s \in Slabs
        BY DEF IInv, Types
      <4>2. slab[w] = NULL_U32 /\ (s \in Listed \/ slab[w] = s)
        BY DEF IInv, Places, Hands
      <4> QED BY <4>1, <4>2, NullAssumption
    <3>2. PICK v \in Workers, c \in Classes : s \in Elems(partial[v][c]) \/ s \in Elems(full[v][c])
      BY <3>1 DEF Listed
    <3>3. \A u \in Workers : s \in held[u] => u = v
      BY <3>2, ListFacts
    <3>4. v = w
      BY <3>3
    <3>5. c < iter[w].class \/ c = iter[w].class
      BY <2>3, SizesAssumption, LenProperties DEF Classes
    <3> QED BY <2>4, <3>2, <3>4, <3>5
  <2> QED BY <2>5
<1> QED BY <1>1, Invariance, PTL DEF Spec, CleanCovers


-----------------------------------------------------------------------------
(* One place for a slab, one place for a slot. *)

\* The places of a slab, one by one.
LEMMA SlabPlacesFacts ==
  ASSUME NEW s, NEW x
  PROVE  x \in SlabPlaces(s) <=>
           \/ \E i \in DOMAIN pool : pool[i] = s /\ x = <<"pool", i>>
           \/ \E w \in Workers, c \in Classes : \E i \in DOMAIN partial[w][c] :
                 partial[w][c][i] = s /\ x = <<"partial", w, c, i>>
           \/ \E w \in Workers, c \in Classes : \E i \in DOMAIN full[w][c] :
                 full[w][c][i] = s /\ x = <<"full", w, c, i>>
           \/ \E w \in Workers :
                 /\ slab[w] = s /\ ~\E c \in Classes : s \in Elems(partial[w][c])
                 /\ x = <<"hand", w>>
<1> DEFINE InPool == {<<"pool", i>> : i \in {j \in DOMAIN pool : pool[j] = s}}
           InHand == {<<"hand", w>> : w \in {v \in Workers : slab[v] = s /\ ~\E c \in Classes :
                                               s \in Elems(partial[v][c])}}
           OnPartial(w, c) ==
              {<<"partial", w, c, i>> : i \in {j \in DOMAIN partial[w][c] : partial[w][c][j] = s}}
           OnFull(w, c) ==
              {<<"full", w, c, i>> : i \in {j \in DOMAIN full[w][c] : full[w][c][j] = s}}
           OnEither(w, c) == OnPartial(w, c) \cup OnFull(w, c)
           OnLists == UNION {OnEither(w, c) : w \in Workers, c \in Classes}
<1>1. SlabPlaces(s) = InPool \cup InHand \cup OnLists
  BY DEF SlabPlaces
<1>2. x \in InPool <=> \E i \in DOMAIN pool : pool[i] = s /\ x = <<"pool", i>>
  OBVIOUS
<1>3. x \in InHand <=> \E w \in Workers :
         /\ slab[w] = s /\ ~\E c \in Classes : s \in Elems(partial[w][c])
         /\ x = <<"hand", w>>
  OBVIOUS
<1>4. ASSUME NEW w, NEW c
      PROVE  x \in OnPartial(w, c) <=> \E i \in DOMAIN partial[w][c] :
                partial[w][c][i] = s /\ x = <<"partial", w, c, i>>
  OBVIOUS
<1>5. ASSUME NEW w, NEW c
      PROVE  x \in OnFull(w, c) <=> \E i \in DOMAIN full[w][c] :
                full[w][c][i] = s /\ x = <<"full", w, c, i>>
  OBVIOUS
<1> HIDE DEF InPool, InHand, OnPartial, OnFull
<1>6. ASSUME NEW w, NEW c
      PROVE  x \in OnEither(w, c) <=> x \in OnPartial(w, c) \/ x \in OnFull(w, c)
  OBVIOUS
<1> HIDE DEF OnEither
<1>7. x \in OnLists <=> \E w \in Workers, c \in Classes : x \in OnEither(w, c)
  OBVIOUS
<1> HIDE DEF OnLists
<1> QED BY <1>1, <1>2, <1>3, <1>4, <1>5, <1>6, <1>7

\* A slab is at one place: the pool, a local list, or a worker's hands.
THEOREM OnOneList == Spec => []OneList
<1>1. IInv => OneList
  <2> SUFFICES ASSUME IInv, NEW s \in Slabs PROVE Cardinality(SlabPlaces(s)) = 1
    BY DEF OneList
  <2> SUFFICES \E place : SlabPlaces(s) = {place}
    BY FS_Singleton
  <2>1. \A w \in Workers : slab[w] = s => s \in held[w]
    BY NullAssumption DEF IInv, Places, Hands
  <2>2. \A w \in Workers, c \in Classes :
           s \in Elems(partial[w][c]) \/ s \in Elems(full[w][c]) => s \in held[w]
    BY ListFacts
  <2>3. \A i \in DOMAIN pool : pool[i] = s => s \in Elems(pool)
    BY DEF Elems
  <2>4. \A w \in Workers, c \in Classes :
           /\ \A i \in DOMAIN partial[w][c] : partial[w][c][i] = s => s \in Elems(partial[w][c])
           /\ \A i \in DOMAIN full[w][c] : full[w][c][i] = s => s \in Elems(full[w][c])
    BY DEF Elems
  <2>5. CASE s \in Elems(pool)
    <3>1. PICK i \in DOMAIN pool : pool[i] = s
      BY <2>5 DEF Elems
    <3>2. \A j \in DOMAIN pool : pool[j] = s => j = i
      BY <3>1 DEF IInv, Places, PoolOrHeld, NoDup
    <3>3. \A w \in Workers : s \notin held[w]
      BY <2>5 DEF IInv, Places, PoolOrHeld
    <3>4. SlabPlaces(s) = {<<"pool", i>>}
      BY <2>1, <2>2, <2>4, <3>1, <3>2, <3>3, SlabPlacesFacts
    <3> QED BY <3>4
  <2>6. CASE s \notin Elems(pool)
    <3>1. PICK w \in Workers : s \in held[w]
      BY <2>6 DEF IInv, Places, PoolOrHeld
    <3>2. \A v \in Workers : s \in held[v] => v = w
      BY <3>1 DEF IInv, Places, PoolOrHeld
    <3>3. ASSUME NEW c \in Classes, s \in Elems(partial[w][c])
          PROVE  \E place : SlabPlaces(s) = {place}
      <4>1. PICK i \in DOMAIN partial[w][c] : partial[w][c][i] = s
        BY <3>3 DEF Elems
      <4>2. \A j \in DOMAIN partial[w][c] : partial[w][c][j] = s => j = i
        BY <4>1 DEF IInv, Places, ListsTell, NoDup
      <4>3. \A v \in Workers, d \in Classes :
               s \in Elems(partial[v][d]) \/ s \in Elems(full[v][d]) => v = w /\ d = c
        BY <3>3, ListFacts
      <4>4. s \notin Elems(full[w][c])
        <5>1. /\ (s \in Elems(partial[w][c]) <=> freeStack[s] # <<>>)
              /\ (s \in Elems(full[w][c]) <=> freeStack[s] = <<>>)
          BY <3>3, ListFacts
        <5> QED BY <3>3, <5>1
      <4>5. SlabPlaces(s) = {<<"partial", w, c, i>>}
        BY <2>1, <2>3, <2>4, <2>6, <3>2, <3>3, <4>1, <4>2, <4>3, <4>4, SlabPlacesFacts
      <4> QED BY <4>5
    <3>4. ASSUME NEW c \in Classes, s \in Elems(full[w][c])
          PROVE  \E place : SlabPlaces(s) = {place}
      <4>1. PICK i \in DOMAIN full[w][c] : full[w][c][i] = s
        BY <3>4 DEF Elems
      <4>2. \A j \in DOMAIN full[w][c] : full[w][c][j] = s => j = i
        BY <4>1 DEF IInv, Places, ListsTell, NoDup
      <4>3. \A v \in Workers, d \in Classes :
               s \in Elems(partial[v][d]) \/ s \in Elems(full[v][d]) => v = w /\ d = c
        BY <3>4, ListFacts
      <4>4. s \notin Elems(partial[w][c])
        <5>1. /\ (s \in Elems(partial[w][c]) <=> freeStack[s] # <<>>)
              /\ (s \in Elems(full[w][c]) <=> freeStack[s] = <<>>)
          BY <3>4, ListFacts
        <5> QED BY <3>4, <5>1
      <4>5. slab[w] # s
        BY <3>4 DEF IInv, Places, ListsTell
      <4>6. SlabPlaces(s) = {<<"full", w, c, i>>}
        BY <2>1, <2>3, <2>4, <2>6, <3>2, <4>1, <4>2, <4>3, <4>4, <4>5, SlabPlacesFacts
      <4> QED BY <4>6
    <3>5. CASE s \notin Listed
      <4>1. slab[w] = s
        BY <3>1, <3>5 DEF IInv, Places, Hands
      <4>2. \A v \in Workers, c \in Classes :
               s \notin Elems(partial[v][c]) /\ s \notin Elems(full[v][c])
        BY <3>5 DEF Listed
      <4>3. SlabPlaces(s) = {<<"hand", w>>}
        BY <2>1, <2>3, <2>4, <2>6, <3>2, <4>1, <4>2, SlabPlacesFacts
      <4> QED BY <4>3
    <3>6. s \in Listed => \E c \in Classes : s \in Elems(partial[w][c]) \/ s \in Elems(full[w][c])
      BY <2>2, <3>2 DEF Listed
    <3> QED BY <3>3, <3>4, <3>5, <3>6
  <2> QED BY <2>5, <2>6
<1> QED BY <1>1, Invariance, PTL



\* What it is for slot i of slab s to be at a place.
LEMMA SlotPlacesFacts ==
  ASSUME NEW s, NEW i, NEW x
  PROVE  x \in SlotPlaces(s, i) <=>
           \/ \E j \in DOMAIN freeStack[s] : freeStack[s][j] = i /\ x = <<"free", j>>
           \/ \E a \in live :
                 /\ a.slab = s /\ a.offset = i * SIZE_CLASSES[class[s]]
                 /\ x = <<"live", a>>
           \/ \E p \in Procs :
                 freeing[p].slab = s /\ freeing[p].index = i /\ x = <<"freeing", p>>
           \/ \E j \in DOMAIN remote[s] : remote[s][j] = i /\ x = <<"remote", j>>
           \/ \E w \in Workers : \E j \in DOMAIN iter[w].drained :
                 iter[w].slab = s /\ iter[w].drained[j] = i /\ x = <<"drained", w, j>>
<1> DEFINE Free == {<<"free", j>> : j \in {k \in DOMAIN freeStack[s] : freeStack[s][k] = i}}
           Live == {<<"live", a>> : a \in {b \in live :
                       b.slab = s /\ b.offset = i * SIZE_CLASSES[class[s]]}}
           Freeing == {<<"freeing", p>> : p \in {q \in Procs :
                       freeing[q].slab = s /\ freeing[q].index = i}}
           Remote == {<<"remote", j>> : j \in {k \in DOMAIN remote[s] : remote[s][k] = i}}
           DrainedBy(w) == {<<"drained", w, j>> : j \in {k \in DOMAIN iter[w].drained :
                       iter[w].slab = s /\ iter[w].drained[k] = i}}
           Drained == UNION {DrainedBy(w) : w \in Workers}
<1>1. SlotPlaces(s, i) = Free \cup Live \cup Freeing \cup Remote \cup Drained
  BY DEF SlotPlaces
<1>2. x \in Free <=> \E j \in DOMAIN freeStack[s] : freeStack[s][j] = i /\ x = <<"free", j>>
  OBVIOUS
<1>3. x \in Live <=> \E a \in live :
         /\ a.slab = s /\ a.offset = i * SIZE_CLASSES[class[s]]
         /\ x = <<"live", a>>
  OBVIOUS
<1>4. x \in Freeing <=> \E p \in Procs :
         freeing[p].slab = s /\ freeing[p].index = i /\ x = <<"freeing", p>>
  OBVIOUS
<1>5. x \in Remote <=> \E j \in DOMAIN remote[s] : remote[s][j] = i /\ x = <<"remote", j>>
  OBVIOUS
<1>6. ASSUME NEW w
      PROVE  x \in DrainedBy(w) <=> \E j \in DOMAIN iter[w].drained :
                iter[w].slab = s /\ iter[w].drained[j] = i /\ x = <<"drained", w, j>>
  OBVIOUS
<1> HIDE DEF Free, Live, Freeing, Remote, DrainedBy
<1>7. x \in Drained <=> \E w \in Workers : x \in DrainedBy(w)
  OBVIOUS
<1> HIDE DEF Drained
<1> QED BY <1>1, <1>2, <1>3, <1>4, <1>5, <1>6, <1>7

\* A slot of a listed slab is at one place: free, allocated, in the hands of a
\* process that frees it, on the remote list, or drained.  A slab in the pool
\* has no slot anywhere.
THEOREM NoSlotLost == Spec => []SlotsConserved
<1>1. ASSUME IInv, NEW w \in Workers, NEW c \in Classes,
             NEW s, s \in Elems(partial[w][c]) \/ s \in Elems(full[w][c]),
             NEW i \in 0 .. Capacity(c) - 1
      PROVE  Cardinality(SlotPlaces(s, i)) = 1
  <2> SUFFICES \E place : SlotPlaces(s, i) = {place}
    BY FS_Singleton
  <2>1. s \in Slabs /\ s \in Listed /\ class[s] = c
    BY <1>1, ListFacts
  <2>2. i \in FreeIn[s] \cup LiveIn[s] \cup FreeingIn[s] \cup RemoteIn[s] \cup DrainedIn[s]
    BY <1>1, <2>1 DEF IInv, SlotPlace, SlotsKept
  <2>3. /\ FreeIn[s] \cap (LiveIn[s] \cup FreeingIn[s] \cup RemoteIn[s] \cup DrainedIn[s]) = {}
        /\ LiveIn[s] \cap (FreeingIn[s] \cup RemoteIn[s] \cup DrainedIn[s]) = {}
        /\ FreeingIn[s] \cap (RemoteIn[s] \cup DrainedIn[s]) = {}
        /\ RemoteIn[s] \cap DrainedIn[s] = {}
    BY <1>1, <2>1 DEF IInv, SlotPlace, SlotsApart
  <2>4. \A j \in DOMAIN freeStack[s] : freeStack[s][j] = i => i \in FreeIn[s]
    BY <2>1 DEF FreeIn, Elems
  <2>5. \A j \in DOMAIN remote[s] : remote[s][j] = i => i \in RemoteIn[s]
    BY <2>1 DEF RemoteIn, Elems
  <2>6. \A p \in Procs : freeing[p].slab = s /\ freeing[p].index = i => i \in FreeingIn[s]
    BY <2>1 DEF FreeingIn
  <2>7. \A a \in live : a.slab = s =>
           /\ (a.offset = i * SIZE_CLASSES[class[s]] <=> IndexOf(a) = i)
           /\ IndexOf(a) \in LiveIn[s]
    <3>1. ASSUME NEW a \in live, a.slab = s
          PROVE  /\ (a.offset = i * SIZE_CLASSES[class[s]] <=> IndexOf(a) = i)
                 /\ IndexOf(a) \in LiveIn[s]
      <4>1. /\ a.class = c /\ IndexOf(a) \in LiveIn[s]
            /\ a.offset = IndexOf(a) * SIZE_CLASSES[a.class]
        BY <1>1, <2>1, <3>1, LiveFacts
      <4>2. (i * SIZE_CLASSES[c]) \div SIZE_CLASSES[c] = i
        BY SlotFacts
      <4> QED BY <2>1, <4>1, <4>2 DEF IndexOf
    <3> QED BY <3>1
  <2>8. ASSUME NEW v \in Workers, NEW j \in DOMAIN iter[v].drained, iter[v].slab = s
        PROVE  /\ assigned[s] = v
               /\ iter[v].drained[j] = i => i \in DrainedIn[s]
    <3>1. iter[v].drained # <<>>
      BY <2>8
    <3>2. assigned[s] = v /\ DrainedIn[s] = Elems(iter[v].drained)
      BY <1>1, <2>8, <3>1, DrainFacts
    <3> QED BY <2>8, <3>2 DEF Elems
  <2>9. CASE i \in FreeIn[s]
    <3>1. PICK j \in DOMAIN freeStack[s] : freeStack[s][j] = i
      BY <2>1, <2>9 DEF FreeIn, Elems
    <3>2. \A k \in DOMAIN freeStack[s] : freeStack[s][k] = i => k = j
      BY <1>1, <2>1, <3>1 DEF IInv, SlotPlace, SlotsOnce, NoDup
    <3>3. i \notin LiveIn[s] /\ i \notin FreeingIn[s] /\ i \notin RemoteIn[s] /\ i \notin DrainedIn[s]
      BY <2>3, <2>9
    <3>4. SlotPlaces(s, i) = {<<"free", j>>}
      BY <2>5, <2>6, <2>7, <2>8, <3>1, <3>2, <3>3, SlotPlacesFacts
    <3> QED BY <3>4
  <2>10. CASE i \in LiveIn[s]
    <3>1. PICK a \in live : a.slab = s /\ IndexOf(a) = i
      BY <2>1, <2>10 DEF LiveIn
    <3>2. \A b \in live : b.slab = s /\ IndexOf(b) = i => b = a
      BY <1>1, <3>1, LiveFacts
    <3>3. i \notin FreeIn[s] /\ i \notin FreeingIn[s] /\ i \notin RemoteIn[s] /\ i \notin DrainedIn[s]
      BY <2>3, <2>10
    <3>4. SlotPlaces(s, i) = {<<"live", a>>}
      BY <2>4, <2>5, <2>6, <2>7, <2>8, <3>1, <3>2, <3>3, SlotPlacesFacts
    <3> QED BY <3>4
  <2>11. CASE i \in FreeingIn[s]
    <3>1. PICK p \in Procs : freeing[p].slab = s /\ freeing[p].index = i
      BY <2>1, <2>11 DEF FreeingIn
    <3>2. \A q \in Procs : freeing[q].slab = s /\ freeing[q].index = i => q = p
      BY <1>1, <2>1, <3>1, FreeingFacts
    <3>3. i \notin FreeIn[s] /\ i \notin LiveIn[s] /\ i \notin RemoteIn[s] /\ i \notin DrainedIn[s]
      BY <2>3, <2>11
    <3>4. SlotPlaces(s, i) = {<<"freeing", p>>}
      BY <2>4, <2>5, <2>7, <2>8, <3>1, <3>2, <3>3, SlotPlacesFacts
    <3> QED BY <3>4
  <2>12. CASE i \in RemoteIn[s]
    <3>1. PICK j \in DOMAIN remote[s] : remote[s][j] = i
      BY <2>1, <2>12 DEF RemoteIn, Elems
    <3>2. \A k \in DOMAIN remote[s] : remote[s][k] = i => k = j
      BY <1>1, <2>1, <3>1 DEF IInv, SlotPlace, SlotsOnce, NoDup
    <3>3. i \notin FreeIn[s] /\ i \notin LiveIn[s] /\ i \notin FreeingIn[s] /\ i \notin DrainedIn[s]
      BY <2>3, <2>12
    <3>4. SlotPlaces(s, i) = {<<"remote", j>>}
      BY <2>4, <2>6, <2>7, <2>8, <3>1, <3>2, <3>3, SlotPlacesFacts
    <3> QED BY <3>4
  <2>13. CASE i \in DrainedIn[s]
    <3>1. PICK v \in Workers : iter[v].slab = s /\ i \in Elems(iter[v].drained)
      BY <2>1, <2>13 DEF DrainedIn
    <3>2. PICK j \in DOMAIN iter[v].drained : iter[v].drained[j] = i
      BY <3>1 DEF Elems
    <3>3. \A k \in DOMAIN iter[v].drained : iter[v].drained[k] = i => k = j
      BY <1>1, <3>2 DEF IInv, SlotPlace, SlotsOnce, NoDup
    <3>4. \A u \in Workers : \A k \in DOMAIN iter[u].drained : iter[u].slab = s => u = v
      BY <2>8, <3>1, <3>2
    <3>5. i \notin FreeIn[s] /\ i \notin LiveIn[s] /\ i \notin FreeingIn[s] /\ i \notin RemoteIn[s]
      BY <2>3, <2>13
    <3>6. SlotPlaces(s, i) = {<<"drained", v, j>>}
      BY <2>4, <2>5, <2>6, <2>7, <3>1, <3>2, <3>3, <3>4, <3>5, SlotPlacesFacts
    <3> QED BY <3>6
  <2> QED BY <2>2, <2>9, <2>10, <2>11, <2>12, <2>13
<1>2. ASSUME IInv, NEW s \in Slabs, s \in Elems(pool)
      PROVE  ~InUse(s)
  <2>1. \A w \in Workers : s \notin held[w]
    BY <1>2 DEF IInv, Places, PoolOrHeld
  <2>2. s \notin Listed
    BY <1>2, <2>1, ListFacts DEF Listed
  <2> QED BY <1>2, <2>2, InUseListed
<1>3. IInv => SlotsConserved
  BY <1>1, <1>2 DEF SlotsConserved
<1> QED BY <1>3, Invariance, PTL


-----------------------------------------------------------------------------
(* What applications see. *)

\* What an application sees of an allocation.
Seen(a) ==
    [slab |-> a.slab, offset |-> a.offset, size |-> SIZE_CLASSES[a.class], id |-> a.id]

\* It is a slot of the service, and no other allocation looks like it.
LEMMA SeenFacts ==
  ASSUME IInv, NEW a \in live
  PROVE  /\ Seen(a) \in Service!Slots
         /\ \A b \in live : Seen(b) = Seen(a) => b = a
<1>1. /\ a.slab \in Slabs /\ a.class = class[a.slab] /\ a.class \in Classes
      /\ IndexOf(a) \in LiveIn[a.slab]
      /\ a.offset = IndexOf(a) * SIZE_CLASSES[a.class] /\ a.id = 0
  BY LiveFacts
<1>2. IndexOf(a) \in 0 .. Capacity(a.class) - 1
  BY <1>1, UsedFacts
<1>3. /\ a.offset \in 0 .. SlabSize - 1
      /\ a.offset + SIZE_CLASSES[a.class] <= SlabSize
      /\ a.offset % SIZE_CLASSES[a.class] = 0
  BY <1>1, <1>2, SlotFacts
<1>4. Seen(a) \in Service!Slots
  BY <1>1, <1>3 DEF Seen, Service!Slots
<1>5. ASSUME NEW b \in live, Seen(b) = Seen(a) PROVE b = a
  <2>1. b.slab = a.slab /\ b.offset = a.offset
    BY <1>5 DEF Seen
  <2>2. b.class = a.class
    BY <1>1, <2>1, LiveFacts
  <2>3. IndexOf(b) = IndexOf(a)
    BY <2>1, <2>2 DEF IndexOf
  <2> QED BY <2>1, <2>3, LiveFacts
<1> QED BY <1>4, <1>5

\* A slot that is popped is a slot of the service and overlaps no allocation, the
\* ones of its own class included.
LEMMA PoppedFacts ==
  ASSUME IInv, NEW w \in Workers, NEW c \in Classes, NEW s \in Elems(partial[w][c])
  PROVE  /\ Seen(Popped(s, c)) \in Service!Slots
         /\ \A b \in live : Service!Disjoint(Seen(Popped(s, c)), Seen(b))
<1>1. s \in Slabs /\ s \in Listed /\ class[s] = c /\ capacity[s] = Capacity(c) /\ freeStack[s] # <<>>
  BY ListFacts
<1>2. PICK i : i = Head(freeStack[s])
  OBVIOUS
<1>3. i \in FreeIn[s]
  <2>1. freeStack[s] \in Seq(Nat)
    BY <1>1 DEF IInv, Types
  <2> QED BY <1>1, <1>2, <2>1, ElemsFacts DEF FreeIn
<1>4. i \in 0 .. Capacity(c) - 1
  BY <1>1, <1>3 DEF IInv, SlotPlace, SlotsKept
<1>5. PICK r : /\ r = Popped(s, c)
               /\ r.slab = s /\ r.class = c /\ r.offset = i * SIZE_CLASSES[c] /\ r.id = 0
  BY <1>2, PoppedIsNew
<1>6. /\ i * SIZE_CLASSES[c] \in 0 .. SlabSize - 1
      /\ i * SIZE_CLASSES[c] + SIZE_CLASSES[c] <= SlabSize
      /\ (i * SIZE_CLASSES[c]) % SIZE_CLASSES[c] = 0
  BY <1>4, SlotFacts
<1>7. Seen(r) \in Service!Slots
  BY <1>1, <1>5, <1>6 DEF Seen, Service!Slots
<1>8. ASSUME NEW b \in live, b.slab = s
      PROVE  Service!Disjoint(Seen(r), Seen(b))
  <2>1. /\ b.class = c /\ IndexOf(b) \in Nat
        /\ b.offset = IndexOf(b) * SIZE_CLASSES[c]
    BY <1>1, <1>8, LiveFacts
  <2>2. IndexOf(b) # i
    BY <1>2, <1>8, PoppedIsNew
  <2>3. IndexOf(b) < i \/ i < IndexOf(b)
    BY <1>4, <2>1, <2>2, SizeFacts
  <2>4. /\ i < IndexOf(b) => r.offset + SIZE_CLASSES[c] <= b.offset
        /\ IndexOf(b) < i => b.offset + SIZE_CLASSES[c] <= r.offset
    BY <1>4, <1>5, <2>1, SizeFacts, SlotsDisjoint
  <2> QED BY <1>5, <2>1, <2>3, <2>4 DEF Seen, Service!Disjoint
<1>9. ASSUME NEW b \in live, b.slab # s
      PROVE  Service!Disjoint(Seen(r), Seen(b))
  BY <1>5, <1>9 DEF Seen, Service!Disjoint
<1> QED BY <1>5, <1>7, <1>8, <1>9

\* What applications hold changes only when a slot is popped, which is then an
\* allocation, and when a free begins.
LEMMA LiveChanges ==
  ASSUME IInv, [Next]_vars, live' # live
  PROVE  \/ \E w \in Workers, c \in Classes : \E s \in Elems(partial[w][c]) :
               live' = live \cup {Popped(s, c)}
         \/ \E a \in live : live' = live \ {a}
<1>1. ASSUME NEW w \in Workers, Step(w) PROVE AllocateTaken(w)
  BY <1>1 DEF Step, TakeSlab, AllocateNone, AssignSlab, FreeLocal, LocalFree, FreeRemote,
              RemotePush, GiveSlab, CleanSlab, DrainIndex, DrainDone, CleanList
<1>2. ASSUME NEW w \in Workers, CallStep(w) PROVE \E c \in Classes : AllocatePartial(w, c)
  BY <1>2 DEF CallStep, Claim, Release, CleanCall, AllocateCall
<1>3. ASSUME NEW p \in Procs, RemotePush(p) \/ Crash(p) PROVE FALSE
  BY <1>3 DEF RemotePush, Crash
<1>4. ASSUME NEW w \in Workers, AllocateTaken(w)
      PROVE  \E c \in Classes : \E s \in Elems(partial[w][c]) : live' = live \cup {Popped(s, c)}
  <2>1. PICK c \in Classes : want[w] = c
    BY <1>4 DEF AllocateTaken, IInv, Calls
  <2>2. PICK s \in Elems(partial[w][c]) : slab[w] = s
    BY <1>4, <2>1 DEF AllocateTaken, IInv, Places, Hands
  <2> QED BY <1>4, <2>1, <2>2 DEF AllocateTaken, AllocateWithin
<1>5. ASSUME NEW w \in Workers, NEW c \in Classes, AllocatePartial(w, c)
      PROVE  \E s \in Elems(partial[w][c]) : live' = live \cup {Popped(s, c)}
  <2>1. partial[w][c] \in Seq(Slabs) /\ partial[w][c] # <<>>
    BY <1>5 DEF AllocatePartial, IInv, Types
  <2>2. PICK s \in Elems(partial[w][c]) : Head(partial[w][c]) = s
    BY <2>1, ElemsFacts
  <2> QED BY <1>5, <2>2 DEF AllocatePartial, AllocateWithin
<1>6. ASSUME NEW p \in Procs, NEW a \in live, FreeCall(p, a) PROVE live' = live \ {a}
  BY <1>6 DEF FreeCall
<1>7. Next
  BY DEF vars
<1> QED BY <1>1, <1>2, <1>3, <1>4, <1>5, <1>6, <1>7 DEF Next, Procs

\* The allocator implements the service, whichever worker, class and slab
\* serves an allocation and whoever frees it: an allocation gets a slot of its
\* own, within a slab and aligned to its size, that no other has, and keeps it
\* until it is freed.
THEOREM ImplementsService == Spec => RefinesService
<1> DEFINE seen == {[slab |-> a.slab, offset |-> a.offset,
                      size |-> SIZE_CLASSES[a.class], id |-> a.id] : a \in live}
<1>1. Init => Service!ServiceInit
  BY DEF Init, Service!ServiceInit
<1>2. ASSUME IInv, [Next]_vars
      PROVE  [Service!ServiceNext]_seen
  <2>1. seen = {Seen(a) : a \in live} /\ seen' = {Seen(a) : a \in live'}
    BY DEF Seen
  <2>2. CASE live' = live
    BY <2>2
  <2>3. ASSUME NEW w \in Workers, NEW c \in Classes, NEW s \in Elems(partial[w][c]),
               live' = live \cup {Popped(s, c)}
        PROVE  Service!ServiceNext
    <3>1. PICK r : r = Popped(s, c)
      OBVIOUS
    <3>2. seen' = seen \cup {Seen(r)} /\ Seen(r) \in seen'
      BY <2>1, <2>3, <3>1
    <3>3. /\ Seen(r) \in Service!Slots
          /\ \A b \in live : Service!Disjoint(Seen(r), Seen(b))
      BY <1>2, <3>1, PoppedFacts
    <3>4. Service!Allocate(Seen(r))
      BY <2>1, <3>2, <3>3 DEF Service!Allocate
    <3> QED BY <3>2, <3>4 DEF Service!ServiceNext
  <2>4. ASSUME NEW a \in live, live' = live \ {a}
        PROVE  Service!ServiceNext
    <3>1. \A b \in live : Seen(b) = Seen(a) => b = a
      BY <1>2, SeenFacts
    <3>2. seen' = seen \ {Seen(a)} /\ Seen(a) \in seen
      BY <2>1, <2>4, <3>1
    <3>3. Service!Free(Seen(a))
      BY <3>2 DEF Service!Free
    <3> QED BY <3>2, <3>3 DEF Service!ServiceNext
  <2> QED BY <1>2, <2>2, <2>3, <2>4, LiveChanges
<1> QED BY <1>1, <1>2, Invariance, PTL DEF Spec, RefinesService, Service!ServiceSpec

=============================================================================
