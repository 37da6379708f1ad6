---------------------------- MODULE LayoutProofs ----------------------------
(***************************************************************************)
(* The layout that create computes and join recomputes, and the addresses  *)
(* that allocate hands out and free takes back, for every slab size, file  *)
(* size and number of workers.                                             *)
(***************************************************************************)
EXTENDS Addressing, Integers, TLAPS

USE InputsAssumption, RequestsAssumption

-----------------------------------------------------------------------------
(* Slab sizes and size classes. *)

\* The powers of two that slab sizes and requests are compared with.
Powers ==
    <<1, 2, 4, 8, 16, 32, 64, 128, 256, 512, 1024, 2048, 4096, 8192, 16384, 32768, 65536,
      131072, 262144, 524288, 1048576, 2097152, 4194304, 8388608, 16777216, 33554432, 67108864,
      134217728, 268435456, 536870912, 1073741824, 2147483648>>

\* Table and exponent agree; the provers know powers of given numbers only.
LEMMA PowersOfTwo ==
  ASSUME NEW k \in 0 .. 31
  PROVE  2^k = Powers[k + 1]
<1> DEFINE P(i) == 2^i
<1>1. /\ P(0) = 1 /\ P(1) = 2 /\ P(2) = 4 /\ P(3) = 8 /\ P(4) = 16 /\ P(5) = 32 /\ P(6) = 64
      /\ P(7) = 128 /\ P(8) = 256 /\ P(9) = 512 /\ P(10) = 1024 /\ P(11) = 2048
      /\ P(12) = 4096 /\ P(13) = 8192 /\ P(14) = 16384 /\ P(15) = 32768 /\ P(16) = 65536
      /\ P(17) = 131072 /\ P(18) = 262144 /\ P(19) = 524288 /\ P(20) = 1048576
      /\ P(21) = 2097152 /\ P(22) = 4194304 /\ P(23) = 8388608 /\ P(24) = 16777216
      /\ P(25) = 33554432 /\ P(26) = 67108864 /\ P(27) = 134217728 /\ P(28) = 268435456
      /\ P(29) = 536870912 /\ P(30) = 1073741824 /\ P(31) = 2147483648
  BY SMT
<1> HIDE DEF P
<1>2. P(k) = Powers[k + 1]
  BY <1>1 DEF Powers
<1> QED BY <1>2 DEF P

\* The classes, by their index.
LEMMA ClassSizes ==
  /\ Classes!NUM_SIZE_CLASSES = 5 /\ Classes!MIN_SIZE = 256 /\ Classes!MAX_SIZE = 4096
  /\ Classes!SizeClass(0) = 256 /\ Classes!SizeClass(1) = 512 /\ Classes!SizeClass(2) = 1024
  /\ Classes!SizeClass(3) = 2048 /\ Classes!SizeClass(4) = 4096
  /\ Classes!MAX_U16 = 65535
  BY DEF Classes!NUM_SIZE_CLASSES, Classes!MIN_SIZE, Classes!MAX_SIZE, Classes!SIZE_CLASSES,
         Classes!SizeClass, Classes!MAX_U16

\* A slab size that create accepts, in words: 16 KiB to 8 MiB.
LEMMA SlabSizeFacts ==
  ASSUME NEW s \in Nat, VerifySlabSize(s)
  PROVE  s \in {4096, 8192, 16384, 32768, 65536, 131072, 262144, 524288, 1048576, 2097152}
<1>1. PICK k \in 0 .. 30 : 4 * s = 2^k
  BY DEF VerifySlabSize, Classes!SlabSizeOK
<1>2. 4 * s >= 16384 /\ (4 * s) \div 256 <= 65535
  BY ClassSizes DEF VerifySlabSize, Classes!SlabSizeOK
<1>3. 4 * s = Powers[k + 1]
  <2>1. k \in 0 .. 31
    OBVIOUS
  <2>2. 2^k = Powers[k + 1]
    BY <2>1, PowersOfTwo, Zenon
  <2> QED BY <1>1, <2>2
<1> QED BY <1>2, <1>3 DEF Powers

-----------------------------------------------------------------------------
(* Where sections are, in words, if offsets had no width. *)

MetaAt(workers, slabs) == RoundUp(WithHeads(workers) + slabs * NODE, META_ALIGN)
StacksAt(workers, slabs) == RoundUp(MetaAt(workers, slabs) + slabs * META, STACK_ALIGN)
StacksEnd(workers, slabs) == StacksAt(workers, slabs) + slabs * FreeStackSize(slab)
SlabsAt(workers, slabs) == RoundUp(StacksEnd(workers, slabs), slab)

\* Rounding up gives the next multiple.
LEMMA RoundUpFacts ==
  ASSUME NEW v \in Nat, NEW n \in Nat \ {0}
  PROVE  /\ RoundUp(v, n) \in Nat /\ RoundUp(v, n) >= v /\ RoundUp(v, n) % n = 0
         /\ RoundUp(v, n) < v + n
         /\ \A k \in Nat : v <= k * n => RoundUp(v, n) <= k * n
<1>1. PICK q \in Nat : q = (v + n - 1) \div n
  OBVIOUS
<1>2. v + n - 1 < (q + 1) * n /\ q * n <= v + n - 1
  BY <1>1, SMT
<1>3. (q + 1) * n = q * n + n /\ q * n \in Nat /\ (q * n) % n = 0
  BY SMT
<1>4. ASSUME NEW k \in Nat, v <= k * n PROVE q * n <= k * n
  <2>1. CASE q <= k
    BY <2>1, SMT
  <2>2. CASE k + 1 <= q
    <3>1. (k + 1) * n <= q * n /\ (k + 1) * n = k * n + n /\ k * n \in Nat
      BY <2>2, SMT
    <3> QED BY <1>2, <1>4, <3>1
  <2> QED BY <2>1, <2>2
<1> QED BY <1>1, <1>2, <1>3, <1>4 DEF RoundUp

\* The fields of a layout.
LEMMA LayoutFields ==
  ASSUME NEW w, NEW n
  PROVE  LayoutFor(w, slab, n) =
           [num_slabs |-> n,
            free_list_elements_offset |-> AsU32(WithHeads(w)),
            slab_shared_meta_offset |-> AsU32(MetaAt(w, n)),
            slab_free_stacks_offset |-> AsU32(StacksAt(w, n)),
            slabs_offset |-> AsU32(SlabsAt(w, n))]
  BY DEF LayoutFor, MetaAt, StacksAt, StacksEnd, SlabsAt

\* An offset that fits in its 32 bits is not changed, and none grows.
LEMMA AsU32Facts ==
  ASSUME NEW v \in Nat
  PROVE  AsU32(v) \in Nat /\ AsU32(v) <= v /\ (v < 2^30 => AsU32(v) = v)
  BY SMT DEF AsU32

\* Sections are in order and aligned, a worker takes the same room whatever
\* comes behind its heads, and the metadata grows with the number of slabs.
LEMMA SectionFacts ==
  ASSUME slab \in Nat \ {0}, NEW w \in Nat, NEW n \in Nat
  PROVE  /\ MetaAt(w, n) \in Nat /\ StacksAt(w, n) \in Nat /\ StacksEnd(w, n) \in Nat
         /\ SlabsAt(w, n) \in Nat
         /\ WithHeads(w) + n * NODE <= MetaAt(w, n)
         /\ MetaAt(w, n) + n * META <= StacksAt(w, n)
         /\ StacksEnd(w, n) <= SlabsAt(w, n)
         /\ MetaAt(w, n) % META_ALIGN = 0 /\ StacksAt(w, n) % STACK_ALIGN = 0
         /\ SlabsAt(w, n) % slab = 0
         /\ StacksEnd(w, n) = StacksEnd(0, n) + w * HEADS
         /\ \A m \in Nat : n <= m => SlabsAt(w, n) <= SlabsAt(w, m)
<1> USE DEF HEADER, HEADS, NODE, META, META_ALIGN, STACK_ALIGN
<1>1. PICK f \in Nat : f = FreeStackSize(slab)
  <2>1. slab \div 64 \in Nat
    BY SMT
  <2>2. \A x \in Nat : x \div 2 \in Nat
    BY SMT
  <2> QED BY <2>1, <2>2 DEF FreeStackSize, MIN_SIZE
<1>2. \A m \in Nat : m * f \in Nat
  OBVIOUS
<1>2a. \A v, m \in Nat : StacksEnd(v, m) = StacksAt(v, m) + m * f
  BY <1>1 DEF StacksEnd
<1>3. ASSUME NEW v \in Nat, NEW m \in Nat
      PROVE  /\ MetaAt(v, m) \in Nat /\ StacksAt(v, m) \in Nat /\ StacksEnd(v, m) \in Nat
             /\ SlabsAt(v, m) \in Nat
             /\ WithHeads(v) + m * NODE <= MetaAt(v, m)
             /\ MetaAt(v, m) + m * META <= StacksAt(v, m)
             /\ StacksEnd(v, m) <= SlabsAt(v, m)
             /\ MetaAt(v, m) % META_ALIGN = 0 /\ StacksAt(v, m) % STACK_ALIGN = 0
             /\ SlabsAt(v, m) % slab = 0
  <2>1. WithHeads(v) \in Nat /\ m * 3 \in Nat /\ m * 32 \in Nat
    BY DEF WithHeads
  <2>2. MetaAt(v, m) \in Nat /\ WithHeads(v) + m * 3 <= MetaAt(v, m) /\ MetaAt(v, m) % 16 = 0
    BY <2>1, RoundUpFacts DEF MetaAt
  <2>3. /\ StacksAt(v, m) \in Nat /\ MetaAt(v, m) + m * 32 <= StacksAt(v, m)
        /\ StacksAt(v, m) % 2 = 0
    <3>1. MetaAt(v, m) + m * 32 \in Nat
      BY <2>1, <2>2
    <3> QED BY <3>1, RoundUpFacts DEF StacksAt
  <2>4. StacksEnd(v, m) \in Nat
    BY <1>2, <1>2a, <2>3
  <2>5. /\ SlabsAt(v, m) \in Nat /\ StacksEnd(v, m) <= SlabsAt(v, m)
        /\ SlabsAt(v, m) % slab = 0
    BY <2>4, RoundUpFacts DEF SlabsAt
  <2> QED BY <2>2, <2>3, <2>4, <2>5
<1>4. MetaAt(w, n) = MetaAt(0, n) + 16 * w
  BY SMT DEF MetaAt, RoundUp, WithHeads
<1>5. StacksAt(w, n) = StacksAt(0, n) + 16 * w
  <2>1. ASSUME NEW a \in Nat, NEW b \in Nat, a = b + 16 * w
        PROVE  RoundUp(a + n * 32, 2) = RoundUp(b + n * 32, 2) + 16 * w
    BY <2>1, SMT DEF RoundUp
  <2> QED BY <1>3, <1>4, <2>1 DEF StacksAt
<1>6. StacksEnd(w, n) = StacksEnd(0, n) + w * HEADS
  <2>1. n * f \in Nat /\ StacksAt(0, n) \in Nat /\ 16 * w = w * 16
    BY <1>2, <1>3
  <2> QED BY <1>5, <1>2a, <2>1
<1>7. ASSUME NEW m \in Nat, n <= m PROVE SlabsAt(w, n) <= SlabsAt(w, m)
  <2>1. MetaAt(w, n) <= MetaAt(w, m)
    BY <1>7, SMT DEF MetaAt, RoundUp, WithHeads
  <2>2. StacksAt(w, n) <= StacksAt(w, m)
    <3>1. ASSUME NEW a \in Nat, NEW b \in Nat, a <= b
          PROVE  RoundUp(a + n * 32, 2) <= RoundUp(b + m * 32, 2)
      BY <1>7, <3>1, SMT DEF RoundUp
    <3> QED BY <1>3, <2>1, <3>1 DEF StacksAt
  <2>3. n * f <= m * f
    BY <1>7, SMT
  <2>4. StacksEnd(w, n) <= StacksEnd(w, m)
    <3>1. /\ n * f \in Nat /\ m * f \in Nat /\ StacksAt(w, n) \in Nat /\ StacksAt(w, m) \in Nat
          /\ StacksEnd(w, n) = StacksAt(w, n) + n * f
          /\ StacksEnd(w, m) = StacksAt(w, m) + m * f
      BY <1>2, <1>3, <1>2a
    <3> QED BY <2>2, <2>3, <3>1
  <2>5. PICK k \in Nat : RoundUp(StacksEnd(w, m), slab) = k * slab
    <3>1. StacksEnd(w, m) + slab - 1 \in Nat
      <4>1. StacksEnd(w, m) \in Nat
        BY <1>3
      <4> QED BY <4>1
    <3>2. (StacksEnd(w, m) + slab - 1) \div slab \in Nat
      BY <3>1, SMT
    <3> QED BY <3>2 DEF RoundUp
  <2>6. StacksEnd(w, n) <= k * slab
    <3>1. /\ StacksEnd(w, n) \in Nat /\ StacksEnd(w, m) \in Nat
          /\ SlabsAt(w, m) = k * slab /\ StacksEnd(w, m) <= SlabsAt(w, m) /\ k * slab \in Nat
      BY <1>3, <2>5 DEF SlabsAt
    <3> QED BY <2>4, <3>1
  <2>7. StacksEnd(w, n) \in Nat
    BY <1>3
  <2> QED BY <2>5, <2>6, <2>7, RoundUpFacts DEF SlabsAt
<1> QED BY <1>3, <1>6, <1>7


\* The metadata of a slab is smaller than a slab: n slabs of memory have room
\* for the metadata of n slabs and no worker.
LEMMA MetadataIsSmall ==
  ASSUME slab \in Nat, VerifySlabSize(slab), NEW n \in Nat \ {0}
  PROVE  SlabsAt(0, n) <= n * slab
<1> USE DEF HEADER, HEADS, NODE, META, META_ALIGN, STACK_ALIGN
<1>1. slab \in Nat \ {0} /\ slab >= 4096
  BY SlabSizeFacts
<1>2. PICK f \in Nat : f = FreeStackSize(slab) /\ f + 35 + 48 <= slab
  <2>1. FreeStackSize(slab) \in Nat /\ FreeStackSize(slab) + 83 <= slab
    BY SlabSizeFacts DEF FreeStackSize, MIN_SIZE
  <2> QED BY <2>1
<1>2a. MetaAt(0, n) \in Nat /\ StacksAt(0, n) \in Nat /\ StacksEnd(0, n) \in Nat
  <2>1. 0 \in Nat /\ n \in Nat /\ slab \in Nat \ {0}
    BY <1>1
  <2>2. MetaAt(0, n) \in Nat
    BY <2>1, SectionFacts, Zenon
  <2>3. StacksAt(0, n) \in Nat
    BY <2>1, SectionFacts, Zenon
  <2>4. StacksEnd(0, n) \in Nat
    BY <2>1, SectionFacts, Zenon
  <2> QED BY <2>2, <2>3, <2>4
<1>3. StacksEnd(0, n) <= 48 + n * (35 + f)
  <2>1. MetaAt(0, n) <= 32 + n * 3 + 15
    BY RoundUpFacts DEF MetaAt, WithHeads
  <2>2. MetaAt(0, n) \in Nat /\ n * 32 \in Nat /\ MetaAt(0, n) + n * 32 \in Nat
    BY <1>2a
  <2>3. StacksAt(0, n) <= MetaAt(0, n) + n * 32 + 1
    <3>1. RoundUp(MetaAt(0, n) + n * 32, 2) < MetaAt(0, n) + n * 32 + 2
      BY <2>2, RoundUpFacts
    <3> QED BY <1>2a, <2>2, <3>1 DEF StacksAt
  <2>4. StacksAt(0, n) \in Nat /\ n * f \in Nat /\ StacksEnd(0, n) = StacksAt(0, n) + n * f
    BY <1>2, <1>2a DEF StacksEnd
  <2>5. n * (35 + f) = n * 35 + n * f
    BY SMT
  <2> QED BY <2>1, <2>2, <2>3, <2>4, <2>5
<1>4. 48 + n * (35 + f) <= n * slab
  <2>1. n * (35 + f + 48) <= n * slab
    BY <1>2, <1>1, SMT
  <2>2. n * (35 + f + 48) = n * (35 + f) + n * 48
    BY SMT
  <2> QED BY <2>1, <2>2
<1>5. StacksEnd(0, n) <= n * slab
  <2>1. n * slab \in Nat /\ n * (35 + f) \in Nat
    BY <1>1
  <2> QED BY <1>2a, <1>3, <1>4, <2>1
<1> QED BY <1>1, <1>2a, <1>5, RoundUpFacts DEF SlabsAt

-----------------------------------------------------------------------------
(* max_workers. *)

\* What m metadata slabs have room for.
LEMMA LimitFacts ==
  ASSUME slab \in Nat, VerifySlabSize(slab), total \in Nat, NEW m \in 1 .. total - 1
  PROVE  /\ Base(m) \in Nat /\ Base(m) <= SlabsAt(0, total - m)
         /\ SlabsAt(0, total - m) < 2^30 => Base(m) = SlabsAt(0, total - m)
         /\ Needed(m) \in 1 .. total - 1 \/ Needed(m) = 0
         /\ (TooFew(m) <=> m * slab < Base(m))
         /\ ~TooFew(m) => WorkersIn(m) \in Nat /\ Base(m) + WorkersIn(m) * HEADS <= m * slab
<1>1. slab \in Nat \ {0} /\ total - m \in Nat \ {0}
  BY SlabSizeFacts
<1>2. SlabsAt(0, total - m) \in Nat
  BY <1>1, SectionFacts
<1>3. Base(m) = AsU32(SlabsAt(0, total - m))
  BY LayoutFields DEF Base
<1>4. /\ Base(m) \in Nat /\ Base(m) <= SlabsAt(0, total - m)
      /\ SlabsAt(0, total - m) < 2^30 => Base(m) = SlabsAt(0, total - m)
  BY <1>2, <1>3, AsU32Facts
<1>5. Base(m) <= (total - m) * slab
  <2>1. SlabsAt(0, total - m) <= (total - m) * slab
    BY <1>1, MetadataIsSmall
  <2>2. (total - m) * slab \in Nat
    BY <1>1
  <2> QED BY <1>2, <1>4, <2>1, <2>2
<1>6. ASSUME NEW b \in Nat, NEW z \in Nat \ {0}, NEW k \in Nat
      PROVE  /\ (b + z - 1) \div z \in Nat
             /\ ((b + z - 1) \div z <= k <=> b <= k * z)
  <2>1. PICK q \in Nat : q = (b + z - 1) \div z
    OBVIOUS
  <2>2. b + z - 1 < (q + 1) * z /\ q * z <= b + z - 1
    BY <2>1, SMT
  <2>3. (q + 1) * z = q * z + z /\ q * z \in Nat /\ k * z \in Nat
    BY SMT
  <2>4. CASE q <= k
    <3>1. q * z <= k * z
      BY <2>4, SMT
    <3> QED BY <2>1, <2>2, <2>3, <2>4, <3>1
  <2>5. CASE k + 1 <= q
    <3>1. (k + 1) * z <= q * z /\ (k + 1) * z = k * z + z
      BY <2>5, SMT
    <3> QED BY <2>1, <2>2, <2>3, <2>5, <3>1
  <2> QED BY <2>4, <2>5
<1>7. /\ Needed(m) \in Nat
      /\ Needed(m) <= total - m
      /\ (Needed(m) <= m <=> Base(m) <= m * slab)
  BY <1>1, <1>4, <1>5, <1>6 DEF Needed, DivCeil
<1>8. TooFew(m) <=> m * slab < Base(m)
  <2>1. m * slab \in Nat
    BY <1>1
  <2> QED BY <1>4, <1>7, <2>1 DEF TooFew
<1>9. ASSUME ~TooFew(m)
      PROVE  WorkersIn(m) \in Nat /\ Base(m) + WorkersIn(m) * HEADS <= m * slab
  <2>1. PICK room \in Nat : room = m * slab - Base(m)
    <3>1. m * slab \in Nat /\ Base(m) <= m * slab
      BY <1>1, <1>4, <1>8, <1>9
    <3> QED BY <1>4, <3>1
  <2>2. WorkersIn(m) \in Nat /\ WorkersIn(m) * 16 <= room
    BY <2>1 DEF WorkersIn, HEADS
  <2>3. m * slab \in Nat
    BY <1>1
  <2> QED BY <1>4, <2>1, <2>2, <2>3 DEF HEADS
<1> QED BY <1>4, <1>7, <1>8, <1>9


-----------------------------------------------------------------------------
(* The path of the loop of max_workers, as create runs it with its own       *)
(* min_workers.                                                              *)

\* A set of numbers of metadata slabs that no round of the loop leaves.
Closed(P) ==
    \A m \in P : m \in 1 .. total - 1 =>
        /\ TooFew(m) => Needed(m) \in P
        /\ ~TooFew(m) /\ WorkersIn(m) < min => m + 1 \in P

\* The loop comes from m to n.
Leads(m, n) == \A P \in SUBSET Nat : Closed(P) /\ m \in P => n \in P

\* create found m, and wrote the header for it.
Found(m) ==
    /\ m \in 1 .. total - 1
    /\ ~TooFew(m) /\ WorkersIn(m) >= min
    /\ Leads(1, m)
    /\ header = HeaderFor(m)

Verified ==
    pc \notin {"create", "InvalidNumWorkers", "InvalidSlabSize"} => min > 0 /\ VerifySlabSize(slab)

\* Where create and join are on that path.
OnPath ==
    /\ InLimits => meta \in Nat \ {0}
    /\ pc = "create_limits" => Leads(1, meta)
    /\ pc \in {"create", "create_limits"} \cup Errors => header = NoHeader
    /\ header = NoHeader \/ \E m \in Nat : Found(m)
    /\ pc \in {"created", "join_limits", "joined"} => header # NoHeader
    /\ pc = "join_limits" => \A m \in Nat : Found(m) => Leads(meta, m)

\* When the loop of create gives up, it has been to total - 1.
WentThrough ==
    /\ pc \in {"create_limits", "InvalidFileSize"} /\ TotalSlabsOK(total) =>
          \/ meta = 1
          \/ meta < total
          \/ meta = total /\ ~TooFew(total - 1) /\ WorkersIn(total - 1) < min
    /\ pc = "InvalidFileSize" /\ TotalSlabsOK(total) => total <= meta

LayoutInv == TypeOK /\ Verified /\ OnPath /\ WentThrough /\ JoinAgrees

\* The loop goes up.
LEMMA LeadsUp ==
  ASSUME slab \in Nat, VerifySlabSize(slab), total \in Nat, min \in Nat,
         NEW m \in Nat, NEW n \in Nat, Leads(m, n)
  PROVE  m <= n
<1> DEFINE P == {k \in Nat : m <= k}
<1>1. Closed(P)
  <2> SUFFICES ASSUME NEW k \in P, k \in 1 .. total - 1
               PROVE  /\ TooFew(k) => Needed(k) \in P
                      /\ ~TooFew(k) /\ WorkersIn(k) < min => k + 1 \in P
    BY DEF Closed
  <2>1. TooFew(k) => Needed(k) \in P
    <3>1. Needed(k) \in Nat
      BY LimitFacts
    <3> QED BY <3>1 DEF TooFew
  <2> QED BY <2>1
<1>2. n \in P
  BY <1>1 DEF Leads
<1> QED BY <1>2

\* One more round of create leads further.
LEMMA LeadsOn ==
  ASSUME NEW m, NEW n \in Nat, NEW k, Leads(m, n), n \in 1 .. total - 1,
         \/ TooFew(n) /\ k = Needed(n)
         \/ ~TooFew(n) /\ WorkersIn(n) < min /\ k = n + 1
  PROVE  Leads(m, k)
  BY DEF Leads, Closed

\* A round of create that is not the last leads where the path led.
LEMMA LeadsFrom ==
  ASSUME NEW m \in Nat, NEW n \in Nat, NEW k \in Nat, Leads(m, n), m # n,
         \/ TooFew(m) /\ k = Needed(m)
         \/ ~TooFew(m) /\ k = m + 1
  PROVE  Leads(k, n)
<1> SUFFICES ASSUME NEW P \in SUBSET Nat, Closed(P), k \in P
             PROVE  n \in P
  BY DEF Leads
<1>1. Closed(P \cup {m})
  BY DEF Closed
<1> QED BY <1>1 DEF Leads

\* Where the loop of create stops, its path ends.
LEMMA LeadsNoFurther ==
  ASSUME NEW m \in Nat, NEW n \in Nat, Leads(m, n), ~TooFew(m), ~(WorkersIn(m) < min)
  PROVE  n = m
<1>1. Closed({m})
  BY DEF Closed
<1> QED BY <1>1 DEF Leads


\* The arguments of create do not change, so neither does the path.
LEMMA SamePath ==
  ASSUME UNCHANGED <<slab, total, min>>
  PROVE  \A m : /\ (TooFew(m)' <=> TooFew(m)) /\ Needed(m)' = Needed(m)
                /\ WorkersIn(m)' = WorkersIn(m) /\ HeaderFor(m)' = HeaderFor(m)
                /\ \A n : (Leads(m, n)' <=> Leads(m, n))
<1>1. \A m : Needed(m)' = Needed(m) /\ WorkersIn(m)' = WorkersIn(m)
  BY DEF Needed, WorkersIn, Base
<1>2. \A m : (TooFew(m)' <=> TooFew(m)) /\ HeaderFor(m)' = HeaderFor(m)
  BY <1>1 DEF TooFew, HeaderFor
<1>3. ASSUME NEW P PROVE Closed(P)' <=> Closed(P)
  BY <1>1, <1>2 DEF Closed
<1>4. \A m, n : (Leads(m, n)' <=> Leads(m, n))
  BY <1>3 DEF Leads
<1> QED BY <1>1, <1>2, <1>4

\* What create found still stands while the header does.
LEMMA SameFound ==
  ASSUME UNCHANGED <<slab, total, min, header>>
  PROVE  \A m : (Found(m)' <=> Found(m))
  BY SamePath DEF Found

\* A header that was written has workers.
LEMMA FoundFacts ==
  ASSUME slab \in Nat, VerifySlabSize(slab), total \in Nat, min \in Nat \ {0},
         NEW m, Found(m)
  PROVE  /\ header.num_workers = WorkersIn(m) /\ WorkersIn(m) \in Nat \ {0}
         /\ header # NoHeader /\ header.num_slabs = total - m
<1>1. m \in 1 .. total - 1 /\ ~TooFew(m) /\ WorkersIn(m) >= min
  BY DEF Found
<1>2. WorkersIn(m) \in Nat
  BY <1>1, LimitFacts
<1>3. header.num_workers = WorkersIn(m)
  BY DEF Found, HeaderFor
<1>4. header.num_slabs = total - m
  BY DEF Found, HeaderFor, LayoutFor
<1> QED BY <1>1, <1>2, <1>3, <1>4 DEF NoHeader

\* create has not begun, and there is no header.
LEMMA InitLayoutInv == Init => LayoutInv
<1> SUFFICES ASSUME Init PROVE LayoutInv
  OBVIOUS
<1>1. TypeOK /\ Verified /\ WentThrough /\ JoinAgrees
  BY DEF Init, TypeOK, Verified, WentThrough, JoinAgrees
<1>2. OnPath
  BY DEF Init, OnPath, InLimits
<1> QED BY <1>1, <1>2 DEF LayoutInv

\* create refuses its arguments or starts, and join starts.
LEMMA StartStep ==
  ASSUME LayoutInv, CreateRefuses \/ CreateStart \/ JoinStart
  PROVE  LayoutInv'
<1>1. UNCHANGED <<slab, total, min, header>>
  BY DEF CreateRefuses, CreateStart, JoinStart
<1>2. CASE CreateRefuses
  <2>1. /\ pc = "create" /\ header = NoHeader
        /\ pc' \in {"InvalidNumWorkers", "InvalidSlabSize", "InvalidFileSize"}
        /\ meta' = meta
        /\ pc' = "InvalidFileSize" => min > 0 /\ VerifySlabSize(slab) /\ ~TotalSlabsOK(total)
    BY <1>2 DEF CreateRefuses, LayoutInv, OnPath
  <2>2. TypeOK' /\ Verified' /\ JoinAgrees'
    BY <1>1, <2>1 DEF LayoutInv, TypeOK, Verified, JoinAgrees, Errors
  <2>3. WentThrough'
    BY <1>1, <2>1 DEF WentThrough
  <2>4. OnPath'
    BY <1>1, <2>1 DEF OnPath, InLimits
  <2> QED BY <2>2, <2>3, <2>4 DEF LayoutInv
<1>3. CASE CreateStart
  <2>1. /\ pc = "create" /\ header = NoHeader /\ pc' = "create_limits" /\ meta' = 1
        /\ min > 0 /\ VerifySlabSize(slab)
    BY <1>3 DEF CreateStart, LayoutInv, OnPath
  <2>2. TypeOK' /\ Verified' /\ JoinAgrees'
    BY <1>1, <2>1 DEF LayoutInv, TypeOK, Verified, JoinAgrees
  <2>3. WentThrough'
    BY <2>1 DEF WentThrough
  <2>4. Leads(1, 1)'
    BY DEF Leads
  <2>5. OnPath'
    BY <1>1, <2>1, <2>4 DEF OnPath, InLimits, Errors
  <2> QED BY <2>2, <2>3, <2>5 DEF LayoutInv
<1>4. CASE JoinStart
  <2>1. pc = "created" /\ pc' = "join_limits" /\ meta' = 1 /\ header # NoHeader
    BY <1>4 DEF JoinStart, LayoutInv, OnPath
  <2>2. TypeOK' /\ Verified' /\ JoinAgrees' /\ WentThrough'
    BY <1>1, <2>1 DEF LayoutInv, TypeOK, Verified, JoinAgrees, WentThrough
  <2>3. \A m \in Nat : Found(m)' => Leads(meta, m)'
    BY <2>1 DEF Found
  <2>4. \E m \in Nat : Found(m)'
    BY <1>1, <2>1, SameFound DEF LayoutInv, OnPath
  <2>5. OnPath'
    BY <1>1, <2>1, <2>3, <2>4 DEF OnPath, InLimits, Errors
  <2> QED BY <2>2, <2>5 DEF LayoutInv
<1> QED BY <1>2, <1>3, <1>4

\* The values that a step of the loop needs.
LEMMA LoopTypes ==
  ASSUME LayoutInv, InLimits
  PROVE  /\ slab \in Nat /\ VerifySlabSize(slab) /\ total \in Nat /\ min \in Nat \ {0}
         /\ meta \in Nat \ {0}
  BY DEF LayoutInv, InLimits, TypeOK, Verified, OnPath

\* join stays below what create found, and takes the same rounds.
LEMMA JoinFollows ==
  ASSUME LayoutInv, pc = "join_limits", NEW m \in Nat, Found(m)
  PROVE  /\ meta < total /\ Leads(meta, m)
         /\ ~TooFew(meta) /\ WorkersIn(meta) >= header.num_workers => meta = m
         /\ TooFew(meta) \/ WorkersIn(meta) < header.num_workers => meta # m
<1>1. /\ slab \in Nat /\ VerifySlabSize(slab) /\ total \in Nat /\ min \in Nat \ {0}
      /\ meta \in Nat \ {0}
  BY LoopTypes DEF InLimits
<1>2. Leads(meta, m)
  BY DEF LayoutInv, OnPath
<1>3. meta <= m /\ m \in 1 .. total - 1 /\ ~TooFew(m) /\ WorkersIn(m) >= min
  BY <1>1, <1>2, LeadsUp DEF Found
<1>4. header.num_workers = WorkersIn(m) /\ WorkersIn(m) \in Nat
  BY <1>1, FoundFacts
<1>5. ASSUME ~TooFew(meta), WorkersIn(meta) >= header.num_workers
      PROVE  meta = m
  <2>1. WorkersIn(meta) \in Nat
    BY <1>1, <1>3, <1>5, LimitFacts
  <2>2. ~(WorkersIn(meta) < min)
    BY <1>1, <1>3, <1>4, <1>5, <2>1
  <2> QED BY <1>1, <1>2, <1>5, <2>2, LeadsNoFurther
<1>6. meta < total
  BY <1>1, <1>3
<1> QED BY <1>2, <1>3, <1>4, <1>5, <1>6

\* A round that raises meta_slabs.
LEMMA RoundStep ==
  ASSUME LayoutInv, LimitsRaise \/ LimitsMore
  PROVE  LayoutInv'
<1>1. UNCHANGED <<slab, total, min, pc, header>> /\ InLimits /\ total > meta
  BY DEF LimitsRaise, LimitsMore
<1>2. /\ slab \in Nat /\ VerifySlabSize(slab) /\ total \in Nat /\ min \in Nat \ {0}
      /\ meta \in Nat \ {0} /\ meta \in 1 .. total - 1
  BY <1>1, LoopTypes
<1>3. \/ TooFew(meta) /\ meta' = Needed(meta)
      \/ ~TooFew(meta) /\ WorkersIn(meta) < MinNow /\ meta' = meta + 1
  BY DEF LimitsRaise, LimitsMore
<1>4. meta' \in Nat \ {0} /\ (TooFew(meta) => meta' < total)
  <2>1. Needed(meta) \in 1 .. total - 1 \/ Needed(meta) = 0
    BY <1>2, LimitFacts
  <2> QED BY <1>2, <1>3, <2>1 DEF TooFew
<1>5. TypeOK' /\ Verified' /\ JoinAgrees'
  BY <1>1, <1>4 DEF LayoutInv, TypeOK, Verified, JoinAgrees
<1>6. CASE pc = "create_limits"
  <2>1. MinNow = min
    BY <1>6 DEF MinNow
  <2>2. Leads(1, meta')
    <3>1. Leads(1, meta)
      BY <1>6 DEF LayoutInv, OnPath
    <3> QED BY <1>2, <1>3, <2>1, <3>1, LeadsOn
  <2>3. Leads(1, meta)'
    BY <1>1, <2>2, SamePath
  <2>4. OnPath'
    <3>1. header' = NoHeader
      BY <1>1, <1>6 DEF LayoutInv, OnPath
    <3> QED BY <1>1, <1>4, <1>6, <2>3, <3>1 DEF OnPath, Errors, InLimits
  <2>5. WentThrough'
    <3>1. CASE TooFew(meta)
      BY <1>1, <1>4, <1>6, <3>1 DEF WentThrough
    <3>2. CASE ~TooFew(meta)
      <4>1. meta' = meta + 1 /\ WorkersIn(meta) < min
        BY <1>3, <2>1, <3>2
      <4>2. meta' < total \/ (meta' = total /\ meta = total' - 1)
        BY <1>1, <1>2, <4>1
      <4>3. PICK n \in Nat : n = meta
        BY <1>2
      <4>4. ~TooFew(n)' /\ WorkersIn(n)' < min'
        BY <1>1, <3>2, <4>1, <4>3, SamePath
      <4>5. CASE meta' < total'
        BY <1>1, <1>6, <4>5 DEF WentThrough
      <4>6. CASE meta' = total'
        <5>1. n = total' - 1
          BY <1>1, <1>2, <4>1, <4>3, <4>6
        <5>2. (~TooFew(total - 1) /\ WorkersIn(total - 1) < min)'
          BY <4>4, <5>1
        <5> QED BY <1>1, <1>6, <4>6, <5>2 DEF WentThrough
      <4> QED BY <1>1, <4>2, <4>5, <4>6
    <3> QED BY <3>1, <3>2
  <2> QED BY <1>5, <2>4, <2>5 DEF LayoutInv
<1>7. CASE pc = "join_limits"
  <2>1. MinNow = header.num_workers
    BY <1>7 DEF MinNow
  <2>2. ASSUME NEW m \in Nat, Found(m) PROVE Leads(meta', m)
    <3>1. Leads(meta, m) /\ (TooFew(meta) \/ WorkersIn(meta) < header.num_workers => meta # m)
      BY <1>7, <2>2, JoinFollows
    <3>2. meta # m
      BY <1>3, <2>1, <3>1
    <3> QED BY <1>2, <1>3, <1>4, <3>1, <3>2, LeadsFrom
  <2>3. \A m \in Nat : Found(m)' => Leads(meta, m)'
    BY <1>1, <2>2, SamePath, SameFound
  <2>4. OnPath'
    <3>1. header # NoHeader /\ \E m \in Nat : Found(m)
      BY <1>7 DEF LayoutInv, OnPath
    <3>2. header' # NoHeader /\ \E m \in Nat : Found(m)'
      BY <1>1, <3>1, SameFound
    <3> QED BY <1>1, <1>4, <1>7, <2>3, <3>2 DEF OnPath, Errors
  <2>5. WentThrough'
    BY <1>1, <1>7 DEF WentThrough
  <2> QED BY <1>5, <2>4, <2>5 DEF LayoutInv
<1> QED BY <1>1, <1>6, <1>7 DEF InLimits


\* The loop ends: no number of slabs will do, or one does.
LEMMA EndStep ==
  ASSUME LayoutInv, LimitsNone \/ CreateDone \/ JoinDone
  PROVE  LayoutInv'
<1>1. UNCHANGED <<slab, total, min, meta>> /\ InLimits
  BY DEF LimitsNone, CreateDone, JoinDone, InLimits
<1>2. /\ slab \in Nat /\ VerifySlabSize(slab) /\ total \in Nat /\ min \in Nat \ {0}
      /\ meta \in Nat \ {0}
  BY <1>1, LoopTypes
<1>3. CASE pc = "join_limits"
  <2>1. PICK m \in Nat : Found(m)
    BY <1>3 DEF LayoutInv, OnPath
  <2>2. meta < total /\ (~TooFew(meta) /\ WorkersIn(meta) >= header.num_workers => meta = m)
    BY <1>3, <2>1, JoinFollows
  <2>3. JoinDone
    BY <1>2, <1>3, <2>2 DEF LimitsNone, CreateDone
  <2>4. meta = m
    BY <1>3, <2>2, <2>3 DEF JoinDone, LimitsFound, MinNow
  <2>5. pc' = "joined" /\ header' = header
    BY <2>1, <2>3, <2>4 DEF JoinDone, Found
  <2>6. TypeOK' /\ Verified' /\ JoinAgrees' /\ WentThrough'
    BY <1>1, <1>2, <2>5 DEF LayoutInv, TypeOK, Verified, JoinAgrees, WentThrough
  <2>7. header # NoHeader /\ Found(m)'
    BY <1>1, <1>3, <2>1, <2>5, SameFound DEF LayoutInv, OnPath
  <2>8. OnPath'
    BY <2>5, <2>7 DEF OnPath, InLimits, Errors
  <2> QED BY <2>6, <2>8 DEF LayoutInv
<1>4. CASE pc = "create_limits" /\ LimitsNone
  <2>1. pc' = "InvalidFileSize" /\ header' = NoHeader /\ header = NoHeader
    BY <1>4 DEF LimitsNone, LayoutInv, OnPath
  <2>2. TypeOK' /\ Verified' /\ JoinAgrees'
    BY <1>1, <1>2, <2>1 DEF LayoutInv, TypeOK, Verified, JoinAgrees, Errors
  <2>3. OnPath'
    BY <2>1 DEF OnPath, InLimits
  <2>4. WentThrough'
    <3>1. TotalSlabsOK(total) =>
             \/ meta = 1
             \/ meta < total
             \/ meta = total /\ ~TooFew(total - 1) /\ WorkersIn(total - 1) < min
      BY <1>4 DEF LayoutInv, WentThrough
    <3>2. PICK n : n = total - 1
      OBVIOUS
    <3>3. TotalSlabsOK(total) =>
             \/ meta = 1
             \/ meta < total
             \/ meta = total /\ ~TooFew(n)' /\ WorkersIn(n)' < min
      BY <1>1, <3>1, <3>2, SamePath
    <3>4. n = total' - 1
      BY <1>1, <3>2
    <3>5. total' <= meta'
      BY <1>1, <1>4 DEF LimitsNone
    <3> QED BY <1>1, <3>3, <3>4, <3>5 DEF WentThrough
  <2> QED BY <2>2, <2>3, <2>4 DEF LayoutInv
<1>5. CASE pc = "create_limits" /\ CreateDone
  <2>1. /\ pc' = "created" /\ header' = HeaderFor(meta) /\ total > meta
        /\ ~TooFew(meta) /\ WorkersIn(meta) >= min
    BY <1>5 DEF CreateDone, LimitsFound, MinNow
  <2>2. Leads(1, meta)
    BY <1>5 DEF LayoutInv, OnPath
  <2>3. PICK m \in Nat : m = meta
    BY <1>2
  <2>4. Found(m)'
    BY <1>1, <1>2, <2>1, <2>2, <2>3, SamePath DEF Found
  <2>5. header.num_workers' \in Nat \ {0} /\ header' # NoHeader
    BY <2>1, <1>2, LimitFacts DEF HeaderFor, NoHeader
  <2>6. TypeOK' /\ Verified' /\ JoinAgrees' /\ WentThrough'
    BY <1>1, <1>2, <2>1, <2>5 DEF LayoutInv, TypeOK, Verified, JoinAgrees, WentThrough
  <2>7. OnPath'
    BY <2>1, <2>4, <2>5 DEF OnPath, InLimits, Errors
  <2> QED BY <2>6, <2>7 DEF LayoutInv
<1>6. pc = "create_limits" => LimitsNone \/ CreateDone
  BY DEF JoinDone
<1> QED BY <1>1, <1>3, <1>4, <1>5, <1>6 DEF InLimits

\* Every step of create and join keeps the invariant.
LEMMA NextLayoutInv == LayoutInv /\ [Next]_vars => LayoutInv'
<1> SUFFICES ASSUME LayoutInv, [Next]_vars PROVE LayoutInv'
  OBVIOUS
<1>1. CASE Next
  BY <1>1, StartStep, RoundStep, EndStep DEF Next
<1>2. CASE UNCHANGED vars
  <2>1. UNCHANGED <<slab, total, min, pc, meta, header>>
    BY <1>2 DEF vars
  <2>2. TypeOK' /\ Verified' /\ JoinAgrees'
    BY <2>1 DEF LayoutInv, TypeOK, Verified, JoinAgrees
  <2>3. WentThrough'
    BY <2>1, SamePath DEF LayoutInv, WentThrough
  <2>4. OnPath'
    BY <2>1, SamePath, SameFound DEF LayoutInv, OnPath, InLimits
  <2> QED BY <2>2, <2>3, <2>4 DEF LayoutInv
<1> QED BY <1>1, <1>2


-----------------------------------------------------------------------------
(* Files whose metadata lies below 4 GiB, where no offset loses a bit. *)

\* The metadata of all slabs, and the metadata that was laid out.
MetadataFits ==
    /\ SlabsAt(0, total) < 2^30
    /\ Written => SlabsAt(header.num_workers, header.num_slabs) < 2^30

\* Base is exact in such a file.
LEMMA BaseExact ==
  ASSUME slab \in Nat, VerifySlabSize(slab), total \in Nat, SlabsAt(0, total) < 2^30,
         NEW m \in 1 .. total - 1
  PROVE  Base(m) = SlabsAt(0, total - m)
<1>1. slab \in Nat \ {0} /\ total - m \in Nat /\ total - m <= total /\ 0 \in Nat
  BY SlabSizeFacts
<1>2. SlabsAt(0, total - m) <= SlabsAt(0, total)
  BY <1>1, SectionFacts
<1>3. SlabsAt(0, total - m) \in Nat /\ SlabsAt(0, total) \in Nat
  BY <1>1, SectionFacts
<1>4. SlabsAt(0, total - m) < 2^30
  BY <1>2, <1>3
<1> QED BY <1>4, LimitFacts

\* The sections that create lays out are in order, aligned and in the file.
LEMMA FoundInOrder ==
  ASSUME LayoutInv, MetadataFits, Written
  PROVE  SectionsInOrder
<1>1. PICK m \in Nat : Found(m)
  BY DEF LayoutInv, OnPath, Written
<1>2. /\ slab \in Nat \ {0} /\ VerifySlabSize(slab) /\ total \in Nat /\ min \in Nat \ {0}
      /\ m \in 1 .. total - 1 /\ ~TooFew(m)
  <2>1. slab \in Nat /\ VerifySlabSize(slab) /\ total \in Nat /\ min \in Nat \ {0}
    BY DEF LayoutInv, TypeOK, Verified, OnPath, Written, Errors
  <2> QED BY <1>1, <2>1, SlabSizeFacts DEF Found
<1>3. PICK w \in Nat, n \in Nat \ {0} : w = WorkersIn(m) /\ n = total - m
  BY <1>2, LimitFacts
<1>4. /\ header.num_workers = w /\ header.num_slabs = n
      /\ header.free_list_elements_offset = AsU32(WithHeads(w))
      /\ header.slab_shared_meta_offset = AsU32(MetaAt(w, n))
      /\ header.slab_free_stacks_offset = AsU32(StacksAt(w, n))
      /\ header.slabs_offset = AsU32(SlabsAt(w, n))
  BY <1>1, <1>3, LayoutFields DEF Found, HeaderFor
<1>5. /\ MetaAt(w, n) \in Nat /\ StacksAt(w, n) \in Nat /\ StacksEnd(w, n) \in Nat
      /\ SlabsAt(w, n) \in Nat
      /\ WithHeads(w) + n * NODE <= MetaAt(w, n)
      /\ MetaAt(w, n) + n * META <= StacksAt(w, n)
      /\ StacksEnd(w, n) <= SlabsAt(w, n)
      /\ MetaAt(w, n) % META_ALIGN = 0 /\ StacksAt(w, n) % STACK_ALIGN = 0
      /\ SlabsAt(w, n) % slab = 0
      /\ StacksEnd(w, n) = StacksEnd(0, n) + w * HEADS
  BY <1>2, SectionFacts
<1>6. /\ StacksEnd(w, n) = StacksAt(w, n) + n * FreeStackSize(slab)
      /\ WithHeads(w) \in Nat /\ WithHeads(w) = HEADER + w * HEADS
      /\ n * NODE \in Nat /\ n * META \in Nat /\ n * FreeStackSize(slab) \in Nat
  <2>1. FreeStackSize(slab) \in Nat
    BY <1>2, SlabSizeFacts DEF FreeStackSize, MIN_SIZE
  <2> QED BY <2>1 DEF StacksEnd, WithHeads, HEADER, HEADS, NODE, META
<1>7. SlabsAt(w, n) < 2^30
  BY <1>4 DEF MetadataFits
<1>8. /\ AsU32(WithHeads(w)) = WithHeads(w) /\ AsU32(MetaAt(w, n)) = MetaAt(w, n)
      /\ AsU32(StacksAt(w, n)) = StacksAt(w, n) /\ AsU32(SlabsAt(w, n)) = SlabsAt(w, n)
  <2>1. /\ WithHeads(w) < 2^30 /\ MetaAt(w, n) < 2^30 /\ StacksAt(w, n) < 2^30
    BY <1>5, <1>6, <1>7
  <2> QED BY <1>5, <1>6, <1>7, <2>1, AsU32Facts
<1>9. SlabsAt(w, n) <= m * slab
  <2>1. Base(m) = SlabsAt(0, n) /\ Base(m) \in Nat
    BY <1>2, <1>3, BaseExact, LimitFacts DEF MetadataFits
  <2>2. Base(m) + w * HEADS <= m * slab
    BY <1>2, <1>3, LimitFacts
  <2>3. StacksEnd(0, n) <= SlabsAt(0, n) /\ StacksEnd(0, n) \in Nat
    BY <1>2, SectionFacts
  <2>4. StacksEnd(w, n) <= m * slab
    <3>1. m * slab \in Nat /\ w * HEADS \in Nat
      BY <1>2 DEF HEADS
    <3> QED BY <1>5, <2>1, <2>2, <2>3, <3>1
  <2> QED BY <1>2, <1>5, <2>4, RoundUpFacts DEF SlabsAt
<1>10. SlabsAt(w, n) \div slab + n <= total
  <2>1. ASSUME NEW v \in Nat, NEW z \in Nat \ {0}, NEW k \in Nat, v <= k * z
        PROVE  v \div z <= k
    BY <2>1, SMT
  <2>2. SlabsAt(w, n) \div slab <= m
    BY <1>2, <1>5, <1>9, <2>1
  <2>3. SlabsAt(w, n) \div slab \in Nat
    BY <1>2, <1>5, SMT
  <2> QED BY <1>2, <1>3, <2>2, <2>3
<1> QED BY <1>4, <1>5, <1>6, <1>8, <1>10 DEF SectionsInOrder

\* When the loop of create gives up, no number of metadata slabs would do: more
\* of them leave less to describe, so what would do for one does for the last.
LEMMA GivenUp ==
  ASSUME LayoutInv, SlabsAt(0, total) < 2^30
  PROVE  RefusesOnlyImpossible
<1> SUFFICES ASSUME pc = "InvalidFileSize", TotalSlabsOK(total),
                    NEW m \in 1 .. total - 1, Needed(m) <= m, WorkersIn(m) >= min
             PROVE  FALSE
  BY DEF RefusesOnlyImpossible
<1>1. /\ slab \in Nat \ {0} /\ VerifySlabSize(slab) /\ total \in Nat /\ min \in Nat /\ meta \in Nat
  <2>1. slab \in Nat /\ VerifySlabSize(slab) /\ total \in Nat /\ min \in Nat /\ meta \in Nat
    BY DEF LayoutInv, TypeOK, Verified
  <2> QED BY <2>1, SlabSizeFacts
<1>2. total >= 2 /\ ~TooFew(total - 1) /\ WorkersIn(total - 1) < min
  <2>1. total >= 2
    BY <1>1
  <2>2. /\ \/ meta = 1
           \/ meta < total
           \/ meta = total /\ ~TooFew(total - 1) /\ WorkersIn(total - 1) < min
        /\ total <= meta
    BY DEF LayoutInv, WentThrough
  <2> QED BY <1>1, <2>1, <2>2
<1>3. PICK last \in 1 .. total - 1 : last = total - 1
  BY <1>1, <1>2
<1>4. /\ Base(m) = SlabsAt(0, total - m) /\ Base(last) = SlabsAt(0, total - last)
      /\ Base(m) \in Nat /\ Base(last) \in Nat
  BY <1>1, BaseExact, LimitFacts
<1>5. Base(last) <= Base(m)
  <2>1. total - last \in Nat /\ total - m \in Nat /\ total - last <= total - m /\ 0 \in Nat
    BY <1>1, <1>3
  <2> QED BY <1>1, <1>4, <2>1, SectionFacts
<1>6. m * slab - Base(m) <= last * slab - Base(last)
  <2>1. m * slab <= last * slab
    BY <1>1, <1>3, SMT
  <2>2. m * slab \in Nat /\ last * slab \in Nat
    BY <1>1
  <2> QED BY <1>4, <1>5, <2>1, <2>2
<1>7. WorkersIn(m) <= WorkersIn(last)
  <2>1. PICK a \in Int, b \in Int : /\ a = m * slab - Base(m) /\ b = last * slab - Base(last)
                                    /\ a <= b
    BY <1>1, <1>4, <1>6
  <2>2. a \div 16 <= b \div 16
    BY <2>1, SMT
  <2> QED BY <2>1, <2>2 DEF WorkersIn, HEADS
<1>8. WorkersIn(m) \in Nat /\ WorkersIn(last) \in Nat
  BY <1>1, <1>2, <1>3, LimitFacts DEF TooFew
<1> QED BY <1>1, <1>2, <1>3, <1>7, <1>8


-----------------------------------------------------------------------------
(* Requests. *)

\* k is the logarithm of the next power of two.
NextPower(size, k) == Powers[k + 1] >= size /\ (k = 0 \/ Powers[k] < size)

\* The logarithm of the next power of two, if it has one of 32 bits.
LEMMA LogChosen ==
  ASSUME NEW size, \E k \in 0 .. 31 : NextPower(size, k)
  PROVE  \E k \in 0 .. 31 : Classes!NextPowerOfTwoLog(size) = k /\ NextPower(size, k)
<1> DEFINE IsLog(k) == 2^k >= size /\ (k = 0 \/ 2^(k - 1) < size)
<1>1. ASSUME NEW k \in 0 .. 31
      PROVE  IsLog(k) <=> NextPower(size, k)
  <2>1. 2^k = Powers[k + 1]
    BY PowersOfTwo, Zenon
  <2>2. ASSUME k # 0 PROVE 2^(k - 1) = Powers[k]
    <3>1. PICK j \in 0 .. 31 : j = k - 1 /\ j + 1 = k
      BY <2>2
    <3>2. 2^j = Powers[j + 1]
      BY PowersOfTwo, Zenon
    <3> QED BY <3>1, <3>2, Zenon
  <2> QED BY <2>1, <2>2, Zenon DEF NextPower
<1>2. \E k \in 0 .. 31 : IsLog(k)
  BY <1>1, Zenon
<1> HIDE DEF IsLog
<1>3. PICK k \in 0 .. 31 : k = (CHOOSE j \in 0 .. 31 : IsLog(j)) /\ IsLog(k)
  BY <1>2, Zenon
<1>4. Classes!NextPowerOfTwoLog(size) = k
  BY <1>3, Zenon DEF IsLog, Classes!NextPowerOfTwoLog
<1> QED BY <1>1, <1>3, <1>4, Zenon

\* Every size up to the largest class has one.
LEMMA LogFacts ==
  ASSUME NEW size \in Nat, size > 0, size <= 4096
  PROVE  \E k \in 0 .. 12 : Classes!NextPowerOfTwoLog(size) = k /\ NextPower(size, k)
<1>1. \E k \in 0 .. 31 : NextPower(size, k)
  <2>1. /\ Powers[1] = 1 /\ Powers[2] = 2 /\ Powers[3] = 4 /\ Powers[4] = 8 /\ Powers[5] = 16
        /\ Powers[6] = 32 /\ Powers[7] = 64 /\ Powers[8] = 128 /\ Powers[9] = 256
        /\ Powers[10] = 512 /\ Powers[11] = 1024 /\ Powers[12] = 2048 /\ Powers[13] = 4096
    BY DEF Powers
  <2>2. CASE size <= 16
    <3>1. \E k \in 0 .. 4 : NextPower(size, k)
      BY <2>1, <2>2 DEF NextPower
    <3> QED BY <3>1
  <2>3. CASE size > 16 /\ size <= 256
    <3>1. \E k \in 5 .. 8 : NextPower(size, k)
      BY <2>1, <2>3 DEF NextPower
    <3> QED BY <3>1
  <2>4. CASE size > 256
    <3>1. \E k \in 9 .. 12 : NextPower(size, k)
      BY <2>1, <2>4 DEF NextPower
    <3> QED BY <3>1
  <2> QED BY <2>2, <2>3, <2>4
<1>2. \E k \in 0 .. 31 : Classes!NextPowerOfTwoLog(size) = k /\ NextPower(size, k)
  BY <1>1, LogChosen
<1>3. \A j \in 13 .. 31 : Powers[j] \in Nat /\ Powers[j] >= 4096
  BY DEF Powers
<1>4. \A k \in 0 .. 31 : NextPower(size, k) => k \in 0 .. 12
  BY <1>3 DEF NextPower
<1> QED BY <1>2, <1>4

\* The class of a request is the smallest one that holds it.
LEMMA ClassFits ==
  ASSUME NEW size \in Nat, size > 0, size <= 4096
  PROVE  /\ Classes!SizeClassIndex(size) \in 0 .. 4
         /\ Classes!SizeClass(Classes!SizeClassIndex(size)) >= size
         /\ \A i \in 0 .. Classes!SizeClassIndex(size) - 1 : Classes!SizeClass(i) < size
<1>1. PICK k \in 0 .. 12 :
         /\ Classes!NextPowerOfTwoLog(size) = k
         /\ Powers[k + 1] >= size
         /\ k = 0 \/ Powers[k] < size
  <2>1. \E k \in 0 .. 12 : Classes!NextPowerOfTwoLog(size) = k /\ NextPower(size, k)
    BY LogFacts
  <2> QED BY <2>1 DEF NextPower
<1>2. PICK c \in 0 .. 4 : c = IF k > 8 THEN k - 8 ELSE 0
  OBVIOUS
<1>3. Classes!SizeClassIndex(size) = c
  BY <1>1, <1>2 DEF Classes!SizeClassIndex, Classes!BASE_SHIFT
<1>4. CASE k <= 8
  <2>1. Powers[k + 1] \in Nat /\ Powers[k + 1] <= 256
    BY <1>4 DEF Powers
  <2>2. c = 0
    BY <1>2, <1>4
  <2>3. Classes!SizeClass(c) = 256
    BY <2>2, ClassSizes
  <2> QED BY <1>1, <1>3, <2>1, <2>2, <2>3
<1>5. CASE k > 8
  <2>1. Classes!SizeClass(c) = Powers[k + 1]
    BY <1>2, <1>5, ClassSizes DEF Powers
  <2>2. \A i \in 0 .. c - 1 : Classes!SizeClass(i) <= Powers[k]
    BY <1>2, <1>5, ClassSizes DEF Powers
  <2>3. Powers[k] \in Nat
    BY <1>5 DEF Powers
  <2>4. \A i \in 0 .. c - 1 : Classes!SizeClass(i) \in Nat
    BY <1>2, ClassSizes
  <2> QED BY <1>1, <1>3, <1>5, <2>1, <2>2, <2>3, <2>4
<1> QED BY <1>4, <1>5

\* Multiples of the largest class are cut by all classes without rest.
LEMMA CutExactly ==
  ASSUME NEW n \in Nat, 16384 <= n, n <= 8388608, n % 4096 = 0,
         NEW z, z = 256 \/ z = 512 \/ z = 1024 \/ z = 2048 \/ z = 4096
  PROVE  (n \div z) * z = n /\ n \div z \in Nat /\ 4 <= n \div z /\ n \div z <= 32768
<1>1. CASE z = 256
  BY <1>1, SMT
<1>2. CASE z = 512
  BY <1>2, SMT
<1>3. CASE z = 1024
  BY <1>3, SMT
<1>4. CASE z = 2048
  BY <1>4, SMT
<1>5. CASE z = 4096
  BY <1>5, SMT
<1> QED BY <1>1, <1>2, <1>3, <1>4, <1>5

\* A slab is cut into slots of a class without rest, at most 32768 of them.
LEMMA CapacityFacts ==
  ASSUME slab \in Nat, VerifySlabSize(slab), header.slab_size = slab, NEW c \in 0 .. 4
  PROVE  /\ SlabBytes \in Nat \ {0} /\ Classes!SizeClass(c) \in Nat \ {0}
         /\ Capacity(c) \in Nat /\ 4 <= Capacity(c) /\ Capacity(c) <= 32768
         /\ Capacity(c) * Classes!SizeClass(c) = SlabBytes
<1>1. PICK n : n = SlabBytes
  OBVIOUS
<1>2. n \in Nat /\ 16384 <= n /\ n <= 8388608 /\ n % 4096 = 0
  BY <1>1, SlabSizeFacts DEF SlabBytes
<1>3. PICK z : z = Classes!SizeClass(c)
  OBVIOUS
<1>4. z = 256 \/ z = 512 \/ z = 1024 \/ z = 2048 \/ z = 4096
  BY <1>3, ClassSizes
<1>5. (n \div z) * z = n /\ n \div z \in Nat /\ 4 <= n \div z /\ n \div z <= 32768
  BY <1>2, <1>4, CutExactly
<1>6. (n \div z) % 2^16 = n \div z
  BY <1>5
<1>7. Capacity(c) = n \div z
  BY <1>1, <1>3, <1>6 DEF Capacity
<1> QED BY <1>1, <1>2, <1>3, <1>4, <1>5, <1>7


-----------------------------------------------------------------------------
(* Requests, from a size to an address and back. *)

\* The request for size bytes that was given slot i of slab s.
Given(size, s, i) ==
    LET class == Classes!SizeClassIndex(size)
    IN  [stage |-> "allocated", size |-> size, class |-> class,
         slab_index |-> s, index_within_slab |-> i,
         offset |-> SlabsStart + s * SlabBytes + i * Classes!SizeClass(class)]

\* The sizes allocate serves, and the slots it may take for one.
Requested == {size \in Sizes : size > 0 /\ size <= Classes!MAX_SIZE}
Slabs == 0 .. header.num_slabs - 1
Slots(size) == 0 .. Capacity(Classes!SizeClassIndex(size)) - 1

\* What a request may be at each stage.  Every slab and every slot is allowed,
\* not only those that AllocateWithin enumerates.
Requests ==
    /\ request # NoRequest => pc = "joined"
    /\ \/ request = NoRequest
       \/ \E size \in Sizes :
             /\ size = 0 \/ size > Classes!MAX_SIZE
             /\ request = [stage |-> "refused", size |-> size]
       \/ \E size \in Requested :
             request = [stage |-> "class", size |-> size,
                        class |-> Classes!SizeClassIndex(size)]
       \/ \E size \in Requested, s \in Slabs : \E i \in Slots(size) :
             request = Given(size, s, i)
       \/ \E size \in Requested, s \in Slabs : \E i \in Slots(size) :
             request = [stage |-> "freed", allocated |-> Given(size, s, i),
                        found |-> FindAllocationIndexes(Given(size, s, i).offset,
                                                        Classes!SizeClassIndex(size))]

\* What a header that was accepted says of the slabs.
LEMMA JoinedFacts ==
  ASSUME LayoutInv, pc = "joined"
  PROVE  /\ slab \in Nat \ {0} /\ VerifySlabSize(slab) /\ total \in Nat
         /\ header.slab_size = slab /\ header.num_slabs \in Nat \ {0}
         /\ header.slabs_offset \in Nat /\ Written
<1>1. PICK m \in Nat : Found(m)
  BY DEF LayoutInv, OnPath
<1>2. /\ slab \in Nat \ {0} /\ VerifySlabSize(slab) /\ total \in Nat /\ min \in Nat \ {0}
      /\ m \in 1 .. total - 1 /\ ~TooFew(m) /\ Written
  <2>1. slab \in Nat /\ VerifySlabSize(slab) /\ total \in Nat /\ min \in Nat \ {0} /\ Written
    BY DEF LayoutInv, TypeOK, Verified, OnPath, Written, Errors
  <2> QED BY <1>1, <2>1, SlabSizeFacts DEF Found
<1>3. PICK w \in Nat, n \in Nat \ {0} : w = WorkersIn(m) /\ n = total - m
  BY <1>2, LimitFacts
<1>4. /\ header.slab_size = slab /\ header.num_slabs = n
      /\ header.slabs_offset = AsU32(SlabsAt(w, n))
  BY <1>1, <1>3, LayoutFields DEF Found, HeaderFor
<1>5. AsU32(SlabsAt(w, n)) \in Nat
  BY <1>2, SectionFacts, AsU32Facts
<1> QED BY <1>2, <1>4, <1>5

\* Quotient and remainder give back what they were made of.
LEMMA DivisionUndone ==
  ASSUME NEW b \in Nat \ {0}, NEW s \in Nat, NEW x \in Nat, x < b
  PROVE  (s * b + x) \div b = s /\ (s * b + x) % b = x
<1>1. PICK v \in Nat : v = s * b + x
  OBVIOUS
<1>2. PICK q \in Nat, r \in Nat : q = v \div b /\ r = v % b /\ r < b /\ v = q * b + r
  <2>1. PICK q \in Nat, r \in Nat : q = v \div b /\ r = v % b /\ r < b
    BY SMT
  <2>2. v = q * b + r
    BY <2>1, SMTT(30)
  <2> QED BY <2>1, <2>2
<1>3. s * b \in Nat /\ q * b \in Nat
  OBVIOUS
<1>4. CASE q + 1 <= s
  <2>1. (q + 1) * b <= s * b /\ (q + 1) * b = q * b + b
    BY <1>4, SMT
  <2> QED BY <1>1, <1>2, <1>3, <2>1
<1>5. CASE s + 1 <= q
  <2>1. (s + 1) * b <= q * b /\ (s + 1) * b = s * b + b
    BY <1>5, SMT
  <2> QED BY <1>1, <1>2, <1>3, <2>1
<1>6. CASE q = s
  BY <1>1, <1>2, <1>3, <1>6
<1> QED BY <1>4, <1>5, <1>6

\* free finds the slab and the slot of every address allocate can hand out.
LEMMA FoundAgain ==
  ASSUME LayoutInv, pc = "joined", NEW c \in 0 .. 4, NEW s \in Nat, NEW i \in 0 .. Capacity(c) - 1
  PROVE  /\ FindAllocationIndexes(SlabsStart + s * SlabBytes + i * Classes!SizeClass(c), c)
              = [slab_index |-> s, index_within_slab |-> i]
         /\ i * Classes!SizeClass(c) + Classes!SizeClass(c) <= SlabBytes
<1>1. PICK b \in Nat \ {0}, z \in Nat \ {0}, n \in Nat :
         b = SlabBytes /\ z = Classes!SizeClass(c) /\ n = Capacity(c) /\ n <= 32768 /\ n * z = b
  BY JoinedFacts, CapacityFacts
<1>2. PICK x \in Nat : x = i * z
  BY <1>1
<1>3. x + z <= b /\ x \div z = i
  <2>1. (i + 1) * z <= n * z /\ (i + 1) * z = i * z + z
    BY <1>1, SMT
  <2>2. (i * z + 0) \div z = i
    BY <1>1, DivisionUndone
  <2>3. n * z \in Nat /\ i * z \in Nat /\ i * z + 0 = i * z
    BY <1>1
  <2> QED BY <1>1, <1>2, <2>1, <2>2, <2>3
<1>4. (s * b + x) \div b = s /\ (s * b + x) % b = x
  <2>1. x < b
    BY <1>1, <1>2, <1>3
  <2>2. b \in Nat \ {0} /\ s \in Nat /\ x \in Nat
    BY <1>1, <1>2
  <2> QED BY <2>1, <2>2, DivisionUndone, Zenon
<1>5. i % 2^16 = i
  BY <1>1
<1>6. FindAllocationIndexes(SlabsStart + s * b + x, c)
        = [slab_index |-> s, index_within_slab |-> i]
  <2>1. PICK o, d : o = SlabsStart + s * b + x /\ d = o - SlabsStart
    OBVIOUS
  <2>2. d = s * b + x
    <3>1. SlabsStart \in Nat /\ s * b \in Nat
      BY <1>1, JoinedFacts DEF SlabsStart
    <3> QED BY <1>2, <2>1, <3>1
  <2>3. d \div b = s /\ ((d % b) \div z) % 2^16 = i
    BY <1>3, <1>4, <1>5, <2>2, Zenon
  <2>4. FindAllocationIndexes(o, c)
          = [slab_index |-> d \div b, index_within_slab |-> ((d % b) \div z) % 2^16]
    <3>1. SlabBytes = b /\ Classes!SizeClass(c) = z
      BY <1>1
    <3> QED BY <2>1, <3>1, Zenon DEF FindAllocationIndexes
  <2> QED BY <2>1, <2>3, <2>4, Zenon
<1> QED BY <1>1, <1>2, <1>3, <1>6


\* The class of a size that allocate serves.
LEMMA RequestedFacts ==
  ASSUME NEW size \in Requested
  PROVE  /\ size \in Nat /\ size > 0 /\ size <= 4096
         /\ Classes!SizeClassIndex(size) \in 0 .. 4
         /\ Classes!SizeClass(Classes!SizeClassIndex(size)) \in Nat
         /\ Classes!SizeClass(Classes!SizeClassIndex(size)) >= size
         /\ \A i \in 0 .. Classes!SizeClassIndex(size) - 1 : Classes!SizeClass(i) < size
<1>1. size \in Nat /\ size > 0 /\ size <= 4096
  BY ClassSizes DEF Requested
<1>2. PICK c \in 0 .. 4 : c = Classes!SizeClassIndex(size)
  BY <1>1, ClassFits
<1>3. Classes!SizeClass(c) \in Nat
  BY ClassSizes
<1> QED BY <1>1, <1>2, <1>3, ClassFits

\* Nothing of create and join is enabled once the header is accepted.
LEMMA JoinedIsLast == pc = "joined" => ~Next
  BY DEF Next, CreateRefuses, CreateStart, CreateDone, JoinStart, JoinDone, LimitsNone,
         LimitsRaise, LimitsMore, InLimits

\* A step of a request leaves the header as it is.
LEMMA ServeStep ==
  ASSUME LayoutInv, Requests, Serve, UNCHANGED vars
  PROVE  Requests'
<1>1. UNCHANGED <<pc, header>> /\ \A size, s, i : Given(size, s, i)' = Given(size, s, i)
  BY DEF vars, Given, SlabsStart, SlabBytes
<1>2. \A size : Slots(size)' = Slots(size)
  BY <1>1 DEF Slots, Capacity, SlabBytes
<1>3. Slabs' = Slabs /\ Requested' = Requested
  BY <1>1 DEF Slabs, Requested
<1>4. \A o, c : FindAllocationIndexes(o, c)' = FindAllocationIndexes(o, c)
  BY <1>1 DEF FindAllocationIndexes, SlabsStart, SlabBytes
<1>5. CASE AllocateNone
  <2>1. PICK size \in Sizes : /\ size = 0 \/ size > Classes!MAX_SIZE
                              /\ request' = [stage |-> "refused", size |-> size]
    BY <1>5 DEF AllocateNone
  <2>2. pc' = "joined"
    BY <1>1, <1>5 DEF AllocateNone
  <2> QED BY <2>1, <2>2 DEF Requests
<1>6. CASE AllocateClass
  <2>1. PICK size \in Requested :
           request' = [stage |-> "class", size |-> size, class |-> Classes!SizeClassIndex(size)]
    BY <1>6 DEF AllocateClass, Requested
  <2>2. pc' = "joined"
    BY <1>1, <1>6 DEF AllocateClass
  <2> QED BY <1>3, <2>1, <2>2 DEF Requests
<1>7. CASE AllocateWithin
  <2>1. PICK size \in Requested :
           request = [stage |-> "class", size |-> size, class |-> Classes!SizeClassIndex(size)]
    BY <1>7 DEF AllocateWithin, Requests, NoRequest, Given
  <2>2. pc = "joined"
    BY <2>1 DEF Requests, NoRequest
  <2>3. PICK s \in SomeSlabs, i \in SomeSlots(request.class) :
           request' = [stage |-> "allocated", size |-> request.size, class |-> request.class,
                       slab_index |-> s, index_within_slab |-> i,
                       offset |-> SlotOffset(s, i, request)]
    BY <1>7 DEF AllocateWithin
  <2>4. request' = Given(size, s, i)
    BY <2>1, <2>3 DEF Given, SlotOffset
  <2>5. s \in Slabs
    BY <2>2, JoinedFacts DEF SomeSlabs, Slabs
  <2>6. i \in Slots(size)
    BY <2>1 DEF SomeSlots, Slots
  <2> QED BY <1>1, <1>2, <1>3, <2>2, <2>4, <2>5, <2>6 DEF Requests
<1>8. CASE Free
  <2>1. PICK size \in Requested, s \in Slabs : \E i \in Slots(size) : request = Given(size, s, i)
    BY <1>8 DEF Free, Requests, NoRequest
  <2>2. PICK i \in Slots(size) : request = Given(size, s, i)
    BY <2>1
  <2>3. pc = "joined"
    BY <2>2 DEF Requests, NoRequest, Given
  <2>4. request.class = Classes!SizeClassIndex(size)
    BY <2>2 DEF Given
  <2>5. request' = [stage |-> "freed", allocated |-> Given(size, s, i),
                    found |-> FindAllocationIndexes(Given(size, s, i).offset,
                                                    Classes!SizeClassIndex(size))]
    BY <1>8, <2>2, <2>4 DEF Free
  <2> QED BY <1>1, <1>2, <1>3, <1>4, <2>3, <2>5 DEF Requests
<1> QED BY <1>5, <1>6, <1>7, <1>8 DEF Serve

\* The inductive invariant of create, join and a request after them.
THEOREM Invariance == AddressingSpec => [](LayoutInv /\ Requests)
<1>1. AddressingInit => LayoutInv /\ Requests
  BY InitLayoutInv DEF AddressingInit, Requests
<1>2. LayoutInv /\ Requests /\ [AddressingNext]_<<vars, request>> => LayoutInv' /\ Requests'
  <2> SUFFICES ASSUME LayoutInv, Requests, [AddressingNext]_<<vars, request>>
               PROVE  LayoutInv' /\ Requests'
    OBVIOUS
  <2>1. [Next]_vars
    BY DEF AddressingNext
  <2>2. LayoutInv'
    BY <2>1, NextLayoutInv
  <2>3. CASE Next /\ UNCHANGED request
    <3>1. request = NoRequest
      BY <2>3, JoinedIsLast DEF Requests
    <3>2. request' = NoRequest
      BY <2>3, <3>1
    <3>3. Requests'
      BY <3>2, Zenon DEF Requests, NoRequest
    <3> QED BY <2>2, <3>3
  <2>4. CASE Serve /\ UNCHANGED vars
    BY <2>2, <2>4, ServeStep
  <2>5. CASE UNCHANGED <<vars, request>>
    <3>1. UNCHANGED <<pc, header, request>> /\ \A size, s, i : Given(size, s, i)' = Given(size, s, i)
      BY <2>5 DEF vars, Given, SlabsStart, SlabBytes
    <3>2. \A size : Slots(size)' = Slots(size)
      BY <3>1 DEF Slots, Capacity, SlabBytes
    <3>3. Slabs' = Slabs
      BY <3>1 DEF Slabs
    <3>4. \A o, c : FindAllocationIndexes(o, c)' = FindAllocationIndexes(o, c)
      BY <3>1 DEF FindAllocationIndexes, SlabsStart, SlabBytes
    <3>5. Requests'
      BY <3>1, <3>2, <3>3, <3>4, Zenon DEF Requests, Requested, NoRequest
    <3> QED BY <2>2, <3>5
  <2> QED BY <2>2, <2>3, <2>4, <2>5 DEF AddressingNext
<1> QED BY <1>1, <1>2, PTL DEF AddressingSpec


-----------------------------------------------------------------------------
(* What Addressing promises. *)

\* join runs the loop of max_workers with num_workers for min_workers and comes
\* to the header that create wrote, whatever the file: it never refuses a file
\* that create made.
THEOREM JoinFindsTheSame == AddressingSpec => []JoinAgrees
<1>1. LayoutInv /\ Requests => JoinAgrees
  BY DEF LayoutInv
<1> QED BY <1>1, Invariance, PTL

\* The sections that create lays out follow each other and lie in the file, as
\* long as the metadata lies below 4 GiB.  (Without that the casts to u32 lose
\* bits, and the sections need not: MCLayoutHuge.)
THEOREM SectionsFollow == AddressingSpec => [](MetadataFits => SectionsInOrder)
<1>1. LayoutInv /\ Requests => (MetadataFits => SectionsInOrder)
  <2>1. ~Written => SectionsInOrder
    BY DEF SectionsInOrder
  <2> QED BY <2>1, FoundInOrder
<1> QED BY <1>1, Invariance, PTL

\* create refuses a file size only when no number of metadata slabs would have
\* held the workers it was asked for.
THEOREM RefusalsJustified ==
  AddressingSpec => [](SlabsAt(0, total) < 2^30 => RefusesOnlyImpossible)
<1>1. LayoutInv /\ Requests => (SlabsAt(0, total) < 2^30 => RefusesOnlyImpossible)
  BY GivenUp
<1> QED BY <1>1, Invariance, PTL

\* allocate takes the smallest class that holds the request, for every size.
THEOREM ClassIsSmallest == AddressingSpec => []SmallestFit
<1>1. LayoutInv /\ Requests => SmallestFit
  <2> SUFFICES ASSUME Requests PROVE SmallestFit
    OBVIOUS
  <2>1. ASSUME request.stage = "class"
        PROVE  /\ Classes!SizeClass(request.class) >= request.size
               /\ \A i \in 0 .. request.class - 1 : Classes!SizeClass(i) < request.size
    <3>1. PICK size \in Requested :
             request = [stage |-> "class", size |-> size, class |-> Classes!SizeClassIndex(size)]
      BY <2>1 DEF Requests, NoRequest, Given
    <3> QED BY <3>1, RequestedFacts
  <2>2. ASSUME request.stage = "refused"
        PROVE  request.size = 0 \/ \A i \in 0 .. 4 : Classes!SizeClass(i) < request.size
    <3>1. PICK size \in Sizes : /\ size = 0 \/ size > 4096
                                /\ request = [stage |-> "refused", size |-> size]
      BY <2>2, ClassSizes DEF Requests, NoRequest, Given
    <3>2. \A i \in 0 .. 4 : Classes!SizeClass(i) \in Nat /\ Classes!SizeClass(i) <= 4096
      BY ClassSizes
    <3> QED BY <3>1, <3>2
  <2> QED BY <2>1, <2>2, ClassSizes DEF SmallestFit
<1> QED BY <1>1, Invariance, PTL

\* free recovers the slab and the slot that allocate chose, for every slab and
\* slot of every file.
THEOREM AddressesComeBack == AddressingSpec => []RoundTrip
<1>1. LayoutInv /\ Requests => RoundTrip
  <2> SUFFICES ASSUME LayoutInv, Requests, request.stage = "freed",
                      NEW field \in {"slab_index", "index_within_slab"}
               PROVE  request.found[field] = request.allocated[field]
    BY DEF RoundTrip
  <2>1. PICK size \in Requested, s \in Slabs : \E i \in Slots(size) :
             request = [stage |-> "freed", allocated |-> Given(size, s, i),
                        found |-> FindAllocationIndexes(Given(size, s, i).offset,
                                                        Classes!SizeClassIndex(size))]
    BY DEF Requests, NoRequest, Given
  <2>2. PICK i \in Slots(size) :
             request = [stage |-> "freed", allocated |-> Given(size, s, i),
                        found |-> FindAllocationIndexes(Given(size, s, i).offset,
                                                        Classes!SizeClassIndex(size))]
    BY <2>1
  <2>3. pc = "joined"
    BY <2>2 DEF Requests, NoRequest
  <2>4. PICK c \in 0 .. 4 : c = Classes!SizeClassIndex(size)
    BY RequestedFacts
  <2>5. s \in Nat /\ i \in 0 .. Capacity(c) - 1
    <3>1. s \in Nat
      BY <2>3, JoinedFacts DEF Slabs
    <3> QED BY <2>2, <2>4, <3>1 DEF Slots
  <2>6. request.found = [slab_index |-> s, index_within_slab |-> i]
    <3>1. Given(size, s, i).offset = SlabsStart + s * SlabBytes + i * Classes!SizeClass(c)
      BY <2>4 DEF Given
    <3> QED BY <2>2, <2>3, <2>4, <2>5, <3>1, FoundAgain
  <2>7. request.allocated.slab_index = s /\ request.allocated.index_within_slab = i
    BY <2>2 DEF Given
  <2> QED BY <2>6, <2>7
<1> QED BY <1>1, Invariance, PTL

\* The bytes handed out lie in their slab and in the file, and no slot has the
\* index that ends a remote free list.
THEOREM AddressesInFile == AddressingSpec => [](MetadataFits => SlotNotNull)
<1>1. LayoutInv /\ Requests => (MetadataFits => SlotNotNull)
  <2> SUFFICES ASSUME LayoutInv, Requests, MetadataFits PROVE SlotNotNull
    OBVIOUS
  <2>1. ASSUME request.stage = "class"
        PROVE  Capacity(request.class) * Classes!SizeClass(request.class) = SlabBytes
    <3>1. PICK size \in Requested :
             request = [stage |-> "class", size |-> size, class |-> Classes!SizeClassIndex(size)]
      BY <2>1 DEF Requests, NoRequest, Given
    <3>2. pc = "joined"
      BY <3>1 DEF Requests, NoRequest
    <3>3. request.class \in 0 .. 4
      BY <3>1, RequestedFacts
    <3> QED BY <3>2, <3>3, JoinedFacts, CapacityFacts
  <2>2. ASSUME request.stage = "allocated"
        PROVE  /\ request.index_within_slab < NULL_U16
               /\ request.offset + request.size
                    <= SlabsStart + (request.slab_index + 1) * SlabBytes
               /\ request.offset + request.size <= total * SlabBytes
    <3>1. PICK size \in Requested, s \in Slabs : \E i \in Slots(size) : request = Given(size, s, i)
      BY <2>2 DEF Requests, NoRequest
    <3>2. PICK i \in Slots(size) : request = Given(size, s, i)
      BY <3>1
    <3>3. pc = "joined"
      BY <3>2 DEF Requests, NoRequest, Given
    <3>4. PICK c \in 0 .. 4, z \in Nat : /\ c = Classes!SizeClassIndex(size)
                                        /\ z = Classes!SizeClass(c) /\ size <= z
      BY RequestedFacts
    <3>5. /\ request.index_within_slab = i /\ request.slab_index = s /\ request.size = size
          /\ request.offset = SlabsStart + s * SlabBytes + i * z
      BY <3>2, <3>4 DEF Given
    <3>6. /\ header.slab_size = slab /\ header.num_slabs \in Nat \ {0} /\ slab \in Nat \ {0}
          /\ header.slabs_offset \in Nat /\ total \in Nat /\ Written /\ VerifySlabSize(slab)
      BY <3>3, JoinedFacts
    <3>7. s \in Nat /\ s + 1 <= header.num_slabs /\ i \in 0 .. Capacity(c) - 1 /\ size \in Nat
      <4>1. s \in Nat /\ s + 1 <= header.num_slabs
        BY <3>6 DEF Slabs
      <4> QED BY <3>2, <3>4, <4>1, RequestedFacts DEF Slots
    <3>8. i \in Nat /\ i < NULL_U16
      <4>1. Capacity(c) \in Nat /\ Capacity(c) <= 32768
        BY <3>6, CapacityFacts
      <4> QED BY <3>7, <4>1, ClassSizes
    <3>9. i * z + size <= SlabBytes
      <4>1. i * z + z <= SlabBytes
        BY <3>3, <3>4, <3>7, FoundAgain
      <4>2. i * z \in Nat /\ SlabBytes \in Nat
        BY <3>6, <3>8 DEF SlabBytes
      <4> QED BY <3>4, <3>7, <4>1, <4>2
    <3>10. PICK b \in Nat \ {0}, start \in Nat : b = SlabBytes /\ start = SlabsStart
      BY <3>6 DEF SlabBytes, SlabsStart
    <3>11. start + (s + 1) * b <= total * b
      <4>1. PICK a \in Nat, n \in Nat : /\ a = header.slabs_offset /\ n = header.num_slabs
                                       /\ a % slab = 0 /\ a \div slab + n <= total
        BY <3>6, FoundInOrder DEF SectionsInOrder
      <4>2. PICK q \in Nat : q = a \div slab /\ a = q * slab
        <5>1. PICK q \in Nat, r \in Nat : q = a \div slab /\ r = a % slab
          BY <3>6, SMT
        <5>2. a = q * slab + r
          BY <3>6, <5>1, SMTT(30)
        <5>3. q * slab \in Nat /\ r = 0
          BY <3>6, <4>1, <5>1
        <5> QED BY <5>1, <5>2, <5>3
      <4>3. b = 4 * slab /\ start = 4 * a
        BY <3>6, <3>10, <4>1 DEF SlabBytes, SlabsStart
      <4>4. start = q * b
        BY <3>6, <4>2, <4>3, SMT
      <4>5. q + (s + 1) <= total
        BY <3>6, <3>7, <4>1, <4>2
      <4>6. (q + (s + 1)) * b <= total * b
        BY <3>6, <3>7, <4>2, <4>5, SMT
      <4>7. (q + (s + 1)) * b = q * b + (s + 1) * b
        BY <3>7, <4>2, SMT
      <4> QED BY <4>4, <4>6, <4>7
    <3>12. start + s * b + i * z + size <= start + (s + 1) * b
      <4>1. (s + 1) * b = s * b + b /\ s * b \in Nat /\ i * z \in Nat
        BY <3>7, <3>8, SMT
      <4> QED BY <3>7, <3>9, <3>10, <4>1
    <3>13. start + s * b + i * z + size <= total * b
      <4>1. s * b \in Nat /\ i * z \in Nat /\ (s + 1) * b \in Nat /\ total * b \in Nat
        BY <3>6, <3>7, <3>8
      <4> QED BY <3>7, <3>11, <3>12, <4>1
    <3> QED BY <3>5, <3>8, <3>10, <3>12, <3>13
  <2> QED BY <2>1, <2>2 DEF SlotNotNull
<1> QED BY <1>1, Invariance, PTL

=============================================================================
