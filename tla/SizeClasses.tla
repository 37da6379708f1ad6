---------------------------- MODULE SizeClasses ----------------------------
(***************************************************************************)
(* The size classes (src/src/size_classes.rs) and the slab sizes that      *)
(* create and join accept (verify_slab_size), in bytes.                    *)
(***************************************************************************)
EXTENDS Naturals, Sequences

SIZE_CLASSES == <<256, 512, 1024, 2048, 4096>>
NUM_SIZE_CLASSES == Len(SIZE_CLASSES)
MIN_SIZE == SIZE_CLASSES[1]
MAX_SIZE == SIZE_CLASSES[NUM_SIZE_CLASSES]
BASE_SHIFT == 8         \* MIN_SIZE.trailing_zeros()
MAX_U16 == 2^16 - 1

\* size_class: class indexes count from 0.
SizeClass(index) == SIZE_CLASSES[index + 1]

\* size.next_power_of_two().trailing_zeros(): 0 for 0 and 1.
NextPowerOfTwoLog(size) == CHOOSE k \in 0 .. 31 : 2^k >= size /\ (k = 0 \/ 2^(k - 1) < size)

\* Mutant of SizeClassIndex: the power of two below.
SizeClassIndexBelow(size) ==
    LET log == NextPowerOfTwoLog((size + 1) \div 2)
    IN  IF log > BASE_SHIFT THEN log - BASE_SHIFT ELSE 0

\* size_class_index_unchecked: a saturating subtraction.
SizeClassIndex(size) ==
    LET log == NextPowerOfTwoLog(size)
    IN  IF log > BASE_SHIFT THEN log - BASE_SHIFT ELSE 0

\* Mutant of SlabSizeOK: one slot too many.
SlabSizeOKLax(slabSize) ==
    /\ \E k \in 0 .. 30 : slabSize = 2^k
    /\ slabSize >= 4 * MAX_SIZE
    /\ slabSize \div MIN_SIZE <= MAX_U16 + 1

\* verify_slab_size
SlabSizeOK(slabSize) ==
    /\ \E k \in 0 .. 30 : slabSize = 2^k
    /\ slabSize >= 4 * MAX_SIZE
    /\ slabSize \div MIN_SIZE <= MAX_U16

=============================================================================
