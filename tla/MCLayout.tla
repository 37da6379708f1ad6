------------------------------ MODULE MCLayout ------------------------------
(* Layout and addresses for TLC: slab sizes in words of four bytes. *)
EXTENDS Addressing

\* 16 KiB, 64 KiB and 8 MiB, and one too small, one that is no power of two,
\* and one with too many slots.
SmallSlabSizes == {2^12, 2^14, 2^21, 2^11, 3 * 2^11, 2^22}

SmallTotals == 0 .. 200 \cup {1000} \cup 7190 .. 7290

FewWorkers == {0, 1, 4, 256, 257, 3000}

\* Every request around the size classes, in files of a few slabs.
SomeSizes ==
    0 .. 20 \cup {4500, 10000}
    \cup UNION {{Classes!SIZE_CLASSES[i] + d - 5 : d \in 0 .. 10}
                  : i \in 1 .. Classes!NUM_SIZE_CLASSES}

FewSlabs == {2, 9}

\* Slabs of 16 KiB in a file of 260 GB.
OneSlabSize == {2^12}

HugeTotals == 15900000 .. 15900009

=============================================================================
