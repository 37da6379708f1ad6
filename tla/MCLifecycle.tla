---------------------------- MODULE MCLifecycle ----------------------------
(* The file's life for TLC: which handles live in which process. *)
EXTENDS Lifecycle, TLC

CONSTANTS h1, h2, h3, h4, p1, p2

TwoAndTwo == h1 :> p1 @@ h2 :> p1 @@ h3 :> p2 @@ h4 :> p2

Symmetry == Permutations({h1, h2}) \cup Permutations({h3, h4}) \cup Permutations(Regions)

=============================================================================
