---------------------------- MODULE MCFreeStack ----------------------------
(* The free stack for TLC. *)
EXTENDS FreeStack

=============================================================================
