---------------------------- MODULE MCIMDelivery ----------------------------
(* Instances of IMDelivery for TLC. *)
EXTENDS IMDelivery, TLC

\* Worker slots and reconciliations are interchangeable.
Symmetry == Permutations(Tasks) \cup Permutations(Checkers)

=============================================================================
