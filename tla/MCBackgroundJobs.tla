-------------------------- MODULE MCBackgroundJobs --------------------------
(* Instances of BackgroundJobs for TLC. *)
EXTENDS BackgroundJobs, TLC

\* Jobs carry no structure.
Symmetry == Permutations(Jobs)

=============================================================================
