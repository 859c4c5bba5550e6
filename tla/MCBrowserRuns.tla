--------------------------- MODULE MCBrowserRuns ----------------------------
(***************************************************************************)
(* Instances of BrowserRuns.                                               *)
(***************************************************************************)
EXTENDS BrowserRuns, TLC

CONSTANTS r1, r2, p1, p2

Symmetry == Permutations(Procs) \cup Permutations(Runs)
=============================================================================
