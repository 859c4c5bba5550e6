------------------------- MODULE MCBrowserHandoffs --------------------------
(* The instances of BrowserHandoffs that TLC checks.                       *)
EXTENDS BrowserHandoffs, TLC

CONSTANTS r1, p1, p2

\* Processes are interchangeable.
Symmetry == Permutations(Procs)
=============================================================================
