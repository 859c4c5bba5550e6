--------------------------- MODULE MCFileArtifacts ---------------------------
EXTENDS FileArtifacts, TLC

\* Artifacts, and the calls that produce them, are interchangeable.
Symmetry == Permutations(Artifacts) \cup Permutations(Producers) \cup Permutations(Cleaners)

=============================================================================
