--------------------------- MODULE MCRepoAnalysis ---------------------------
(***************************************************************************)
(* Instances of RepoAnalysis for TLC.                                      *)
(***************************************************************************)
EXTENDS RepoAnalysis, TLC

\* GUIDs, commits and processes are interchangeable in safety properties.
Symmetry ==
  Permutations(Guids) \cup Permutations(Commits)
    \cup Permutations(Launchers) \cup Permutations(Workers)

=============================================================================
