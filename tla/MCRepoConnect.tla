--------------------------- MODULE MCRepoConnect ---------------------------
(***************************************************************************)
(* Instances of RepoConnect for TLC.                                       *)
(***************************************************************************)
EXTENDS RepoConnect, TLC

\* Users, requests and consumers are interchangeable in safety properties.
Symmetry ==
  Permutations(Users) \cup Permutations(Requests) \cup Permutations(Consumers)

=============================================================================
