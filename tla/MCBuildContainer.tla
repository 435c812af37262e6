-------------------------- MODULE MCBuildContainer --------------------------
(***************************************************************************)
(* An instance of BuildContainer for TLC: one analysis may be tried twice. *)
(***************************************************************************)
EXTENDS BuildContainer

CONSTANTS a1, a2

MCMaxAttempts == [a \in Analyses |-> IF a = a1 THEN 2 ELSE 1]

=============================================================================
