------------------------------- MODULE MCLogin -------------------------------
(* Two accounts, one of them the admin's, two browsers, two concurrent       *)
(* requests.                                                                 *)
EXTENDS Login, TLC

CONSTANTS a1, a2, b1, b2, r1, r2

Symmetry == Permutations({b1, b2}) \cup Permutations({r1, r2})
=============================================================================
