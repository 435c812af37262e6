--------------------------- MODULE MCSubscription ---------------------------
(***************************************************************************)
(* Instances of Subscription for TLC.                                      *)
(***************************************************************************)
EXTENDS Subscription, TLC

\* Plans, numbers of seats and processes are interchangeable in safety
\* properties.
Symmetry ==
  Permutations(Plans) \cup Permutations(Seats)
    \cup Permutations(Requests) \cup Permutations(Consumers)

\* Two requests race with lookups of events that the database answers; once one
\* was not answered, states with both under way are not expanded.
FewFaults == dropped # {} => \E q \in Requests : req[q].pc = "idle"

=============================================================================
