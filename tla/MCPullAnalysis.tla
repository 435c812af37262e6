--------------------------- MODULE MCPullAnalysis ---------------------------
(***************************************************************************)
(* Instances of PullAnalysis for TLC.                                      *)
(***************************************************************************)
EXTENDS PullAnalysis, TLC

\* Workers are interchangeable in safety properties.
Symmetry == Permutations(Workers)

\* Webhook calls of two pushes share nothing and are not interleaved, and a
\* second call for a row, which fails at once, is not followed. What happens
\* after a lock has expired under its reporter is not either, nor after the
\* next push of one whose result was refused.
FewFaults ==
  /\ \A p \in Pushes :
       /\ p < head => delivery[p] = "answered"
       /\ delivery[p] = "create" => ~HasRow(p)
  /\ unsaved \subseteq {head}
  /\ ~outlived

=============================================================================
