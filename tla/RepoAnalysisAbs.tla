--------------------------- MODULE RepoAnalysisAbs ---------------------------
(***************************************************************************)
(* What asking for an analysis of a repository promises, without queues,   *)
(* transactions and retries: who asked is owed an analysis until the one   *)
(* of that GUID has a final status, or its result was refused; a commit is *)
(* analyzed under one GUID; and an analysis that has a final status never  *)
(* gets another kind.                                                      *)
(***************************************************************************)
CONSTANTS
  Guids,
  Commits,
  NoCommit

VARIABLES
  commitOf, \* the commit that a GUID was first asked for
  status,   \* of the analysis of a GUID
  owed,     \* the GUIDs that are still to be worked on
  unsaved   \* the GUIDs whose result was refused

vars == <<commitOf, status, owed, unsaved>>

Final == {"processed", "error", "not_found"}

Init ==
  /\ commitOf = [g \in Guids |-> NoCommit]
  /\ status = [g \in Guids |-> "none"]
  /\ owed = {}
  /\ unsaved = {}

Move(g, from, to) ==
  /\ status[g] \in from
  /\ status' = [status EXCEPT ![g] = to]

Ask(g, c) ==
  /\ commitOf[g] = NoCommit
  /\ commitOf' = [commitOf EXCEPT ![g] = c]
  /\ owed' = owed \cup {g}
  /\ UNCHANGED <<status, unsaved>>

\* Also after its analysis is done, which is then done again.
AskAgain(g) ==
  /\ commitOf[g] # NoCommit
  /\ owed' = owed \cup {g}
  /\ UNCHANGED <<commitOf, status, unsaved>>

Accept(g) ==
  /\ g \in owed
  /\ \A h \in Guids : status[h] # "none" => commitOf[h] # commitOf[g]
  /\ Move(g, {"none"}, "sent_to_queue")
  /\ UNCHANGED <<commitOf, owed, unsaved>>

Begin(g) ==
  /\ g \in owed
  /\ Move(g, {"sent_to_queue"}, "processing")
  /\ UNCHANGED <<commitOf, owed, unsaved>>

\* A repeated run may replace the final status by its own.
Finish(g, s) ==
  /\ g \in owed
  /\ Move(g, {"sent_to_queue", "processing"} \cup Final, s)
  /\ unsaved' = unsaved \ {g}
  /\ UNCHANGED <<commitOf, owed>>

\* An analysis that has a final status keeps it.
Refuse(g) ==
  /\ g \in owed
  /\ status[g] \in {"sent_to_queue", "processing"}
  /\ unsaved' = unsaved \cup {g}
  /\ UNCHANGED <<commitOf, status, owed>>

Settle(g) ==
  /\ status[g] \in Final \/ g \in unsaved
  /\ owed' = owed \ {g}
  /\ UNCHANGED <<commitOf, status, unsaved>>

Next ==
  \E g \in Guids :
    \/ \E c \in Commits : Ask(g, c)
    \/ AskAgain(g)
    \/ Accept(g)
    \/ Begin(g)
    \/ \E s \in Final : Finish(g, s)
    \/ Refuse(g)
    \/ Settle(g)

Spec == Init /\ [][Next]_vars

=============================================================================
