--------------------------- MODULE PullAnalysisAbs ---------------------------
(***************************************************************************)
(* What analyzing a pull request promises, without webhook, queue, workers *)
(* and crons: an analysis begins and gets a result, or is given up if it   *)
(* was seen overdue; it is shown as passed only when it has ended, or when *)
(* its result was refused; and its issue is commented once, whatever is    *)
(* repeated, as long as no reporter outlives its lock.                     *)
(***************************************************************************)
EXTENDS Naturals

CONSTANT Pushes

VARIABLES
  status,   \* of a push's analysis
  shown,    \* the pushes that are shown as passed
  comments, \* on the issue
  overdue,  \* the analyses that were seen unfinished for too long
  unsaved,  \* the analyses whose result was refused
  outlived  \* a reporter took longer than its lock

vars == <<status, shown, comments, overdue, unsaved, outlived>>

Ended == {"processed", "forced_stale"}

Init ==
  /\ status = [p \in Pushes |-> "none"]
  /\ shown = {}
  /\ comments = 0
  /\ overdue = {}
  /\ unsaved = {}
  /\ outlived = FALSE

Move(p, from, to) ==
  /\ status[p] \in from
  /\ status' = [status EXCEPT ![p] = to]

Accept(p) ==
  /\ Move(p, {"none"}, "sent_to_queue")
  /\ UNCHANGED <<shown, comments, overdue, unsaved, outlived>>

\* The analysis may have been given up since it was found waiting.
Begin(p) ==
  /\ p \notin shown \/ p \in unsaved
  /\ Move(p, {"sent_to_queue", "forced_stale"}, "processing")
  /\ UNCHANGED <<shown, comments, overdue, unsaved, outlived>>

\* The step that calls it running may have failed.
Finish(p) ==
  /\ Move(p, {"sent_to_queue", "processing"} \cup Ended, "processed")
  /\ unsaved' = unsaved \ {p}
  /\ UNCHANGED <<shown, comments, overdue, outlived>>

\* An analysis that has ended stays so.
Refuse(p) ==
  /\ status[p] \in {"sent_to_queue", "processing"}
  /\ unsaved' = unsaved \cup {p}
  /\ UNCHANGED <<status, shown, comments, overdue, outlived>>

FindOverdue(S) ==
  /\ overdue = {}
  /\ \A p \in S : status[p] \in {"sent_to_queue", "processing"}
  /\ overdue' = S
  /\ UNCHANGED <<status, shown, comments, unsaved, outlived>>

\* It may have got its result in the meantime.
GiveUp(p) ==
  /\ p \in overdue
  /\ overdue' = overdue \ {p}
  /\ Move(p, {"sent_to_queue", "processing"} \cup Ended, "forced_stale")
  /\ UNCHANGED <<shown, comments, unsaved, outlived>>

Skip(p) ==
  /\ overdue' = overdue \ {p}
  /\ UNCHANGED <<status, shown, comments, unsaved, outlived>>

Show(p) ==
  /\ status[p] \in Ended \/ p \in unsaved
  /\ shown' = shown \cup {p}
  /\ UNCHANGED <<status, comments, overdue, unsaved, outlived>>

\* It waits or runs again, failed, or is refused.
Hide(p) ==
  /\ shown' = shown \ {p}
  /\ UNCHANGED <<status, comments, overdue, unsaved, outlived>>

Comment ==
  /\ comments = 0 \/ outlived
  /\ comments' = comments + 1
  /\ UNCHANGED <<status, shown, overdue, unsaved, outlived>>

Outlive ==
  /\ outlived' = TRUE
  /\ UNCHANGED <<status, shown, comments, overdue, unsaved>>

Next ==
  \/ \E p \in Pushes :
       \/ Accept(p)
       \/ Begin(p)
       \/ Finish(p)
       \/ Refuse(p)
       \/ GiveUp(p)
       \/ Skip(p)
       \/ Show(p)
       \/ Hide(p)
  \/ \E S \in SUBSET Pushes : FindOverdue(S)
  \/ Comment
  \/ Outlive

Spec == Init /\ [][Next]_vars

=============================================================================
