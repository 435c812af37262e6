---------------------------- MODULE RepoAnalysis ----------------------------
(***************************************************************************)
(* Analyzing the default branch of one connected repository.               *)
(*                                                                         *)
(* The creator of the repository and the push webhook put launch messages  *)
(* into the primary queue.  The launcher of                                *)
(* pkg/api/workers/primaryqueue/repoanalyzes makes the analysis' row in a  *)
(* transaction and then puts a run message into the queue of analyzes.     *)
(* The worker (pkg/worker/analyze/processors) runs it and keeps the row's  *)
(* status up to date through the status API, which the page of the report  *)
(* reads.  Both queues deliver at least once; every step of a handler may  *)
(* be its last one.                                                        *)
(*                                                                         *)
(* The row of repo_analysis_statuses exists from the start; its version is *)
(* replaced by what a comparison with it tells: whether the row is still   *)
(* the one a launcher has read.                                            *)
(***************************************************************************)
EXTENDS Naturals, Sequences

CONSTANTS
  Guids,       \* analysis GUIDs: of webhook deliveries, or made by the creator
  Commits,     \* commits of the default branch
  Launchers,   \* primary queue consumers, over all API processes
  Workers,     \* analyzes queue consumers, over all workers
  MaxCopies,   \* bound: copies of one message in a queue
  Private,     \* models.Repo.IsPrivate
  NoGuid, NoCommit

ASSUME RepoAnalysisAssumption ==
  /\ MaxCopies \in Nat \ {0}
  /\ Private \in BOOLEAN
  /\ NoGuid \notin Guids
  /\ NoCommit \notin Commits

VARIABLES
  connecting,  \* the creator has not moved the repository to create/done yet
  authed,      \* the user of the repository has a row in auths
  isEmpty,     \* repo_analysis_statuses.is_empty
  pending,     \* has_pending_changes and pending_commit_sha
  analyses,    \* rows of repo_analyzes in the order of their ids
  commitOf,    \* the commit a GUID was first sent with
  launchQueue, \* copies of the launch message of every GUID
  runQueue,    \* copies of the run message of every GUID
  launcher,    \* launcher consumers
  worker,      \* worker consumers
  unsaved      \* history: the unfinished analyses whose result was refused and
               \* given up

\* What is in the tables, and what did not get there.
tableVars == <<isEmpty, pending, analyses, unsaved>>
vars == <<connecting, authed, tableVars, commitOf, launchQueue, runQueue,
          launcher, worker>>

-----------------------------------------------------------------------------
Complete == {"processed", "error"}
Final == Complete \cup {"not_found"}
Statuses == {"sent_to_queue", "processing"} \cup Final

Analyses == [guid : Guids, commit : Commits, status : Statuses]

NotPending == [has |-> FALSE, commit |-> NoCommit]
PendingOn(c) == [has |-> TRUE, commit |-> c]

IdleLauncher == [pc |-> "idle", guid |-> NoGuid, fresh |-> FALSE]
IdleWorker == [pc |-> "idle", guid |-> NoGuid]

\* The rows of an analysis: at most one, analysis_guid is unique
RowsOf(g) == {i \in DOMAIN analyses : analyses[i].guid = g}

SetStatus(g, s) ==
  analyses' = [i \in DOMAIN analyses |->
                 IF i \in RowsOf(g) THEN [analyses[i] EXCEPT !.status = s]
                                    ELSE analyses[i]]

Send(queue, g) ==
  /\ queue[g] < MaxCopies
  /\ queue' = [queue EXCEPT ![g] = @ + 1]

\* The creator's row: without a branch there is nothing to analyze yet.
Init ==
  /\ connecting = TRUE
  /\ authed = TRUE
  /\ \/ isEmpty = TRUE /\ pending = NotPending
     \/ isEmpty = FALSE /\ pending \in {PendingOn(c) : c \in Commits}
  /\ analyses = <<>>
  /\ commitOf = [g \in Guids |-> NoCommit]
  /\ launchQueue = [g \in Guids |-> 0]
  /\ runQueue = [g \in Guids |-> 0]
  /\ launcher = [l \in Launchers |-> IdleLauncher]
  /\ worker = [w \in Workers |-> IdleWorker]
  /\ unsaved = {}

-----------------------------------------------------------------------------
(* API: who asks for an analysis                                           *)

\* Mutant: create/done is committed before the message is put.
CreatorCommitsFirst(g) ==
  /\ connecting
  /\ pending.has
  /\ commitOf[g] = NoCommit
  /\ connecting' = FALSE
  /\ \/ /\ commitOf' = [commitOf EXCEPT ![g] = pending.commit]
        /\ Send(launchQueue, g)
     \/ UNCHANGED <<commitOf, launchQueue>>
  /\ UNCHANGED <<authed, tableVars, runQueue, launcher, worker>>

\* A run of the creator that is cut short before it commits create/done puts
\* the message again, with a new GUID.
CreatorPuts(g) ==
  /\ connecting
  /\ pending.has
  /\ commitOf[g] = NoCommit
  /\ commitOf' = [commitOf EXCEPT ![g] = pending.commit]
  /\ Send(launchQueue, g)
  /\ connecting' \in BOOLEAN
  /\ UNCHANGED <<authed, tableVars, runQueue, launcher, worker>>

CreatorSkips ==
  /\ connecting
  /\ ~pending.has
  /\ connecting' = FALSE
  /\ UNCHANGED <<authed, tableVars, commitOf, launchQueue, runQueue, launcher,
                 worker>>

\* A webhook delivery for a push to the default branch
HandlePushWebhook(g, c) ==
  /\ commitOf[g] = NoCommit
  /\ commitOf' = [commitOf EXCEPT ![g] = c]
  /\ Send(launchQueue, g)
  /\ UNCHANGED <<connecting, authed, tableVars, runQueue, launcher, worker>>

\* The same delivery again, or a second copy made by the queue
Redeliver(g) ==
  /\ commitOf[g] # NoCommit
  /\ Send(launchQueue, g)
  /\ UNCHANGED <<connecting, authed, tableVars, commitOf, runQueue, launcher,
                 worker>>

UnlinkProvider ==
  /\ authed
  /\ authed' = FALSE
  /\ UNCHANGED <<connecting, tableVars, commitOf, launchQueue, runQueue,
                 launcher, worker>>

-----------------------------------------------------------------------------
(* Launcher                                                                *)

\* The lock names the repository and the commit.  The status row is read
\* before the transaction begins.
ReceiveLaunch(l, g) ==
  /\ launcher[l].pc = "idle"
  /\ launchQueue[g] > 0
  /\ \A k \in Launchers : launcher[k].pc # "idle" =>
       commitOf[launcher[k].guid] # commitOf[g]
  /\ launcher' = [launcher EXCEPT ![l] =
                    [pc |-> "create_db_entries", guid |-> g, fresh |-> TRUE]]
  /\ UNCHANGED <<connecting, authed, tableVars, commitOf, launchQueue,
                 runQueue, worker>>

\* Mutant: a repeated run that finds its row has nothing left to do.
RepeatedRunIsDone(l) ==
  LET g == launcher[l].guid
      c == commitOf[g] IN
  /\ launcher[l].pc = "create_db_entries"
  /\ launcher[l].fresh
  /\ isEmpty' = FALSE
  /\ \/ /\ RowsOf(g) # {}
        /\ pending' = PendingOn(c)
        /\ UNCHANGED analyses
     \/ /\ RowsOf(g) = {}
        /\ \A i \in DOMAIN analyses : analyses[i].commit # c
        /\ pending' = NotPending
        /\ analyses' = Append(analyses, [guid |-> g, commit |-> c,
                                         status |-> "sent_to_queue"])
  /\ launcher' = [k \in Launchers |->
                    [launcher[k] EXCEPT
                       !.pc = IF k # l THEN @
                              ELSE IF RowsOf(g) # {} THEN "ack" ELSE "put_run",
                       !.fresh = FALSE]]
  /\ UNCHANGED <<connecting, authed, unsaved, commitOf, launchQueue, runQueue,
                 worker>>

\* Mutant: a repeated run is an error.
RepeatedRunFails(l) ==
  LET g == launcher[l].guid
      c == commitOf[g] IN
  /\ launcher[l].pc = "create_db_entries"
  /\ launcher[l].fresh
  /\ \A i \in DOMAIN analyses : analyses[i].commit # c
  /\ isEmpty' = FALSE
  /\ pending' = NotPending
  /\ analyses' = Append(analyses, [guid |-> g, commit |-> c,
                                   status |-> "sent_to_queue"])
  /\ launcher' = [k \in Launchers |->
                    [launcher[k] EXCEPT !.pc = IF k = l THEN "put_run" ELSE @,
                                        !.fresh = FALSE]]
  /\ UNCHANGED <<connecting, authed, unsaved, commitOf, launchQueue, runQueue,
                 worker>>

\* setPendingChanges and createRepoAnalysis in one transaction.  A repeated run
\* finds its row and leaves the changes pending.  The unique index of analyses
\* rejects a second GUID for a commit, which rolls everything back.
CreateDBEntries(l) ==
  LET g == launcher[l].guid
      c == commitOf[g] IN
  /\ launcher[l].pc = "create_db_entries"
  /\ launcher[l].fresh
  /\ isEmpty' = FALSE
  /\ \/ /\ RowsOf(g) # {}
        /\ pending' = PendingOn(c)
        /\ UNCHANGED analyses
     \/ /\ RowsOf(g) = {}
        /\ \A i \in DOMAIN analyses : analyses[i].commit # c
        /\ pending' = NotPending
        /\ analyses' = Append(analyses, [guid |-> g, commit |-> c,
                                         status |-> "sent_to_queue"])
  /\ launcher' = [k \in Launchers |->
                    [launcher[k] EXCEPT !.pc = IF k = l THEN "put_run" ELSE @,
                                        !.fresh = FALSE]]
  /\ UNCHANGED <<connecting, authed, unsaved, commitOf, launchQueue, runQueue,
                 worker>>

\* The user's token is part of the message about a private repository.
PutAnalysisIntoQueue(l) ==
  /\ launcher[l].pc = "put_run"
  /\ Private => authed
  /\ Send(runQueue, launcher[l].guid)
  /\ launcher' = [launcher EXCEPT ![l].pc = "ack"]
  /\ UNCHANGED <<connecting, authed, tableVars, commitOf, launchQueue, worker>>

AckLaunch(l) ==
  /\ launcher[l].pc = "ack"
  /\ launchQueue' = [launchQueue EXCEPT ![launcher[l].guid] = @ - 1]
  /\ launcher' = [launcher EXCEPT ![l] = IdleLauncher]
  /\ UNCHANGED <<connecting, authed, tableVars, commitOf, runQueue, worker>>

\* A lost race for the status row, an error, a timeout or a crash: the message
\* becomes visible again.
LauncherFails(l) ==
  /\ launcher[l].pc # "idle"
  /\ launcher' = [launcher EXCEPT ![l] = IdleLauncher]
  /\ UNCHANGED <<connecting, authed, tableVars, commitOf, launchQueue,
                 runQueue, worker>>

-----------------------------------------------------------------------------
(* Worker                                                                  *)

\* The lock is the GUID.
ReceiveRun(w, g) ==
  /\ worker[w].pc = "idle"
  /\ runQueue[g] > 0
  /\ \A v \in Workers : worker[v].pc # "idle" => worker[v].guid # g
  /\ worker' = [worker EXCEPT ![w] = [pc |-> "get_state", guid |-> g]]
  /\ UNCHANGED <<connecting, authed, tableVars, commitOf, launchQueue,
                 runQueue, launcher>>

\* Mutant: the status is not looked at.
GetAnyState(w) ==
  /\ worker[w].pc = "get_state"
  /\ \E pc \in {"put_processing", "analyze"} :
       worker' = [worker EXCEPT ![w].pc = pc]
  /\ UNCHANGED <<connecting, authed, tableVars, commitOf, launchQueue,
                 runQueue, launcher>>

\* updateStatusToProcessing reads the row; if that fails it only warns.
GetState(w) ==
  /\ worker[w].pc = "get_state"
  /\ \E pc \in IF \E i \in RowsOf(worker[w].guid) :
                    analyses[i].status = "sent_to_queue"
               THEN {"put_processing", "analyze"} ELSE {"analyze"} :
       worker' = [worker EXCEPT ![w].pc = pc]
  /\ UNCHANGED <<connecting, authed, tableVars, commitOf, launchQueue,
                 runQueue, launcher>>

PutProcessing(w) ==
  /\ worker[w].pc = "put_processing"
  /\ \/ SetStatus(worker[w].guid, "processing")
     \/ UNCHANGED analyses
  /\ worker' = [worker EXCEPT ![w].pc = "analyze"]
  /\ UNCHANGED <<connecting, authed, isEmpty, pending, unsaved, commitOf,
                 launchQueue, runQueue, launcher>>

\* What errorToStatus and isRecoverableError make of the analysis' outcome: an
\* internal error is tried again after its status was saved.  A failing
\* executor shows no status at all and is a failure of the handler.
Outcomes == {[status |-> "processed", retry |-> FALSE],
             [status |-> "not_found", retry |-> FALSE],
             [status |-> "error", retry |-> FALSE],
             [status |-> "error", retry |-> TRUE]}

\* UpdateByAnalysisGUID overwrites whatever status the row has.
SaveResult(g, o) ==
  /\ SetStatus(g, o.status)
  /\ unsaved' = unsaved \ {g}

\* A failing update is only warned about.
ResultRefused(g, o) ==
  /\ unsaved' = IF o.retry \/ \A i \in RowsOf(g) : analyses[i].status \in Final
                THEN unsaved ELSE unsaved \cup {g}
  /\ UNCHANGED analyses

\* Once the analysis has an outcome, submitResult saves it.
Process(w) ==
  /\ worker[w].pc = "analyze"
  /\ \E o \in Outcomes :
       /\ SaveResult(worker[w].guid, o) \/ ResultRefused(worker[w].guid, o)
       /\ worker' = [worker EXCEPT ![w] = IF o.retry THEN IdleWorker
                                          ELSE [@ EXCEPT !.pc = "ack"]]
  /\ UNCHANGED <<connecting, authed, isEmpty, pending, commitOf, launchQueue,
                 runQueue, launcher>>

AckRun(w) ==
  /\ worker[w].pc = "ack"
  /\ runQueue' = [runQueue EXCEPT ![worker[w].guid] = @ - 1]
  /\ worker' = [worker EXCEPT ![w] = IdleWorker]
  /\ UNCHANGED <<connecting, authed, tableVars, commitOf, launchQueue,
                 launcher>>

WorkerFails(w) ==
  /\ worker[w].pc # "idle"
  /\ worker' = [worker EXCEPT ![w] = IdleWorker]
  /\ UNCHANGED <<connecting, authed, tableVars, commitOf, launchQueue,
                 runQueue, launcher>>

-----------------------------------------------------------------------------
(* The page of the report                                                  *)

\* Mutant: a failed analysis does not count as complete.
IsProcessed(i) ==
  /\ i \in DOMAIN analyses
  /\ analyses[i].status = "processed"

IsComplete(i) ==
  /\ i \in DOMAIN analyses
  /\ analyses[i].status \in Complete

\* GetStatus reads the last two rows; buildStatus takes the one before the last
\* while the last one is not complete.  0 is a page without an analysis.
Shown ==
  LET last == Len(analyses) IN
  IF isEmpty THEN 0
  ELSE IF ~IsComplete(last) /\ IsComplete(last - 1) THEN last - 1
  ELSE last

-----------------------------------------------------------------------------
RequestStep(g) ==
  \/ CreatorPuts(g)
  \/ \E c \in Commits : HandlePushWebhook(g, c)
  \/ Redeliver(g)

LauncherProgress(l) ==
  \/ CreateDBEntries(l)
  \/ PutAnalysisIntoQueue(l)
  \/ AckLaunch(l)

WorkerProgress(w) ==
  \/ GetState(w)
  \/ PutProcessing(w)
  \/ Process(w)
  \/ AckRun(w)

LauncherStep(l) ==
  \/ \E g \in Guids : ReceiveLaunch(l, g)
  \/ LauncherProgress(l)
  \/ LauncherFails(l)

WorkerStep(w) ==
  \/ \E g \in Guids : ReceiveRun(w, g)
  \/ WorkerProgress(w)
  \/ WorkerFails(w)

Next ==
  \/ \E g \in Guids : RequestStep(g)
  \/ CreatorSkips
  \/ UnlinkProvider
  \/ \E l \in Launchers : LauncherStep(l)
  \/ \E w \in Workers : WorkerStep(w)

Spec == Init /\ [][Next]_vars

\* Messages are received again until they are acknowledged and handlers end.
\* Failures of handlers that could go on and of the status API stop after a
\* while, and so do redeliveries, which could make one launcher lose every race
\* for the row.
TransientFailure ==
  \/ \E l \in Launchers : ENABLED LauncherProgress(l) /\ LauncherFails(l)
  \/ \E w \in Workers : ENABLED WorkerProgress(w) /\ WorkerFails(w)
  \/ \E w \in Workers, o \in Outcomes :
       Process(w) /\ ResultRefused(worker[w].guid, o)

Fairness ==
  /\ \A g \in Guids :
       /\ SF_vars(\E l \in Launchers : ReceiveLaunch(l, g))
       /\ SF_vars(\E w \in Workers : ReceiveRun(w, g))
  /\ \A l \in Launchers : WF_vars(LauncherProgress(l) \/ LauncherFails(l))
  /\ \A w \in Workers : WF_vars(WorkerProgress(w) \/ WorkerFails(w))
  /\ <>[][~TransientFailure /\ \A g \in Guids : ~Redeliver(g)]_vars

FairSpec == Spec /\ Fairness

-----------------------------------------------------------------------------
TypeOK ==
  /\ connecting \in BOOLEAN
  /\ authed \in BOOLEAN
  /\ isEmpty \in BOOLEAN
  /\ pending \in {NotPending} \cup {PendingOn(c) : c \in Commits}
  /\ analyses \in Seq(Analyses)
  /\ commitOf \in [Guids -> Commits \cup {NoCommit}]
  /\ launchQueue \in [Guids -> 0..MaxCopies]
  /\ runQueue \in [Guids -> 0..MaxCopies]
  /\ launcher \in [Launchers ->
       [pc : {"idle", "create_db_entries", "put_run", "ack"},
        guid : Guids \cup {NoGuid}, fresh : BOOLEAN]]
  /\ worker \in [Workers ->
       [pc : {"idle", "get_state", "put_processing", "analyze", "ack"},
        guid : Guids \cup {NoGuid}]]
  /\ unsaved \subseteq Guids \cup {NoGuid}

-----------------------------------------------------------------------------
(* Properties                                                              *)

\* An analysis without a final status has a message in one of the queues: the
\* launcher commits its row before it puts the run message, and the worker
\* saves its status before it acknowledges. But the worker only warns when the
\* status API refuses its status: such an analysis is forgotten.
UnfinishedIsQueued ==
  \A i \in DOMAIN analyses :
    analyses[i].status \notin Final /\ analyses[i].guid \notin unsaved
    => launchQueue[analyses[i].guid] + runQueue[analyses[i].guid] > 0

\* A final status is never replaced by one that is not: neither by the
\* "processing" of a repeated or a second run of the worker nor by a repeated
\* launch.  Rows are never dropped or moved.
FinalStaysFinal ==
  [][\A i \in DOMAIN analyses :
       /\ i \in DOMAIN analyses'
       /\ analyses'[i].guid = analyses[i].guid
       /\ analyses[i].status \in Final => analyses'[i].status \in Final]_vars

\* A page that shows a complete report does not go back to an older one when
\* runs are repeated or finish out of order, unless the provider has meanwhile
\* denied the commit (buildStatus).
ReportMovesForward ==
  [][IsComplete(Shown) =>
       Shown' >= Shown \/ analyses'[Shown].status = "not_found"]_vars

\* No report is missing: once the repository is connected and no launch is
\* queued, pending changes have an analysis of their commit.
PendingIsAnalyzed ==
  /\ ~connecting
  /\ pending.has
  /\ \A g \in Guids : launchQueue[g] = 0
  => \E i \in DOMAIN analyses : analyses[i].commit = pending.commit

\* A launch message ends in a finished analysis, unless another GUID has the
\* commit, the user's token is gone or the status API refuses the result.
LaunchedIsFinished ==
  \A g \in Guids :
    launchQueue[g] > 0 ~>
      \/ \E i \in RowsOf(g) : analyses[i].status \in Final
      \/ RowsOf(g) = {} /\ \E i \in DOMAIN analyses :
                              analyses[i].commit = commitOf[g]
      \/ g \in unsaved
      \/ Private /\ ~authed

-----------------------------------------------------------------------------
(* The abstract specification                                              *)

Status ==
  [g \in Guids |->
     IF RowsOf(g) = {} THEN "none"
     ELSE analyses[CHOOSE i \in RowsOf(g) : TRUE].status]

Owed == {g \in Guids : launchQueue[g] > 0 \/ runQueue[g] > 0}

Abs == INSTANCE RepoAnalysisAbs WITH status <- Status, owed <- Owed

\* Launches and runs, however often they are delivered, cut short or repeated,
\* analyze every commit that was asked for under one GUID, and forget a GUID
\* only when its analysis has a final status, or its result was refused.
RefinesAnalysis == Abs!Spec

-----------------------------------------------------------------------------
(* Why these hold: the inductive invariant                                 *)

\* Handlers hold their messages, alone: the lock of a launcher is the commit,
\* the lock of a worker the GUID.
LaunchersHoldMessages ==
  /\ \A g \in Guids : launchQueue[g] > 0 => commitOf[g] # NoCommit
  /\ \A l \in Launchers : launcher[l].pc # "idle" =>
       /\ launcher[l].guid \in Guids
       /\ launchQueue[launcher[l].guid] > 0
       /\ \A k \in Launchers :
            launcher[k].pc # "idle" /\ launcher[k].guid = launcher[l].guid
            => k = l

WorkersHoldMessages ==
  \A w \in Workers : worker[w].pc # "idle" =>
    /\ worker[w].guid \in Guids
    /\ runQueue[worker[w].guid] > 0
    /\ \A v \in Workers :
         worker[v].pc # "idle" /\ worker[v].guid = worker[w].guid => v = w

\* analysis_guid is unique, and a row has the commit its GUID was sent with
RowsMatchGuids ==
  \A i \in DOMAIN analyses :
    /\ commitOf[analyses[i].guid] = analyses[i].commit
    /\ \A j \in DOMAIN analyses : analyses[i].guid = analyses[j].guid => i = j

\* A run message has a row: the launcher's transaction comes first.
RunsHaveRows ==
  /\ \A g \in Guids : runQueue[g] > 0 => RowsOf(g) # {}
  /\ \A l \in Launchers :
       launcher[l].pc \in {"put_run", "ack"} => RowsOf(launcher[l].guid) # {}

\* The status read by the worker that is about to write "processing" is still
\* the status of the row.
ProcessingIsNext ==
  \A w \in Workers :
    worker[w].pc = "put_processing"
    => \A i \in RowsOf(worker[w].guid) : analyses[i].status = "sent_to_queue"

\* "no timeout for state and status saving: it must be durable"
\* (repo_processor.go): a message is acknowledged after its status is saved, or
\* refused.
ResultIsDurable ==
  \A w \in Workers :
    worker[w].pc = "ack" /\ worker[w].guid \notin unsaved
    => \A i \in RowsOf(worker[w].guid) : analyses[i].status \in Final

\* A launch that is about to be acknowledged has its run message, if it needs
\* one.
LaunchedIsQueued ==
  \A l \in Launchers :
    launcher[l].pc = "ack" /\ launcher[l].guid \notin unsaved
    => \A i \in RowsOf(launcher[l].guid) :
         analyses[i].status \in Final \/ runQueue[launcher[l].guid] > 0

\* Pending changes are launched, or about to be.
PendingIsLaunched ==
  pending.has =>
    \/ connecting
    \/ \E g \in Guids : launchQueue[g] > 0 /\ commitOf[g] = pending.commit
    \/ \E i \in DOMAIN analyses : analyses[i].commit = pending.commit

\* Both queues, the rows and their handlers keep to one protocol: a message is
\* taken out of its queue by the handler that holds it alone, after the row
\* has what the next step needs.
AnalysisInv ==
  /\ LaunchersHoldMessages
  /\ WorkersHoldMessages
  /\ RowsMatchGuids
  /\ RunsHaveRows
  /\ ProcessingIsNext
  /\ PendingIsLaunched
  /\ ResultIsDurable
  /\ LaunchedIsQueued
  /\ UnfinishedIsQueued

=============================================================================
