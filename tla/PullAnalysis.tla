---------------------------- MODULE PullAnalysis ----------------------------
(***************************************************************************)
(* Analyzing one pull request of a connected repository.                   *)
(*                                                                         *)
(* Every push to the pull request makes GitHub call the webhook handler of *)
(* pkg/api/services/repohook, which inserts a row of pull_request_analyzes,*)
(* sets the commit status and puts a run message.  A worker                *)
(* (pkg/worker/analyze/processors) runs it: it reports issues as review    *)
(* comments, saves its result through the status API and sets the commit   *)
(* status.  Two crons act on the same rows: the staler ends analyses that  *)
(* nobody finished, the reanalyzer puts run messages again.                *)
(*                                                                         *)
(* A push stands for its commit, its webhook delivery and the analysis     *)
(* that has the delivery's GUID.  Review comments are followed for one     *)
(* issue that every push contains, on the same line.                       *)
(***************************************************************************)
EXTENDS Naturals

CONSTANTS
  MaxPushes,   \* bound: pushes to the pull request
  Workers,     \* analyzes queue consumers, over all workers
  MaxCopies,   \* bound: copies of one message in the queue
  Private,     \* the pull request's repository is private
  LocksLast    \* assumption: no lock of a message expires before its handler
               \* has ended

ASSUME PullAnalysisAssumption ==
  /\ MaxPushes \in Nat \ {0}
  /\ MaxCopies \in Nat \ {0}
  /\ Private \in BOOLEAN
  /\ LocksLast \in BOOLEAN

Pushes == 1..MaxPushes
NoPush == 0

VARIABLES
  head,         \* the last push, 0 if there is no pull request yet
  delivery,     \* the webhook call for a push
  status,       \* pull_request_analyzes: the status of a push's row
  queue,        \* copies of a push's run message
  commitStatus, \* what GitHub shows for a push's commit
  comments,     \* comments GitHub shows on the issue
  worker,       \* worker consumers
  reviewLock,   \* who has the repository's lock, a worker at most
  staler,       \* the staler: the rows it has read and not updated yet
  unsaved,      \* history: the unfinished rows whose result was refused last
  outlived      \* history: a reporter's lock has expired under it

githubVars == <<head, commitStatus, comments>>
reviewVars == <<reviewLock, outlived>>
vars == <<githubVars, status, unsaved, delivery, queue, worker, reviewVars,
          staler>>

-----------------------------------------------------------------------------
\* A result is "success" or "failure": the number of issues is left out.  Rows
\* are saved as "processed/" with the verdict.
Verdicts == {"result", "error"}
Unfinished == {"sent_to_queue", "processing"}
Settled == {"processed", "forced_stale"}

IdleWorker == [pc |-> "idle", push |-> NoPush, verdict |-> "error",
               retry |-> FALSE]
IdleStaler == [todo |-> {}, push |-> NoPush]

HasRow(p) == status[p] # "none"

Init ==
  /\ head = 0
  /\ commitStatus = [p \in Pushes |-> "none"]
  /\ comments = 0
  /\ status = [p \in Pushes |-> "none"]
  /\ delivery = [p \in Pushes |-> "none"]
  /\ queue = [p \in Pushes |-> 0]
  /\ worker = [w \in Workers |-> IdleWorker]
  /\ staler = IdleStaler
  /\ reviewLock = {}
  /\ unsaved = {}
  /\ outlived = FALSE

\* UpdateAnalysisStateByAnalysisGUID overwrites whatever status the row has.
SetStatus(p, s) == status' = [status EXCEPT ![p] = s]

Send(p) ==
  /\ queue[p] < MaxCopies
  /\ queue' = [queue EXCEPT ![p] = @ + 1]

-----------------------------------------------------------------------------
(* The user                                                                *)

\* Opening the pull request is its first push.
Push ==
  /\ head < MaxPushes
  /\ head' = head + 1
  /\ delivery' = [delivery EXCEPT ![head + 1] = "create"]
  /\ UNCHANGED <<commitStatus, comments, status, queue, worker, staler,
                 unsaved, reviewVars>>

-----------------------------------------------------------------------------
(* The webhook handler                                                     *)

\* A private repository without subscription, seat or token is refused.
RefuseAnalysis(p) ==
  /\ delivery[p] = "create"
  /\ Private
  /\ commitStatus' = [commitStatus EXCEPT ![p] = "error"]
  /\ delivery' = [delivery EXCEPT ![p] = "answered"]
  /\ UNCHANGED <<head, comments, status, queue, worker, staler, unsaved,
                 reviewVars>>

\* The delivery's GUID is unique in the table.
CreateAnalysis(p) ==
  /\ delivery[p] = "create"
  /\ ~HasRow(p)
  /\ SetStatus(p, "sent_to_queue")
  /\ delivery' = [delivery EXCEPT ![p] = "set_pending"]
  /\ UNCHANGED <<githubVars, queue, worker, staler, unsaved, reviewVars>>

\* "Waiting in queue...".  If GitHub refuses, the handler is done and the row
\* has no message.
SetPending(p) ==
  /\ delivery[p] = "set_pending"
  /\ \/ /\ commitStatus' = [commitStatus EXCEPT ![p] = "pending"]
        /\ delivery' = [delivery EXCEPT ![p] = "put"]
     \/ /\ delivery' = [delivery EXCEPT ![p] = "answered"]
        /\ UNCHANGED commitStatus
  /\ UNCHANGED <<head, comments, status, queue, worker, staler, unsaved,
                 reviewVars>>

PutRun(p) ==
  /\ delivery[p] = "put"
  /\ Send(p)
  /\ delivery' = [delivery EXCEPT ![p] = "answered"]
  /\ UNCHANGED <<githubVars, status, worker, staler, unsaved, reviewVars>>

\* An error, a timeout or a crash: GitHub does not try again by itself.
WebhookFails(p) ==
  /\ delivery[p] \in {"create", "set_pending", "put"}
  /\ delivery' = [delivery EXCEPT ![p] = "answered"]
  /\ UNCHANGED <<githubVars, status, queue, worker, staler, unsaved,
                 reviewVars>>

\* A user may ask GitHub to deliver again.
Redeliver(p) ==
  /\ delivery[p] = "answered"
  /\ delivery' = [delivery EXCEPT ![p] = "create"]
  /\ UNCHANGED <<githubVars, status, queue, worker, staler, unsaved,
                 reviewVars>>

-----------------------------------------------------------------------------
(* The worker                                                              *)

Goto(w, pc) == worker' = [worker EXCEPT ![w] = [@ EXCEPT !.pc = pc]]

\* The analysis has a verdict, which is to be saved.
Conclude(w, verdict, retry) ==
  worker' = [worker EXCEPT ![w] = [@ EXCEPT !.pc = "save_state",
                                            !.verdict = verdict,
                                            !.retry = retry]]

\* The lock is the GUID.
ReceiveRun(w, p) ==
  /\ worker[w].pc = "idle"
  /\ queue[p] > 0
  /\ LocksLast => \A v \in Workers : worker[v].push # p
  /\ worker' = [worker EXCEPT ![w] = [IdleWorker EXCEPT !.pc = "fetch_pull",
                                                        !.push = p]]
  /\ UNCHANGED <<githubVars, status, delivery, queue, staler, unsaved,
                 reviewVars>>

\* Mutant: the status of the row is not looked at.
FetchPullBlindly(w) ==
  /\ worker[w].pc = "fetch_pull"
  /\ \/ commitStatus' = [commitStatus EXCEPT ![worker[w].push] = "pending"]
     \/ UNCHANGED commitStatus
  /\ \E pc \in {"put_processing", "analyze"} : Goto(w, pc)
  /\ UNCHANGED <<head, comments, status, delivery, queue, staler, unsaved,
                 reviewVars>>

\* fetchProviderPullRequest; updateStatusToProcessing sets the commit status
\* and reads the row through the status API, which needs the row of the
\* repository to be there still.  Failures of both are only warned about.
FetchPull(w) ==
  /\ worker[w].pc = "fetch_pull"
  /\ \/ commitStatus' = [commitStatus EXCEPT ![worker[w].push] = "pending"]
     \/ UNCHANGED commitStatus
  /\ \/ /\ status[worker[w].push] = "sent_to_queue"
        /\ Goto(w, "put_processing")
     \/ Goto(w, "analyze")
  /\ UNCHANGED <<head, comments, status, delivery, queue, staler, unsaved,
                 reviewVars>>

PutProcessing(w) ==
  /\ worker[w].pc = "put_processing"
  /\ \/ SetStatus(worker[w].push, "processing")
     \/ UNCHANGED status
  /\ Goto(w, "analyze")
  /\ UNCHANGED <<githubVars, delivery, queue, staler, unsaved, reviewVars>>

\* GitHub does not know the pull request or the token any more, or the pull
\* request is marked WIP: the message is acknowledged without any result.
Drop(w) ==
  /\ worker[w].pc \in {"fetch_pull", "analyze"}
  /\ Goto(w, "ack")
  /\ UNCHANGED <<githubVars, status, delivery, queue, staler, unsaved,
                 reviewVars>>

\* Workspace, patch, checkPull and the linters, when there is nothing to
\* report: the pull request is closed, has no issues, or something failed,
\* which may or may not be tried again.
Analyze(w) ==
  /\ worker[w].pc = "analyze"
  /\ \/ Conclude(w, "result", FALSE)
     \/ \E retry \in BOOLEAN : Conclude(w, "error", retry)
  /\ UNCHANGED <<githubVars, status, delivery, queue, staler, unsaved,
                 reviewVars>>

\* Mutant: analyses of a repository report at the same time.
ReportUnlocked(w) ==
  /\ worker[w].pc = "analyze"
  /\ \/ /\ comments > 0
        /\ Conclude(w, "result", FALSE)
     \/ /\ comments = 0
        /\ Goto(w, "create_review")
  /\ UNCHANGED <<githubVars, status, unsaved, delivery, queue, reviewVars,
                 staler>>

\* With issues, the reporter takes the lock of the repository, fetches the
\* comments, and leaves out the issues that have one: if there is nothing left,
\* the lock is given back.
Report(w) ==
  /\ worker[w].pc = "analyze"
  /\ reviewLock = {}
  /\ \/ /\ comments > 0
        /\ Conclude(w, "result", FALSE)
        /\ UNCHANGED reviewLock
     \/ /\ comments = 0
        /\ Goto(w, "create_review")
        /\ reviewLock' = {w}
  /\ UNCHANGED <<githubVars, status, unsaved, delivery, queue, outlived,
                 staler>>

\* The lock is a key of redis that is made without an expiry option: it is gone
\* after redsync's 8 s, while GitHub is asked again for two minutes and then the
\* review is created. What is left of a crashed reporter goes the same way.
ReviewLockExpires ==
  /\ reviewLock # {}
  /\ reviewLock' = {}
  /\ outlived' = (outlived \/ \E w \in reviewLock :
                                worker[w].pc = "create_review")
  /\ UNCHANGED <<githubVars, status, unsaved, delivery, queue, worker, staler>>

\* The review is created, and GitHub's answer may be lost; or it is not: a
\* blocked reviewer or a commit that left the pull request is permanent. The
\* lock is given back, if it is still the reporter's own.
CreateReview(w) ==
  /\ worker[w].pc = "create_review"
  /\ \/ /\ comments' = comments + 1
        /\ \/ Conclude(w, "result", FALSE)
           \/ Conclude(w, "error", TRUE)
     \/ /\ UNCHANGED comments
        /\ \E retry \in BOOLEAN : Conclude(w, "error", retry)
  /\ reviewLock' = reviewLock \ {w}
  /\ UNCHANGED <<head, commitStatus, status, unsaved, delivery, queue, outlived,
                 staler>>

\* Mutant: the commit status is set without waiting for the state.
SaveStateLater(w) ==
  /\ worker[w].pc = "save_state"
  /\ \/ SetStatus(worker[w].push, "processed")
     \/ UNCHANGED status
  /\ Goto(w, "set_status")
  /\ UNCHANGED <<githubVars, unsaved, delivery, queue, reviewVars, staler>>

\* updateAnalysisState. If the status API refuses the result, that is only
\* warned about.
SaveState(w) ==
  LET p == worker[w].push IN
  /\ worker[w].pc = "save_state"
  /\ \/ /\ SetStatus(p, "processed")
        /\ unsaved' = unsaved \ {p}
     \/ /\ unsaved' = IF status[p] \in Settled THEN unsaved
                                               ELSE unsaved \cup {p}
        /\ UNCHANGED status
  /\ Goto(w, "set_status")
  /\ UNCHANGED <<githubVars, delivery, queue, reviewVars, staler>>

\* A failure is only warned about.  An error that can be tried again leaves
\* the message in the queue.
SetCommitStatus(w) ==
  /\ worker[w].pc = "set_status"
  /\ \/ commitStatus' = [commitStatus EXCEPT ![worker[w].push] =
                           worker[w].verdict]
     \/ UNCHANGED commitStatus
  /\ worker' = [worker EXCEPT ![w] =
                  IF @.retry THEN IdleWorker
                  ELSE [@ EXCEPT !.pc = "ack", !.verdict = "error"]]
  /\ UNCHANGED <<head, comments, status, delivery, queue, staler, unsaved,
                 reviewVars>>

AckRun(w) ==
  /\ worker[w].pc = "ack"
  /\ queue' = [queue EXCEPT ![worker[w].push] = IF @ = 0 THEN 0 ELSE @ - 1]
  /\ worker' = [worker EXCEPT ![w] = IdleWorker]
  /\ UNCHANGED <<githubVars, status, delivery, staler, unsaved, reviewVars>>

\* An error that is tried again, a failing container or a panic; or a crash,
\* which leaves the repository locked.
WorkerFails(w) ==
  /\ worker[w].pc # "idle"
  /\ worker' = [worker EXCEPT ![w] = IdleWorker]
  /\ reviewLock' \in {reviewLock, reviewLock \ {w}}
  /\ UNCHANGED <<githubVars, status, unsaved, delivery, queue, outlived,
                 staler>>

-----------------------------------------------------------------------------
(* Crons                                                                   *)

\* Mutant: the staler knows only analyses that no worker has begun.
FindStaleQueued ==
  /\ staler.todo = {}
  /\ \E S \in SUBSET {p \in Pushes : status[p] = "sent_to_queue"} :
       S # {} /\ staler' = [IdleStaler EXCEPT !.todo = S]
  /\ UNCHANGED <<githubVars, status, delivery, queue, worker, unsaved,
                 reviewVars>>

\* RunIteration works on copies of the unfinished rows that are old enough.
FindStale ==
  /\ staler.todo = {}
  /\ \E S \in SUBSET {p \in Pushes : status[p] \in Unfinished} :
       S # {} /\ staler' = [IdleStaler EXCEPT !.todo = S]
  /\ UNCHANGED <<githubVars, status, delivery, queue, worker, unsaved,
                 reviewVars>>

\* "Processing timeout" for the commit that is the pull request's head by now,
\* unless GitHub refuses
SetTimeoutStatus(p) ==
  /\ p \in staler.todo
  /\ staler.push = NoPush
  /\ \/ commitStatus' = [commitStatus EXCEPT ![head] = "error"]
     \/ UNCHANGED commitStatus
  /\ staler' = [staler EXCEPT !.push = p]
  /\ UNCHANGED <<head, comments, status, delivery, queue, worker, unsaved,
                 reviewVars>>

ForceStale(p) ==
  /\ staler.push = p
  /\ SetStatus(p, "forced_stale")
  /\ staler' = [IdleStaler EXCEPT !.todo = staler.todo \ {p}]
  /\ UNCHANGED <<githubVars, delivery, queue, worker, unsaved, reviewVars>>

\* GitHub or the table fails: the row is left for the next iteration.
StalerFails ==
  /\ staler.push # NoPush
  /\ staler' = [IdleStaler EXCEPT !.todo = staler.todo \ {staler.push}]
  /\ UNCHANGED <<githubVars, status, delivery, queue, worker, unsaved,
                 reviewVars>>

\* The reanalyzer works for hours through the pull requests it has read, so the
\* row that was the last one then may be any row.  It waits for a change of the
\* row, but not longer than three minutes.  Its list of pull requests that are
\* done is dumped when it ends; a run that is cut short is repeated from the
\* start.
RestartAnalysis(p) ==
  /\ HasRow(p)
  /\ Send(p)
  /\ UNCHANGED <<githubVars, status, delivery, worker, staler, unsaved,
                 reviewVars>>

-----------------------------------------------------------------------------
WebhookStep(p) ==
  \/ RefuseAnalysis(p)
  \/ CreateAnalysis(p)
  \/ SetPending(p)
  \/ PutRun(p)
  \/ WebhookFails(p)
  \/ Redeliver(p)

WorkerProgress(w) ==
  \/ FetchPull(w)
  \/ PutProcessing(w)
  \/ Drop(w)
  \/ Analyze(w)
  \/ Report(w)
  \/ CreateReview(w)
  \/ SaveState(w)
  \/ SetCommitStatus(w)
  \/ AckRun(w)

WorkerStep(w) ==
  \/ \E p \in Pushes : ReceiveRun(w, p)
  \/ WorkerProgress(w)
  \/ WorkerFails(w)

StalerStep ==
  \/ FindStale
  \/ \E p \in Pushes : SetTimeoutStatus(p) \/ ForceStale(p)
  \/ StalerFails

Next ==
  \/ Push
  \/ \E p \in Pushes : WebhookStep(p)
  \/ \E w \in Workers : WorkerStep(w)
  \/ ReviewLockExpires
  \/ StalerStep
  \/ \E p \in Pushes : RestartAnalysis(p)

Spec == Init /\ [][Next]_vars

\* Time passes, so that the staler finds every row that stays unfinished, and
\* GitHub and the database do not fail it for ever.  Nothing is assumed of
\* webhook calls, of the queue or of the workers' success: a worker's handler
\* ends because its context has a timeout.
Fairness ==
  /\ \A p \in Pushes :
       /\ SF_vars(FindStale /\ p \in staler'.todo)
       /\ SF_vars(ForceStale(p))
  /\ WF_vars(\E p \in Pushes : SetTimeoutStatus(p))
  /\ WF_vars((\E p \in Pushes : ForceStale(p)) \/ StalerFails)
  /\ \A w \in Workers : WF_vars(WorkerProgress(w) \/ WorkerFails(w))

FairSpec == Spec /\ Fairness

-----------------------------------------------------------------------------
TypeOK ==
  /\ head \in 0..MaxPushes
  /\ commitStatus \in [Pushes -> {"none", "pending"} \cup Verdicts]
  /\ comments \in Nat
  /\ status \in [Pushes -> {"none"} \cup Unfinished \cup Settled]
  /\ delivery \in [Pushes -> {"none", "create", "set_pending", "put",
                              "answered"}]
  /\ queue \in [Pushes -> 0..MaxCopies]
  /\ worker \in [Workers ->
       [pc : {"idle", "fetch_pull", "put_processing", "analyze",
              "create_review", "save_state", "set_status", "ack"},
        push : Pushes \cup {NoPush}, verdict : Verdicts, retry : BOOLEAN]]
  /\ staler \in [todo : SUBSET Pushes, push : Pushes \cup {NoPush}]
  /\ reviewLock \subseteq Workers
  /\ unsaved \subseteq Pushes \cup {NoPush}
  /\ outlived \in BOOLEAN

-----------------------------------------------------------------------------
(* Properties                                                              *)

\* "update of state must be before commit status update: user can open details
\* link before": a commit that GitHub shows as passed or failed has a result in
\* the table, whatever staler, reanalyzer and repeated runs do; or the status
\* API has refused it, which the worker only warns about.
LinkShowsResult ==
  \A p \in Pushes :
    commitStatus[p] = "result" => status[p] \in Settled \/ p \in unsaved

\* "don't be annoying: don't comment on the same line twice": over all pushes,
\* repeated runs, crashes and lost answers, an issue has one comment, unless a
\* reporter took longer than its lock lasts.
CommentedOnce == comments <= 1 \/ outlived

\* A result is never taken back, but by the staler, which overwrites a row that
\* was unfinished when it was read; and a row is never dropped or made anew.
ResultStays ==
  [][\A p \in Pushes :
       /\ HasRow(p) => HasRow(p)'
       /\ status[p] \in Settled => status'[p] # "sent_to_queue"
       /\ status[p] = "processed" /\ status'[p] # "processed"
          => status'[p] = "forced_stale" /\ p \in staler.todo]_vars

\* Whatever fails, no analysis is shown as running for ever: every row settles
\* and stays so.
AnalysisSettles ==
  \A p \in Pushes : HasRow(p) ~> [](status[p] \in Settled)

-----------------------------------------------------------------------------
(* The abstract specification                                              *)

Shown == {p \in Pushes : commitStatus[p] = "result"}

Abs == INSTANCE PullAnalysisAbs WITH shown <- Shown, overdue <- staler.todo

\* Webhook calls, repeated runs, crons and crashes are analyses that begin, end
\* or are given up, are shown as passed only when they have ended or their
\* result was refused, and comment an issue once, unless the lock did not last.
RefinesPull == Abs!Spec

-----------------------------------------------------------------------------
(* Why these hold: the inductive invariant                                 *)

\* A message, a handler and the staler's copy have a row: the webhook inserts
\* it first and nothing deletes it.
EveryRunHasRow ==
  /\ \A p \in Pushes :
       queue[p] > 0 \/ delivery[p] \in {"set_pending", "put"} => HasRow(p)
  /\ \A w \in Workers :
       worker[w].pc # "idle" => worker[w].push \in Pushes /\ HasRow(worker[w].push)
  /\ \A p \in staler.todo : HasRow(p)
  /\ staler.push # NoPush => staler.push \in staler.todo

\* The lock of a run message is the GUID.
AloneWithRun ==
  \A v, w \in Workers :
    /\ worker[w].pc = "idle" <=> worker[w].push = NoPush
    /\ worker[w].pc # "idle" /\ worker[v].push = worker[w].push => v = w

\* The status read by a worker that is about to write "processing" may only
\* have been overwritten by the staler.
NoResultYet ==
  \A w \in Workers :
    worker[w].pc = "put_processing" => status[worker[w].push] # "processed"

NotShownYet ==
  \A w \in Workers :
    worker[w].pc = "put_processing" =>
      commitStatus[worker[w].push] # "result" \/ worker[w].push \in unsaved

\* The result is in the table, or was refused, when the commit status is set.
StateIsSaved ==
  \A w \in Workers :
    worker[w].pc = "set_status" =>
      status[worker[w].push] \in Settled \/ worker[w].push \in unsaved

\* The reporter that creates a review has the lock, unless one has expired, and
\* what it has read is still so.
AloneWithReview ==
  \A w \in Workers :
    worker[w].pc = "create_review" =>
      outlived \/ (comments = 0 /\ reviewLock = {w})

\* Rows come before messages, the repository's lock keeps its reports apart, and
\* the locks of messages the runs of an analysis.
PullInv ==
  /\ EveryRunHasRow
  /\ AloneWithReview
  /\ CommentedOnce
  /\ LocksLast =>
       /\ AloneWithRun
       /\ NoResultYet
       /\ NotShownYet
       /\ StateIsSaved
       /\ LinkShowsResult

=============================================================================
