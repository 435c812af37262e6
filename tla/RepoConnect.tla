---------------------------- MODULE RepoConnect ----------------------------
(***************************************************************************)
(* Connecting and disconnecting one repository of the provider (GitHub).   *)
(*                                                                         *)
(* The API handlers of pkg/api/services/repo insert a row of table repos,  *)
(* put a message into the primary queue and advance the row's commit_state *)
(* in three separate steps.  The consumers of                              *)
(* pkg/api/workers/primaryqueue/repos receive those messages at least once *)
(* and drive the row to a terminal state, calling the provider in between. *)
(* Every step may be the last one of its handler: a process may crash, a   *)
(* call may fail or its answer be lost.                                    *)
(*                                                                         *)
(* All rows of this module belong to the same provider repository          *)
(* (models.Repo.ProviderID): a repository that is connected again gets a   *)
(* new row.                                                                *)
(***************************************************************************)
EXTENDS Naturals

CONSTANTS
  Users,        \* ids of users rows: a user who unlinks gets a new id later
  Requests,     \* API requests handled at the same time
  Consumers,    \* queue consumer goroutines, over all API processes
  MaxRepos,     \* bound: rows ever inserted for this provider repository
  MaxCopies,    \* bound: copies of one message in the queue
  MaxHooks,     \* bound: webhooks ever installed for one row
  Private,      \* models.Repo.IsPrivate
  RejectsDuplicateHook, \* whether the provider refuses a second equal webhook
  NoUser

ASSUME RepoConnectAssumption ==
  /\ MaxRepos \in Nat \ {0}
  /\ MaxCopies \in Nat \ {0}
  /\ MaxHooks \in Nat \ {0}
  /\ Private \in BOOLEAN
  /\ RejectsDuplicateHook \in BOOLEAN
  /\ NoUser \notin Users

VARIABLES
  commitState,    \* repos.commit_state, "none" for a row not inserted yet
  deleted,        \* repos.deleted_at IS NOT NULL
  repoUser,       \* repos.user_id
  providerHookID, \* repos.provider_hook_id, 0 is unset
  analysisStatus, \* the row's repo_analysis_statuses row
  launched,       \* rows for which a launch message was put into the queue
  authed,         \* users that have a row in auths
  orgExists,      \* the owner of a private repository has a row in orgs
  queue,          \* copies of every message in the primary queue
  hooks,          \* provider: webhooks calling the URL of a row
  bot,            \* provider: the reviewer bot's access to the repository
  denied,         \* history: rows whose webhook is there and which the provider
                  \* denied to a deleter
  inviteQueued,   \* an invitation for the bot waits in the primary queue
  req,            \* API requests
  job             \* consumers

rowVars == <<commitState, deleted, repoUser, providerHookID>>
analysisVars == <<analysisStatus, launched>>
providerVars == <<hooks, denied, bot, inviteQueued>>
vars == <<rowVars, analysisVars, authed, orgExists, queue, providerVars,
          req, job>>

-----------------------------------------------------------------------------
Rows == 1..MaxRepos

CreateStates == {"create/init", "create/sent_to_queue", "create/created_repo",
                 "create/done", "create/rollback/init", "create/rollback/done"}
DeleteStates == {"delete/init", "delete/sent_to_queue", "delete/done"}
CommitStates == CreateStates \cup DeleteStates

CreateNotStarted == {"create/init", "create/sent_to_queue"}
DeleteNotDone == {"delete/init", "delete/sent_to_queue"}

\* Queries are scoped to rows that are not soft-deleted, unless the code says
\* Unscoped(); the unique index on provider_id ranges over the same rows.
Live(r) == commitState[r] # "none" /\ ~deleted[r]

CreateMsg(r) == [kind |-> "create", repo |-> r, user |-> NoUser]
DeleteMsg(r, u) == [kind |-> "delete", repo |-> r, user |-> u]
Messages == {CreateMsg(r) : r \in Rows}
              \cup {DeleteMsg(r, u) : r \in Rows, u \in Users}

NoRequest == [pc |-> "idle", user |-> NoUser, repo |-> 0]
NoJob == [pc |-> "idle", msg |-> CreateMsg(1), hook |-> 0]

RequestPCs == {"idle", "check_subscription", "insert", "put_create",
               "finish_create", "start_delete", "put_delete", "finish_delete"}
JobPCs == {"idle", "create_hook", "add_collaborator", "put_invite",
           "commit_created", "mark_rollback", "rollback", "status", "launch",
           "commit_done", "delete_hook", "remove_collaborator",
           "commit_deleted", "ack"}

Init ==
  /\ commitState = [r \in Rows |-> "none"]
  /\ deleted = [r \in Rows |-> FALSE]
  /\ repoUser = [r \in Rows |-> NoUser]
  /\ providerHookID = [r \in Rows |-> 0]
  /\ analysisStatus = [r \in Rows |-> "none"]
  /\ launched = {}
  /\ authed = Users
  /\ orgExists = FALSE
  /\ queue = [m \in Messages |-> 0]
  /\ hooks = [r \in Rows |-> {}]
  /\ denied = {}
  /\ bot = "none"
  /\ inviteQueued = FALSE
  /\ req = [q \in Requests |-> NoRequest]
  /\ job = [c \in Consumers |-> NoJob]

Put(m) ==
  /\ queue[m] < MaxCopies
  /\ queue' = [queue EXCEPT ![m] = @ + 1]

-----------------------------------------------------------------------------
(* API: POST /v1/repos                                                     *)

\* Create up to its first decision.  A live row in another commit state is
\* answered at once: with its description while it is being or is created,
\* with an error while it is being deleted.
CreateRequest(q, u) ==
  /\ req[q].pc = "idle"
  /\ u \in authed
  /\ \/ \E r \in Rows :
          /\ Live(r)
          /\ commitState[r] = "create/init"
          /\ req' = [req EXCEPT ![q] =
                       [pc |-> "put_create", user |-> u, repo |-> r]]
     \/ /\ \A r \in Rows : ~Live(r)
        /\ req' = [req EXCEPT ![q] =
                     [pc |-> IF Private THEN "check_subscription"
                                        ELSE "insert",
                      user |-> u, repo |-> 0]]
  /\ UNCHANGED <<rowVars, analysisVars, authed, orgExists, queue,
                 providerVars, job>>

\* Without a subscription the organization's row is made for the settings
\* page the user is sent to, and nothing is connected.
CheckSubscription(q) ==
  /\ req[q].pc = "check_subscription"
  /\ \/ /\ req' = [req EXCEPT ![q].pc = "insert"]
        /\ UNCHANGED orgExists
     \/ /\ req' = [req EXCEPT ![q] = NoRequest]
        /\ orgExists' = TRUE
  /\ UNCHANGED <<rowVars, analysisVars, authed, queue, providerVars, job>>

\* storeRepo up to the queue: the unique index lets one of two racing
\* requests insert, the other one continues with the row it finds.
InsertRepo(q) ==
  /\ req[q].pc = "insert"
  /\ \/ \E r \in Rows :
          /\ \A s \in Rows : ~Live(s)
          /\ commitState[r] = "none"
          /\ \A s \in 1..(r - 1) : commitState[s] # "none"
          /\ commitState' = [commitState EXCEPT ![r] = "create/init"]
          /\ repoUser' = [repoUser EXCEPT ![r] = req[q].user]
          /\ req' = [req EXCEPT ![q].pc = "put_create", ![q].repo = r]
     \/ \E r \in Rows :
          /\ Live(r)
          /\ req' = [req EXCEPT ![q] =
                       IF commitState[r] = "create/init"
                       THEN [@ EXCEPT !.pc = "put_create", !.repo = r]
                       ELSE NoRequest]
          /\ UNCHANGED <<commitState, repoUser>>
  /\ UNCHANGED <<deleted, providerHookID, analysisVars, authed, orgExists,
                 queue, providerVars, job>>

SendToCreateQueue(q) ==
  /\ req[q].pc = "put_create"
  /\ Put(CreateMsg(req[q].repo))
  /\ req' = [req EXCEPT ![q].pc = "finish_create"]
  /\ UNCHANGED <<rowVars, analysisVars, authed, orgExists, providerVars, job>>

\* Mutant: the update does not ask for the expected state.
FinishQueueSendingBlindly(q, pc, expState, setState) ==
  LET r == req[q].repo IN
  /\ req[q].pc = pc
  /\ commitState' = IF Live(r) THEN [commitState EXCEPT ![r] = setState]
                              ELSE commitState
  /\ req' = [req EXCEPT ![q] = NoRequest]
  /\ UNCHANGED <<deleted, repoUser, providerHookID, analysisVars, authed,
                 orgExists, queue, providerVars, job>>

\* A consumer may have been faster: then no row is in state expState and the
\* update, which changes nothing, is not an error.
FinishQueueSending(q, pc, expState, setState) ==
  LET r == req[q].repo IN
  /\ req[q].pc = pc
  /\ commitState' = IF Live(r) /\ commitState[r] = expState
                    THEN [commitState EXCEPT ![r] = setState]
                    ELSE commitState
  /\ req' = [req EXCEPT ![q] = NoRequest]
  /\ UNCHANGED <<deleted, repoUser, providerHookID, analysisVars, authed,
                 orgExists, queue, providerVars, job>>

FinishCreate(q) ==
  FinishQueueSending(q, "finish_create", "create/init", "create/sent_to_queue")

-----------------------------------------------------------------------------
(* API: DELETE /v1/repos/{repoid} and DELETE /v1/auth/unlink               *)

\* Delete up to its first decision; it may be asked for by any admin of the
\* repository, not only by the user who connected it.
DeleteRequest(q, u) ==
  /\ req[q].pc = "idle"
  /\ u \in authed
  /\ \E r \in Rows :
       /\ Live(r)
       /\ commitState[r] \in {"create/done", "delete/init"}
       /\ req' = [req EXCEPT ![q] =
                    [pc |-> IF commitState[r] = "create/done"
                            THEN "start_delete" ELSE "put_delete",
                     user |-> u, repo |-> r]]
  /\ UNCHANGED <<rowVars, analysisVars, authed, orgExists, queue,
                 providerVars, job>>

StartDelete(q) ==
  LET r == req[q].repo IN
  /\ req[q].pc = "start_delete"
  /\ Live(r)
  /\ commitState[r] = "create/done"
  /\ commitState' = [commitState EXCEPT ![r] = "delete/init"]
  /\ req' = [req EXCEPT ![q].pc = "put_delete"]
  /\ UNCHANGED <<deleted, repoUser, providerHookID, analysisVars, authed,
                 orgExists, queue, providerVars, job>>

SendToDeleteQueue(q) ==
  /\ req[q].pc = "put_delete"
  /\ Put(DeleteMsg(req[q].repo, req[q].user))
  /\ req' = [req EXCEPT ![q].pc = "finish_delete"]
  /\ UNCHANGED <<rowVars, analysisVars, authed, orgExists, providerVars, job>>

FinishDelete(q) ==
  FinishQueueSending(q, "finish_delete", "delete/init", "delete/sent_to_queue")

\* Any step of a handler may fail (an error answer, a lost race of StartDelete)
\* and the process may stop: what was done before stays done.
RequestFails(q) ==
  /\ req[q].pc # "idle"
  /\ req' = [req EXCEPT ![q] = NoRequest]
  /\ UNCHANGED <<rowVars, analysisVars, authed, orgExists, queue,
                 providerVars, job>>

\* One transaction: the user's repositories are soft-deleted, whatever their
\* commit state, and the user's auth is deleted for good.
UnlinkProvider(u) ==
  /\ u \in authed
  /\ deleted' = [r \in Rows |-> deleted[r] \/ (Live(r) /\ repoUser[r] = u)]
  /\ authed' = authed \ {u}
  /\ UNCHANGED <<commitState, repoUser, providerHookID, analysisVars,
                 orgExists, queue, providerVars, req, job>>

-----------------------------------------------------------------------------
(* Consumers                                                               *)

\* The handler of a message runs under the distributed lock LockID(), which
\* names the message; a message stays in the queue until it is acknowledged.
\* Consumers of the dead letter queue run the same handlers under the same
\* lock.  The lock is released just before the acknowledgement: here it is held
\* until then, which leaves out no change of a row, because a copy received in
\* between finds its row handled (AcksAreLate).
Receive(c, m) ==
  /\ job[c].pc = "idle"
  /\ queue[m] > 0
  /\ \A d \in Consumers : job[d].pc # "idle" => job[d].msg # m

StartJob(c, m, pc, hook) ==
  job' = [job EXCEPT ![c] = [pc |-> pc, msg |-> m, hook |-> hook]]

JobAt(c, pc) == job[c].pc = pc
JobRow(c) == job[c].msg.repo
Goto(c, pc) == job' = [job EXCEPT ![c].pc = pc]

\* Mutant: a row another run has brought to created_repo counts as done.
CreatedCountsAsDone ==
  [s \in {"create/init", "create/sent_to_queue", "create/created_repo",
          "create/done", "create/rollback/init"} |->
     CASE s \in CreateNotStarted -> "create_hook"
       [] s \in {"create/created_repo", "create/done"} -> "ack"
       [] s = "create/rollback/init" -> "rollback"]

\* Mutant: a rollback that was cut short is not continued.
RollbackNotContinued ==
  [s \in {"create/init", "create/sent_to_queue", "create/created_repo",
          "create/done"} |->
     CASE s \in CreateNotStarted -> "create_hook"
       [] s = "create/created_repo" -> "status"
       [] s = "create/done" -> "ack"]

\* The first state handled by processStates, by the row's commit state.
\* In any other state the handler fails at once.
FirstCreateStep ==
  [s \in {"create/init", "create/sent_to_queue", "create/created_repo",
          "create/done", "create/rollback/init"} |->
     CASE s \in CreateNotStarted -> "create_hook"
       [] s = "create/created_repo" -> "status"
       [] s = "create/done" -> "ack"
       [] s = "create/rollback/init" -> "rollback"]

\* CreatorConsumer.run: a row that is not found is a permanent error, which
\* acknowledges the message; without the user's auth no provider can be built.
ReceiveCreate(c, r) ==
  /\ Receive(c, CreateMsg(r))
  /\ \/ /\ ~Live(r)
        /\ StartJob(c, CreateMsg(r), "ack", 0)
     \/ /\ Live(r)
        /\ repoUser[r] \in authed
        /\ commitState[r] \in DOMAIN FirstCreateStep
        /\ StartJob(c, CreateMsg(r), FirstCreateStep[commitState[r]], 0)
  /\ UNCHANGED <<rowVars, analysisVars, authed, orgExists, queue,
                 providerVars, req>>

\* provider: the URLs of a webhook.  The one it calls is part of its config,
\* the one of the webhook object itself is an address in the provider's API.
ConfigURL(r) == <<"callback", r>>
ObjectURL(r, h) == <<"api", r, h>>

\* ListRepoHooks: parseHook takes the URL of the webhook object.
ListRepoHooks ==
  UNION {{[id |-> h, url |-> ObjectURL(r, h)] : h \in hooks[r]} : r \in Rows}

\* The webhooks the comparison in createHook finds, and those the provider may
\* make: a refused duplicate is an error that is tried again.
InstalledHooks(r) ==
  {h.id : h \in {x \in ListRepoHooks : x.url = ConfigURL(r)}}
NewHooks(r) ==
  IF RejectsDuplicateHook /\ hooks[r] # {} THEN {}
                                          ELSE (1..MaxHooks) \ hooks[r]

AfterHook == IF Private THEN "add_collaborator" ELSE "commit_created"

CreateHook(c) ==
  LET r == JobRow(c) IN
  /\ JobAt(c, "create_hook")
  /\ \E h \in IF InstalledHooks(r) # {} THEN InstalledHooks(r)
                                        ELSE NewHooks(r) :
       /\ hooks' = [hooks EXCEPT ![r] = @ \cup {h}]
       /\ job' = [job EXCEPT ![c].pc = AfterHook, ![c].hook = h]
  /\ UNCHANGED <<rowVars, analysisVars, authed, orgExists, queue, denied, bot,
                 inviteQueued, req>>

\* Adding the bot again before it accepted returns the same invitation.
AddCollaborator(c) ==
  /\ JobAt(c, "add_collaborator")
  /\ IF bot = "member"
     THEN Goto(c, "commit_created") /\ UNCHANGED bot
     ELSE Goto(c, "put_invite") /\ bot' = "invited"
  /\ UNCHANGED <<rowVars, analysisVars, authed, orgExists, queue, hooks,
                 denied, inviteQueued, req>>

PutInvite(c) ==
  /\ JobAt(c, "put_invite")
  /\ inviteQueued' = TRUE
  /\ Goto(c, "commit_created")
  /\ UNCHANGED <<rowVars, analysisVars, authed, orgExists, queue, hooks,
                 denied, bot, req>>

\* AcceptorConsumer.run: an invitation that is not found counts as accepted,
\* then the repository must be visible to the bot.  The acknowledgement of
\* the message may be lost.
AcceptInvitation ==
  /\ inviteQueued
  /\ bot # "none"
  /\ bot' = "member"
  /\ inviteQueued' \in BOOLEAN
  /\ UNCHANGED <<rowVars, analysisVars, authed, orgExists, queue, hooks,
                 denied, req, job>>

\* Mutant: the id of the webhook is not among the updated fields.
CommitCreatedWithoutHook(c) ==
  LET r == JobRow(c) IN
  /\ JobAt(c, "commit_created")
  /\ Live(r)
  /\ commitState[r] \in CreateNotStarted
  /\ commitState' = [commitState EXCEPT ![r] = "create/created_repo"]
  /\ Goto(c, "status")
  /\ UNCHANGED <<deleted, repoUser, providerHookID, analysisVars, authed,
                 orgExists, queue, providerVars, req>>

\* createRepo's update; UpdateRequired fails if no row matches.
CommitCreated(c) ==
  LET r == JobRow(c) IN
  /\ JobAt(c, "commit_created")
  /\ Live(r)
  /\ commitState[r] \in CreateNotStarted
  /\ commitState' = [commitState EXCEPT ![r] = "create/created_repo"]
  /\ providerHookID' = [providerHookID EXCEPT ![r] = job[c].hook]
  /\ Goto(c, "status")
  /\ UNCHANGED <<deleted, repoUser, analysisVars, authed, orgExists, queue,
                 providerVars, req>>

\* The provider answers createHook or addCollaborator with an error that
\* IsPermanentError: archived, not found, unauthorized, no free seats.
PermanentError(c) ==
  /\ job[c].pc \in {"create_hook", "add_collaborator"}
  /\ Goto(c, "mark_rollback")
  /\ UNCHANGED <<rowVars, analysisVars, authed, orgExists, queue,
                 providerVars, req>>

MarkRepoForRollback(c) ==
  LET r == JobRow(c) IN
  /\ JobAt(c, "mark_rollback")
  /\ Live(r)
  /\ commitState[r] \in CreateNotStarted
  /\ commitState' = [commitState EXCEPT ![r] = "create/rollback/init"]
  /\ Goto(c, "rollback")
  /\ UNCHANGED <<deleted, repoUser, providerHookID, analysisVars, authed,
                 orgExists, queue, providerVars, req>>

RollbackRepo(c) ==
  LET r == JobRow(c) IN
  /\ JobAt(c, "rollback")
  /\ Live(r)
  /\ commitState[r] = "create/rollback/init"
  /\ commitState' = [commitState EXCEPT ![r] = "create/rollback/done"]
  /\ deleted' = [deleted EXCEPT ![r] = TRUE]
  /\ Goto(c, "ack")
  /\ UNCHANGED <<repoUser, providerHookID, analysisVars, authed, orgExists,
                 queue, providerVars, req>>

\* Mutant: an analysis status made by an earlier run counts as launched.
StatusImpliesLaunch(c) ==
  LET r == JobRow(c) IN
  /\ JobAt(c, "status")
  /\ \E s \in IF analysisStatus[r] = "none" THEN {"pending", "empty"}
                                            ELSE {analysisStatus[r]} :
       /\ analysisStatus' = [analysisStatus EXCEPT ![r] = s]
       /\ Goto(c, IF s = "pending" /\ analysisStatus[r] = "none"
                  THEN "launch" ELSE "commit_done")
  /\ UNCHANGED <<rowVars, launched, authed, orgExists, queue, providerVars,
                 req>>

\* createRepoAnalysisStatus: the row made by an earlier run is kept; a
\* repository without commits has nothing to analyze.
CreateRepoAnalysisStatus(c) ==
  LET r == JobRow(c) IN
  /\ JobAt(c, "status")
  /\ \E s \in IF analysisStatus[r] = "none" THEN {"pending", "empty"}
                                            ELSE {analysisStatus[r]} :
       /\ analysisStatus' = [analysisStatus EXCEPT ![r] = s]
       /\ Goto(c, IF s = "pending" THEN "launch" ELSE "commit_done")
  /\ UNCHANGED <<rowVars, launched, authed, orgExists, queue, providerVars,
                 req>>

PutLaunch(c) ==
  /\ JobAt(c, "launch")
  /\ launched' = launched \cup {JobRow(c)}
  /\ Goto(c, "commit_done")
  /\ UNCHANGED <<rowVars, analysisStatus, authed, orgExists, queue,
                 providerVars, req>>

CommitDone(c) ==
  LET r == JobRow(c) IN
  /\ JobAt(c, "commit_done")
  /\ Live(r)
  /\ commitState[r] = "create/created_repo"
  /\ commitState' = [commitState EXCEPT ![r] = "create/done"]
  /\ Goto(c, "ack")
  /\ UNCHANGED <<deleted, repoUser, providerHookID, analysisVars, authed,
                 orgExists, queue, providerVars, req>>

\* The analysis launcher (module RepoAnalysis) clears has_pending_changes.
AnalysisLaunched(r) ==
  /\ r \in launched
  /\ analysisStatus[r] = "pending"
  /\ analysisStatus' = [analysisStatus EXCEPT ![r] = "launched"]
  /\ UNCHANGED <<rowVars, launched, authed, orgExists, queue, providerVars,
                 req, job>>

\* Mutant: the row is committed before the provider is asked.
CommitBeforeProvider(c, r, u) ==
  /\ Receive(c, DeleteMsg(r, u))
  /\ commitState[r] \in DeleteNotDone
  /\ u \in authed
  /\ StartJob(c, DeleteMsg(r, u), "commit_deleted", providerHookID[r])
  /\ UNCHANGED <<rowVars, analysisVars, authed, orgExists, queue,
                 providerVars, req>>

\* Mutant: only rows that finishQueueSending has reached are handled.
DeleteOnlySent(c, r, u) ==
  /\ Receive(c, DeleteMsg(r, u))
  /\ commitState[r] = "delete/sent_to_queue"
  /\ u \in authed
  /\ StartJob(c, DeleteMsg(r, u), "delete_hook", providerHookID[r])
  /\ UNCHANGED <<rowVars, analysisVars, authed, orgExists, queue,
                 providerVars, req>>

\* DeleterConsumer.run looks at soft-deleted rows too, and acts for the user
\* who asked.  In any other commit state it fails at once.
ReceiveDelete(c, r, u) ==
  /\ Receive(c, DeleteMsg(r, u))
  /\ commitState[r] \in DeleteNotDone
  /\ u \in authed
  /\ StartJob(c, DeleteMsg(r, u), "delete_hook", providerHookID[r])
  /\ UNCHANGED <<rowVars, analysisVars, authed, orgExists, queue,
                 providerVars, req>>

\* Mutant: an error of the provider is ignored.
DeleteHookLeniently(c) ==
  /\ JobAt(c, "delete_hook")
  /\ hooks' \in {hooks, [hooks EXCEPT ![JobRow(c)] = @ \ {job[c].hook}]}
  /\ Goto(c, "remove_collaborator")
  /\ UNCHANGED <<rowVars, analysisVars, authed, orgExists, queue, denied, bot,
                 inviteQueued, req>>

\* "already deleted by previous run or manually by user": that a webhook is not
\* found is no error.  The provider also denies to know it when the token of the
\* user who asked has no access to the repository any more.
DeleteHook(c) ==
  LET r == JobRow(c) IN
  /\ JobAt(c, "delete_hook")
  /\ \/ /\ hooks' = [hooks EXCEPT ![r] = @ \ {job[c].hook}]
        /\ denied' = denied \ {r}
     \/ /\ job[c].hook \in hooks[r]
        /\ denied' = denied \cup {r}
        /\ UNCHANGED hooks
  /\ Goto(c, "remove_collaborator")
  /\ UNCHANGED <<rowVars, analysisVars, authed, orgExists, queue, bot,
                 inviteQueued, req>>

\* Here, too, "not found" is taken for a repository that is gone.
RemoveCollaborator(c) ==
  /\ JobAt(c, "remove_collaborator")
  /\ bot' \in {bot, "none"}
  /\ Goto(c, "commit_deleted")
  /\ UNCHANGED <<rowVars, analysisVars, authed, orgExists, queue, hooks,
                 denied, inviteQueued, req>>

CommitDeleted(c) ==
  LET r == JobRow(c) IN
  /\ JobAt(c, "commit_deleted")
  /\ Live(r)
  /\ commitState[r] \in DeleteNotDone
  /\ commitState' = [commitState EXCEPT ![r] = "delete/done"]
  /\ deleted' = [deleted EXCEPT ![r] = TRUE]
  /\ Goto(c, "ack")
  /\ UNCHANGED <<repoUser, providerHookID, analysisVars, authed, orgExists,
                 queue, providerVars, req>>

AckMessage(c) ==
  LET m == job[c].msg IN
  /\ JobAt(c, "ack")
  /\ queue' = [queue EXCEPT ![m] = @ - 1]
  /\ job' = [job EXCEPT ![c] = NoJob]
  /\ UNCHANGED <<rowVars, analysisVars, authed, orgExists, providerVars, req>>

\* A handler that fails, times out or dies, or whose acknowledgement is lost:
\* the message becomes visible again after its visibility timeout.
JobFails(c) ==
  /\ job[c].pc # "idle"
  /\ job' = [job EXCEPT ![c] = NoJob]
  /\ UNCHANGED <<rowVars, analysisVars, authed, orgExists, queue,
                 providerVars, req>>

-----------------------------------------------------------------------------
RequestStep(q) ==
  \/ \E u \in Users : CreateRequest(q, u) \/ DeleteRequest(q, u)
  \/ CheckSubscription(q)
  \/ InsertRepo(q)
  \/ SendToCreateQueue(q)
  \/ FinishCreate(q)
  \/ StartDelete(q)
  \/ SendToDeleteQueue(q)
  \/ FinishDelete(q)
  \/ RequestFails(q)

\* What a consumer does when nothing goes wrong
JobProgress(c) ==
  \/ CreateHook(c)
  \/ AddCollaborator(c)
  \/ PutInvite(c)
  \/ CommitCreated(c)
  \/ MarkRepoForRollback(c)
  \/ RollbackRepo(c)
  \/ CreateRepoAnalysisStatus(c)
  \/ PutLaunch(c)
  \/ CommitDone(c)
  \/ DeleteHook(c)
  \/ RemoveCollaborator(c)
  \/ CommitDeleted(c)
  \/ AckMessage(c)

ConsumerStep(c) ==
  \/ \E r \in Rows : ReceiveCreate(c, r)
  \/ \E r \in Rows, u \in Users : ReceiveDelete(c, r, u)
  \/ JobProgress(c)
  \/ PermanentError(c)
  \/ JobFails(c)

Next ==
  \/ \E q \in Requests : RequestStep(q)
  \/ \E c \in Consumers : ConsumerStep(c)
  \/ \E u \in Users : UnlinkProvider(u)
  \/ AcceptInvitation
  \/ \E r \in Rows : AnalysisLaunched(r)

Spec == Init /\ [][Next]_vars

ReceiveSomewhere(m) ==
  \E c \in Consumers :
    \/ m.kind = "create" /\ ReceiveCreate(c, m.repo)
    \/ m.kind = "delete" /\ ReceiveDelete(c, m.repo, m.user)

\* A handler that could go on fails
TransientFailure(c) == ENABLED JobProgress(c) /\ JobFails(c)

\* A message is received again and again until it is acknowledged, a handler
\* ends (its context times out), and transient failures stop after a while.
Fairness ==
  /\ \A m \in Messages : SF_vars(ReceiveSomewhere(m))
  /\ \A c \in Consumers : WF_vars(JobProgress(c) \/ JobFails(c))
  /\ <>[][\A c \in Consumers : ~TransientFailure(c)]_vars

FairSpec == Spec /\ Fairness

-----------------------------------------------------------------------------
TypeOK ==
  /\ commitState \in [Rows -> CommitStates \cup {"none"}]
  /\ deleted \in [Rows -> BOOLEAN]
  /\ repoUser \in [Rows -> Users \cup {NoUser}]
  /\ providerHookID \in [Rows -> 0..MaxHooks]
  /\ analysisStatus \in [Rows -> {"none", "pending", "launched", "empty"}]
  /\ launched \subseteq Rows
  /\ authed \subseteq Users
  /\ orgExists \in BOOLEAN
  /\ queue \in [Messages -> 0..MaxCopies]
  /\ hooks \in [Rows -> SUBSET (1..MaxHooks)]
  /\ denied \subseteq Rows
  /\ bot \in {"none", "invited", "member"}
  /\ inviteQueued \in BOOLEAN
  /\ req \in [Requests -> [pc : RequestPCs, user : Users \cup {NoUser},
                           repo : 0..MaxRepos]]
  /\ job \in [Consumers -> [pc : JobPCs, msg : Messages, hook : 0..MaxHooks]]

-----------------------------------------------------------------------------
(* Properties                                                              *)

\* A row that says sent_to_queue, or that a consumer has begun to handle, has
\* its message in the queue: the API answers such a row without sending it
\* again, so a message lost or acknowledged too early would strand it.
CreateIsQueued(r) ==
  /\ Live(r)
  /\ commitState[r] \in {"create/sent_to_queue", "create/created_repo",
                         "create/rollback/init"}
  => queue[CreateMsg(r)] > 0

DeleteIsQueued(r) ==
  Live(r) /\ commitState[r] = "delete/sent_to_queue"
  => \E u \in Users : queue[DeleteMsg(r, u)] > 0

SentToQueueIsQueued == \A r \in Rows : CreateIsQueued(r) /\ DeleteIsQueued(r)

\* The lock named by a message: no two handlers run for the same message, and
\* only its handler takes a message out of the queue.
JobsHoldMessages ==
  \A c \in Consumers :
    job[c].pc # "idle" =>
      /\ queue[job[c].msg] > 0
      /\ \A d \in Consumers :
           job[d].pc # "idle" /\ job[d].msg = job[c].msg => d = c

\* The steps of the creator and of the deleter
CreatePCs == {"create_hook", "add_collaborator", "put_invite",
              "commit_created", "mark_rollback", "rollback", "status",
              "launch", "commit_done"}
DeletePCs == {"delete_hook", "remove_collaborator", "commit_deleted"}

JobKindsMatch ==
  \A c \in Consumers :
    /\ job[c].pc \in CreatePCs => job[c].msg = CreateMsg(JobRow(c))
    /\ job[c].pc \in DeletePCs => job[c].msg.kind = "delete"

\* Why SentToQueueIsQueued is preserved: rows are inserted before a message or
\* a request names them, a request that put its message finds the row moved on
\* if the message is gone, and a message is acknowledged only when its row
\* needs it no more.
Inserted(r) == commitState[r] # "none"

NamedRowsAreInserted ==
  /\ \A r \in Rows : deleted[r] => Inserted(r)
  /\ \A m \in Messages : queue[m] > 0 => Inserted(m.repo)
  /\ \A q \in Requests :
       req[q].pc \in {"put_create", "finish_create", "start_delete",
                      "put_delete", "finish_delete"}
       => req[q].repo \in Rows /\ Inserted(req[q].repo)
  /\ \A q \in Requests :
       /\ req[q].pc # "idle" => req[q].user \in Users
       /\ req[q].pc \in {"put_delete", "finish_delete"}
          => commitState[req[q].repo] \in DeleteStates

SentRequestsAreQueued ==
  \A q \in Requests :
    LET r == req[q].repo IN
    /\ req[q].pc = "finish_create" /\ Live(r) /\ commitState[r] = "create/init"
       => queue[CreateMsg(r)] > 0
    /\ req[q].pc = "finish_delete" /\ Live(r) /\ commitState[r] = "delete/init"
       => queue[DeleteMsg(r, req[q].user)] > 0

\* The row of a message needs it no more
Handled(m) ==
  \/ ~Live(m.repo)
  \/ m.kind = "create"
     /\ commitState[m.repo] \in {"create/done"} \cup DeleteStates

AcksAreLate ==
  \A c \in Consumers : JobAt(c, "ack") => Handled(job[c].msg)

QueueInv ==
  /\ JobsHoldMessages
  /\ JobKindsMatch
  /\ NamedRowsAreInserted
  /\ SentRequestsAreQueued
  /\ AcksAreLate
  /\ SentToQueueIsQueued

\* A repository whose connection is done has the webhook whose id the row
\* keeps: events of the repository reach the API, and Delete can find it.
ConnectedHasHook ==
  \A r \in Rows :
    commitState[r] \in {"create/created_repo", "create/done"}
    => providerHookID[r] \in hooks[r]

\* As far as a deleter can tell
HookIsGone(r) == hooks[r] = {} \/ r \in denied

\* A disconnected repository has no webhook left at the provider, whatever
\* runs of the creator and of several deleters were cut short before, unless
\* the provider denied to a deleter that the webhook is there.
DisconnectedHasNoHook ==
  \A r \in Rows : commitState[r] = "delete/done" => HookIsGone(r)

\* A connected repository with commits has an analysis: the launch message is
\* in the queue before the row is done.
DoneIsAnalyzed ==
  \A r \in Rows :
    commitState[r] \in {"create/done"} \cup DeleteStates
    => /\ analysisStatus[r] # "none"
       /\ analysisStatus[r] = "pending" => r \in launched

\* The commit states that may follow a commit state
Successors ==
  [s \in CommitStates \cup {"none"} |->
     CASE s = "none" -> {"create/init"}
       [] s = "create/init" ->
            {"create/sent_to_queue", "create/created_repo",
             "create/rollback/init"}
       [] s = "create/sent_to_queue" ->
            {"create/created_repo", "create/rollback/init"}
       [] s = "create/created_repo" -> {"create/done"}
       [] s = "create/rollback/init" -> {"create/rollback/done"}
       [] s = "create/done" -> {"delete/init"}
       [] s = "delete/init" -> {"delete/sent_to_queue", "delete/done"}
       [] s = "delete/sent_to_queue" -> {"delete/done"}
       [] OTHER -> {}]

\* The commit state only moves forward and a deletion is for good: a late
\* finishQueueSending of the API never overwrites what a consumer has reached.
MovesForward(r) ==
  /\ commitState'[r] # commitState[r]
     => ~deleted[r] /\ commitState'[r] \in Successors[commitState[r]]
  /\ deleted[r] => deleted'[r]

CommitStateMovesForward == [][\A r \in Rows : MovesForward(r)]_vars

\* A webhook left behind by a run of the creator that did not commit it
HookLeftBehind(r) == hooks[r] # {} /\ providerHookID[r] = 0

\* A connection that reached the queue ends, unless its user unlinked the
\* provider or an earlier run left its webhook behind.
ConnectEnds ==
  \A r \in Rows :
    (queue[CreateMsg(r)] > 0 /\ Live(r)) ~>
      \/ ~Live(r)
      \/ commitState[r] \in {"create/done"} \cup DeleteStates
      \/ repoUser[r] \notin authed
      \/ HookLeftBehind(r)

\* A disconnection that reached the queue ends, unless the user who asked for
\* it unlinked the provider.
DisconnectEnds ==
  \A r \in Rows, u \in Users :
    (queue[DeleteMsg(r, u)] > 0 /\ Live(r)) ~> (~Live(r) \/ u \notin authed)

-----------------------------------------------------------------------------
(* Refinement                                                              *)

Phase(r) ==
  IF commitState[r] = "none" THEN "absent"
  ELSE IF commitState[r] = "create/rollback/done" THEN "failed"
  ELSE IF commitState[r] = "delete/done" THEN "disconnected"
  ELSE IF deleted[r] THEN "dropped"
  ELSE IF commitState[r] = "create/done" THEN "connected"
  ELSE IF commitState[r] \in DeleteNotDone THEN "disconnecting"
  ELSE "connecting"

Abs == INSTANCE RepoConnectAbs
         WITH Connections <- Rows,
              phase <- [r \in Rows |-> Phase(r)],
              hooked <- {r \in Rows : hooks[r] # {}}

\* The rows, seen through their phases, are connections as RepoConnectAbs
\* promises them: at most one is active, it is established with its webhook
\* and disconnected without, or with one that the provider denied.
RefinesAbs == Abs!Spec

=============================================================================
