# A TLA+ model of golangci-api

golangci-api is the server side of the golangci.com service: users connect
GitHub repositories and pay for private ones, every push and every pull request
of a connected repository is analyzed by golangci-lint in a container, and the
result is shown as a commit status, as review comments and on a report page.
This directory holds TLA+ modules of it, the configurations TLC checks them
with, and proofs checked by TLAPS. `PROJECT.json` maps every definition to the
lines of the source it stands for.

Contents: [the system](#the-system), [the modules](#the-modules),
[runs](#what-the-runs-check), [bounds](#bounds), [assumptions and
fairness](#assumptions-and-fairness), [proofs](#what-is-proved),
[disagreements](#where-code-and-comments-disagree), [what is left
out](#what-is-not-modelled), [the plan](#plan).

## The system

Three programs share this code: the API server (`cmd/golangci-api`: HTTP
handlers, consumers of the *primary queue*, cron jobs), the analysis worker
(`cmd/golangci-worker`: consumers of the *queue of analyzes*) and the build
agent inside a container. State is kept in Postgres (gorm), in SQS queues, in
Redis (sessions and the distributed locks of queue consumers) and at GitHub,
SecurionPay and Paddle. Nothing is shared in memory between handlers: all
interaction goes through rows, messages and external services, and every
handler may stop between any two of its steps.

| component | state | operations | what is hard | what makes it correct |
|---|---|---|---|---|
| Repository connection (`services/repo`, `primaryqueue/repos`) | `repos` rows with `commit_state`, the webhook at GitHub, the reviewer bot's access | Create, Delete, List; creator and deleter consumers; auth unlink | the row, the message and the state are three writes; messages are delivered again; two users act on one repository; webhook calls are outside the transaction | no row waits for a message that is gone; the state only moves forward; a connected repository has its webhook, a disconnected one has none |
| Invitations acceptor (`primaryqueue/invitations`) | the bot's access | accept | runs after the row may be gone | the bot gets access to connected private repositories |
| Queues (`internal/shared/queue`) | SQS messages, Redis locks | Put, consume, back off, acknowledge, dead letters | visibility, contexts, lock expiry and back-off run on clocks of their own; duplicates | a message is deleted only when a handler has finished it, and one handler runs per lock |
| Repository analysis (`services/repohook`, `primaryqueue/repoanalyzes`, `worker/analyze`, `services/repoanalysis`) | `repo_analysis_statuses`, `repo_analyzes` | push webhook, launcher, worker, status API, report page | three processes and two queues; a transaction followed by a message; repeated webhook deliveries | every launched analysis ends, with a final status that stays |
| Pull request analysis (`services/repohook`, `services/pranalysis`, `worker/analyze/processors`) | `pull_request_analyzes`, commit status, review comments | pull request webhook, worker, status API | row, commit status and message written in turn; two runs report to one pull request | what GitHub shows as done has a result; an issue is commented once; no row stays unfinished |
| Crons (`crons/pranalyzes`, `crons/repoinfo`) | the same rows | staler, reanalyzer, info updater | race the worker over its rows | a result is not taken back; every row settles |
| Subscriptions (`services/subscription`, `primaryqueue/subs`) | `org_subs` with `commit_state` and version, provider's subscription | Update, EventCreate; the updater (the consumers for create and delete exist but nothing puts their messages) | a charge before the row's update; an optimistic lock over several writes | the seats that are paid are the seats of the row |
| Payment events (`primaryqueue/paymentevents`, `paymentproviders`) | `payment_gateway_events`, subscriptions | Paddle events | duplicated and reordered events | an event is applied exactly once, and none is lost |
| Organizations and policy (`services/organization`, `policy`) | `orgs` with version, cached memberships and accesses | Get, Update, access checks | answers of GitHub that are cached, refetched and fallen back to | no edit is lost; access outlives the role by the cache's time at most |
| Authentication (`services/auth`, `internal/api/session`, `auth`) | `users`, `auths`, sessions, OAuth sessions | login, callbacks, relogin, unlink, logout | concurrent and repeated callbacks; the session is written outside the transaction | one linked user per GitHub account; a session is of who consented in that browser |
| VCS providers (`shared/providers`) | GitHub | hooks, collaborators, statuses | retries of calls that are not idempotent | |
| Worker internals (`worker/lib`, `linters`, `reporters`) | a container's files | fetch, prepare, run, report | timeouts, failing containers, a branch that moves | the issues shown are of the commit the analysis was put for |
| Containers (`pkg/buildagent`, `worker/lib/executors`) | docker containers, Fargate tasks | setup, run, shut down | lost answers, ports used again, orphans | commands run in the attempt's own container; every container ends |
| Environment builder (`pkg/goenvbuild`), code score (`api/score`), analytics, HTTP plumbing, configuration | none that outlives a call | | | |

How they interact:

```
 user ──HTTP──> repo.Service ──row──> repos <──row── creator / deleter ──> GitHub webhooks
                    └──message──> primary queue ──────────^ │   └─> invitation ──> acceptor
 GitHub ──push webhook──> repohook ──launch message─────────┤<─────── launch message (creator)
                                                   launcher <┘ ──row──> repo_analyzes
                                                      └─run message──> queue of analyzes ──> worker
 report page <── repoanalysis.Service <── status API <──────────────────────────────────────────┘

 Paddle ──event──> EventCreate ──message──> payment events consumer ──row──> org_subs, payment_gateway_events
 user ──HTTP──> subscription.Update ──row, message──> updater ──> Paddle, row
```

## The modules

### RepoConnect

One repository of GitHub, over the life of several rows. Rows of the table
`repos` are `1..MaxRepos` in the order of insertion; `commitState`, `deleted`,
`repoUser` and `providerHookID` are columns, `Live(r)` is gorm's default scope.
`queue` counts the copies of every message of the primary queue: one create
message per row, one delete message per row and user, because that is what
`LockID` and the payload tell apart.

| in the model | in the code |
|---|---|
| `CreateRequest`, `CheckSubscription`, `InsertRepo`, `SendToCreateQueue`, `FinishCreate` | `BasicService.Create`, `checkSubscription`, `storeRepo`, `sendToCreateQueue`, `finishQueueSending` |
| `DeleteRequest`, `StartDelete`, `SendToDeleteQueue`, `FinishDelete` | `BasicService.Delete`, `startDelete`, `sendToDeleteQueue` |
| `UnlinkProvider` | `auth.BasicService.UnlinkProvider`: one transaction over all of the user's rows |
| `ReceiveCreate`, `FirstCreateStep`, `CreateHook`, `AddCollaborator`, `PutInvite`, `CommitCreated`, `CreateRepoAnalysisStatus`, `PutLaunch`, `CommitDone` | `CreatorConsumer.run`, `processStates` and the state functions it runs in turn |
| `PermanentError`, `MarkRepoForRollback`, `RollbackRepo` | the branch of `processStates` for `provider.IsPermanentError` |
| `ReceiveDelete`, `DeleteHook`, `RemoveCollaborator`, `CommitDeleted` | `DeleterConsumer.run`, `deleteRepo` |
| `AcceptInvitation` | `AcceptorConsumer.run` |
| `AckMessage`, `JobFails`, `Receive` | `SQS.onReceiveMessage`, `Queue.Ack`, `ReflectConsumer.runHandler` |

A handler's steps are separated where another process may see the difference:
every write to a row, to the queue or to GitHub is a step. A read whose result
is used before the next write is part of that step, unless the code writes
later under a condition on what it read (`start_delete`, the consumers'
`commit_state IN (...)`), where the condition is the guard. Each step may be
followed by `RequestFails` or `JobFails` instead of the next one: an error
answer, a timeout and a crash look the same to the others.

`ListRepoHooks`, `ConfigURL` and `ObjectURL` keep the one conversion a property
depends on: `parseHook` takes the URL of the webhook *object*, while the
webhook was installed with the URL it *calls*.

`DeleteHook` has two outcomes, because `unwrapError` makes `ErrNotFound` of every
404 and the deleter goes on with it: the webhook is gone, or it is there and the
provider denied it to a token that has lost its access. The history variable
`denied` remembers for which rows the last deleter was told so.

### RepoConnectAbs

What connecting promises, without queue, requests or retries: at most one
connection of a repository is active; it becomes established only while its
webhook is installed and ends as disconnected only when its webhook is gone, or
when the provider denied last that it is there.
`RepoConnect!RefinesAbs` maps rows to connections: `Phase(r)` from the commit
state and the soft deletion, `hooked` from the provider's webhooks. A row
dropped by an unlink is a phase of its own: its webhook may stay, as the code
leaves it.

### RepoAnalysis

The analyses of one connected repository, from the message that asks for one to
its final status. `commitOf[g]` is the commit that the first message of a GUID
carried (a webhook delivery's id, or a GUID made by the creator).
`repo_analysis_statuses` is `isEmpty` and `pending`; its `version` is abstracted
to what a comparison tells, whether a launcher's copy is still `fresh`.
`analyses` is `repo_analyzes` in the order of ids. The history variable `unsaved`
has the GUIDs whose result the status API refused to a worker that only warned
and acknowledged (`ResultRefused`), until a later run saves one.

| in the model | in the code |
|---|---|
| `CreatorPuts`, `CreatorSkips` | `createRepoAnalysisStatus` and the commit of `create/done` after it |
| `HandlePushWebhook`, `Redeliver` | `handleGithubPushWebhook`; GitHub's redelivery or SQS's second copy |
| `ReceiveLaunch`, `CreateDBEntries`, `PutAnalysisIntoQueue`, `AckLaunch` | `LauncherConsumer.run`, `createDBEntries` (one transaction), `putAnalysisIntoQueue` |
| `ReceiveRun`, `GetState`, `PutProcessing`, `Process`, `AckRun` | `AnalyzeRepo.Consume`, `Repo.Process`, `updateStatusToProcessing`, `submitResult` |
| `Outcomes` | `transformError`, `errorToStatus`, `isRecoverableError`: final statuses, and an error that is saved and tried again |
| `SetStatus`, `SaveResult`, `ResultRefused` | `repoanalysis.UpdateByAnalysisGUID` behind the status API, and its refusal in `submitResult` |
| `IsComplete`, `Shown` | `isCompleteAnalysisStatus`, `GetStatus` with `buildStatus`: the row a report page shows |

In RepoConnect the launch of an analysis is one action (`AnalysisLaunched`);
RepoAnalysis is its detail.

### RepoAnalysisAbs

What asking for an analysis promises: who asked is owed an analysis until the one of
that GUID has a final status, or its result was refused; a commit is analyzed under
one GUID; a final status is
replaced by final ones only. `RepoAnalysis!RefinesAnalysis` maps the row of a GUID to
`status` and the GUIDs with a message in either queue to `owed`.

| in RepoAnalysis | in RepoAnalysisAbs |
|---|---|
| `CreatorPuts`, `HandlePushWebhook` | `Ask` |
| `Redeliver` | `AskAgain` |
| `CreateDBEntries` | `Accept`, or a stutter if the row exists |
| `PutProcessing` | `Begin` |
| `Process` | `Finish`; `Refuse`, or a stutter if the row is final, when the result is refused |
| `AckLaunch`, `AckRun` | `Settle`, or a stutter if the other queue, or a copy, is left |
| every other step, also `PutAnalysisIntoQueue` | a stutter |

### Subscription

The subscription of one organization. `plan[p]` is a subscription at Paddle
with the seats it charges; `subs` is `org_subs` in the order of ids, `seen` is
`payment_gateway_events` by its unique `provider_id`, `accepted` remembers which
events the API answered ok, and `dropped` which of them were taken for handled
because their lookup failed. `queue` counts copies: every delivery of an event
is put with a UUID, and so a lock, of its own; an update message names its
subscription and the seats, not the version it was put for.

| in the model | in the code |
|---|---|
| `Subscribe`, `CancelPlan`, `Emitted` | Paddle: checkout, cancellation, alerts (external) |
| `EventCreate` | `subscription.BasicService.EventCreate` |
| `UpdateRequest`, `AcceptUpdate`, `SendToUpdateQueue`, `FinishQueueSending` | `getSubForUpdate`, `Update`, `sendToUpdateQueue`, `finishQueueSending` |
| `ReceiveEvent`, `ProcessEvent` | the lookup of `EventProcessor.Process`, and the transaction that applies the event and saves it |
| `ReceiveUpdate`, `UpdateProvider`, `CommitUpdate` | `UpdaterConsumer.run`, `paddle.UpdateSubscription` |
| `AckMessage`, `JobFails`, `RequestFails` | as in RepoConnect |

The consumers `subs/create` and `subs/delete` and the service's functions for
their states are left out: no code calls their `Put`, so rows are made and
deleted by events only. Types of events that only save their own row are left
out too.

### SubscriptionAbs

What a subscription promises, without events, queue and versions: an
organization has one at most; whenever no update is under way its seats are
those the provider charges, and the provider changes what it charges only during
an update; it ends once, after it was cancelled.
`Subscription!RefinesSubscription` maps every plan to `Phase(p)` (from the state
and the soft deletion of its row), to the plan's status and seats at the provider
and to the seats of its live rows.

| in Subscription | in SubscriptionAbs |
|---|---|
| `Subscribe`, `CancelPlan` | `Buy`, `Cancel` |
| `ProcessEvent` | `Grant`, `End`, or a stutter if the event was applied before or is refused |
| `AcceptUpdate`, `UpdateProvider`, `CommitUpdate` | `BeginUpdate`, `Charge`, `FinishUpdate` |
| every other step | a stutter |

### PullAnalysis

One pull request. A push stands for its commit, its webhook delivery and the
analysis that carries the delivery's GUID: `status[p]` is the row of
`pull_request_analyzes`, `commitStatus[p]` what GitHub shows, `queue[p]` the
copies of the run message. Review comments are counted for one issue that every
push contains.

Two kinds of locks are kept apart. The lock of a message lasts as long as its
handler may run; `LocksLast` says whether it is relied on. The lock of the
repository, under which a reporter fetches the comments and creates its review,
is made without an expiry option: it is gone after redsync's 8 s, while the fetch
is tried again for up to two minutes. So `ReviewLockExpires` may always happen,
and `outlived` remembers that it happened to a reporter between its fetch and its
review. `unsaved` has the pushes whose result the status API refused.

| in the model | in the code |
|---|---|
| `RefuseAnalysis`, `CreateAnalysis`, `SetPending`, `PutRun`, `WebhookFails` | `handleGithubPullRequestWebhook`: one step per write |
| `ReceiveRun`, `FetchPull`, `PutProcessing`, `Analyze`, `Report`, `CreateReview`, `SaveState`, `SetCommitStatus`, `AckRun` | `BasicPull.Process` and what it calls, `GithubReviewer.Report` |
| `ReviewLockExpires` | the default expiry of the mutex that `checkPull` makes (external) |
| `Drop` | errors that acknowledge the message without a result: no access, a pull request marked WIP |
| `FindStale`, `SetTimeoutStatus`, `ForceStale`, `StalerFails` | `Staler.RunIteration`, which works on rows it has read before |
| `RestartAnalysis` | `Reanalyzer`: puts the message of any row again |

### PullAnalysisAbs

What analyzing a pull request promises: an analysis begins and gets a result, or is
given up if it was seen overdue; it is shown as passed only when it has ended, or
when its result was refused; its issue is commented once as long as no reporter
outlives its lock. `PullAnalysis!RefinesPull` maps the rows' statuses to
`status`, the commit statuses to `shown` and the staler's list to `overdue`.

| in PullAnalysis | in PullAnalysisAbs |
|---|---|
| `CreateAnalysis` | `Accept` |
| `PutProcessing` | `Begin`, or a stutter if the row says so already |
| `SaveState` | `Finish`; `Refuse`, or a stutter if the row is settled, when the result is refused |
| `FindStale`, `ForceStale`, `StalerFails` | `FindOverdue`, `GiveUp`, `Skip` |
| `SetCommitStatus` | `Show`, or `Hide` for an error |
| `RefuseAnalysis`, `SetPending`, `FetchPull`, `SetTimeoutStatus` | `Hide` |
| `CreateReview`, `ReviewLockExpires` | `Comment`, `Outlive` |
| every other step | a stutter |

### WorkQueue

What the other modules assume of a queue, in detail and with a clock. Time is
counted down: `hidden[m]` until a message is visible, `left[c]` until a
consumer's context ends, `expires[l]` until a lock does, `wait[c]` while a lock
is tried. A `Tick` may not pass the end of a context whose consumer has not
finished if `InTime` says that handlers keep their contexts. A receipt is the
receive count it was given at: SQS takes only the last one. Dead letters are a
second queue with consumers of their own and the same locks.

| in the model | in the code |
|---|---|
| `TryReceive`, `Idle` | `SQS.poll`, `Queue.TryReceive` |
| `AcquireLock`, `RefuseMessage`, `RunHandler`, `Unlock` | `ReflectConsumer.ConsumeMessage`, `runHandler` |
| `AckHandled`, `AckFailed`, `Backoff`, `AckFails` | `Queue.Ack` and its caller |
| `ConsumerDies`, `MoveToDead` | a crash; the redrive policy (external) |

### JobQueue

What the handlers of the other modules may rely on, without times: a message may
be handled any number of times, also after it was handled, but only while it is
in the queue and never beside another message of its lock; it leaves the queue
only when it was handled and nobody handles it. `WorkQueue!RefinesJobQueue` maps
both queues to `queued` and the messages of handlers to `running`.

| in WorkQueue | in JobQueue |
|---|---|
| `Put` | `Put` |
| `AcquireLock`, when it gets the lock | `Start` |
| `RunHandler`; `ConsumerDies` while a handler runs | `Finish` |
| `AckHandled`, with a receipt that is still good | `Acknowledge` |
| every other step: receives, ticks, back-off, unlocks, dead letters | a stutter |

### BuildContainer

What a worker does with a container during one attempt of a repository
analysis. An attempt is told by its build token, here the analysis and the
attempt's number. `ctr[c]` has an address (a local port or a public IP), the
token its build runner takes, and the code that is checked out in it; `setups`
are requests the orchestrator works on, which outlive the worker that sent
them; `leaked` collects containers whose answer was lost, whose worker died or
whose shutdown failed.

| in the model | in the code |
|---|---|
| `SetupContainer`, `DockerRun`, `DockerRunFails`, `SetupTimesOut` | `Container.Setup`, `Orchestrator.setupContainer` |
| `RunTask`, `TaskStarts`, `PollTask` | `Fargate.Setup` and AWS |
| `SendCommand`, `SendTooLate`, `ConnectionBreaks`, `DeadlinePasses` | `Container.Run`, `Fargate.Run`, `Orchestrator.runBuildCommand`, `Runner.handleRequest`, the context of `AnalyzeRepo.Consume` |
| `Clone`, `Checkout`, `UpdateSubmodules`, `Goenvbuild`, `Lint` | `Git.Fetch`, `Go.Setup`, `GolangciLint.Run` |
| `SubmitResult`, `Status`, `Recoverable`, `Redelivered`, `Clean` | `RepoProcessor.Process`, `errorToStatus`, `transformError`, `Queue.Ack`, `Executor.Clean` |
| `ContainerEnds`, `WorkerDies` | `MAX_LIFETIME` of `cmd/buildrunner`; a crash |

Commands are told apart by what may go wrong with them. In RepoAnalysis the
whole attempt is the action `Process`.

### Login

Browsers, accounts and the requests of the auth service. A flow is one visit to
GitHub's consent page: its index is the OAuth state, and its code works once.
`sess` and `oauth` are the cookies' sessions in Redis, `users` and `auth` the
tables; a user that a transaction inserts is in `users` at once and in
`committed` when the transaction is.

| in the model | in the code |
|---|---|
| `LoginPublic`, `LoginPrivate`, `Begin` | `login`, `RedirectToProvider` |
| `CallbackPublic`, `Select`, `StoreAuth`, `Commit`, `CommitFails`, `QueryFails`, `Finalize` | `LoginPublicOAuthCallback`, `HandleProviderCallback`, `loginUser`, `getOrStoreUserInDB`, `finishTx`, `Saver.FinalizeHTTP` |
| `CallbackPrivate`, `SavePrivateToken` | `LoginPrivateOAuthCallback` |
| `StartRelogin`, `Relogin`, `StartUnlink`, `Unlink`, `Logout`, `LoginAdmin` | the functions of these names |

### OrgPolicy

One organization, one private repository of it, the answers of GitHub about
them and their cached copies. `form[u]` is the row as the user saw it last; an
update sends its version back. `Tick` ages what is cached; `age` remembers how
long ago each user really had the role or the access.

| in the model | in the code |
|---|---|
| `StartGet`, `StartUpdate`, `SaveSettings`, `AnswerGet` | `organization.BasicService.Get`, `Update` |
| `CheckCached`, `FetchMembership`, `MembershipNotFetched`, `SaveMembership`, `Decided` | `orgMembershipFetcher`, `checkIsAdmin`, `checkIsMember` |
| `StartRead`, `FetchRepo`, `SaveAccess`, `AnswerRead` | `policy.Repo.CanReadPrivateRepo`, `CanRead` |

### Proof modules

`RepoConnectProofs`, `RepoAnalysisProofs`, `SubscriptionProofs`,
`PullAnalysisProofs`, `WorkQueueProofs`, `BuildContainerProofs`, `LoginProofs`
and `OrgPolicyProofs` extend the module they are named after; see [proofs](#what-is-proved).

### MC modules, configurations

Every component has an MC module with symmetry sets and, where a constant is a
function or a set of numbers, its value. Users, requests, consumers, GUIDs,
commits, workers, accounts, browsers, plans and seats are only compared for
equality, so permutations of each are sound; symmetry is used in safety runs
only. `MCOrgPolicy` has a state constraint besides: behaviours are followed
either over the organization's settings or over the repository, which share
nothing but the clock. `MCPullAnalysis` and `MCSubscription` have one called
`FewFaults`, which bounds how many faults come together (see [bounds](#bounds)).
Some operators are marked *Mutant*: each is a plausible
bug of the operator after it, used to see that a property can fail. They are no
part of any specification.

### How the modules compose

Each module replaces what another one details by one of its outcomes.

| assumed by | shown by |
|---|---|
| RepoConnect, RepoAnalysis, PullAnalysis: a message is delivered until it is acknowledged, handlers of one lock exclude each other, a message disappears only when handled | WorkQueue: `RefinesJobQueue`, `NotLost`, `OneReceiver`, proved for all timeouts if handlers keep their contexts (`InTime`) |
| RepoConnect's `AnalysisLaunched`: one launch of one analysis | RepoAnalysis |
| RepoAnalysis' `Process`: an attempt ends with a status or is tried again | BuildContainer: `AnalysisEnds`, `ResultOfCommit` |
| RepoConnect's `UnlinkProvider`: the token is gone from then on | Login: `UnlinkedStaysUnlinked` |

Four more abstract specifications say what a component is for: RepoConnect's rows
implement connections (`RefinesAbs`), RepoAnalysis' launchers and workers owe an
analysis to who asked (`RefinesAnalysis`), Subscription's plans, events and rows
implement subscriptions (`RefinesSubscription`), PullAnalysis' webhook, workers and
crons implement analyses that are shown (`RefinesPull`). All five refinements are
checked by TLC and proved.

## What the runs check

| run | properties | shows |
|---|---|---|
| `repo_safety` | ConnectedHasHook, DisconnectedHasNoHook, DoneIsAnalyzed, SentToQueueIsQueued, CommitStateMovesForward | a private repository (subscription check, reviewer, invitation): two users race two requests and two consumers over one row: create against delete, two deletions, duplicates, crashes between any two steps, unlink, a webhook that the provider denies. About 3 870 000 states |
| `repo_live` | RefinesAbs, ConnectEnds, DisconnectEnds | a public repository of one user that is connected, ended in every possible way and connected again: a late consumer of the first row meets the second one, and what was accepted ends. About 48 000 states |
| `analysis_safety` | UnfinishedIsQueued, PendingIsAnalyzed, RefinesAnalysis, ReportMovesForward | two GUIDs for the same or different commits, two launchers, two workers: lost races of the transaction, repeated runs of both handlers, a second GUID for an analyzed commit, refused results. About 387 000 states |
| `analysis_live` | LaunchedIsFinished | one launcher and one worker, two GUIDs: a launch message ends in a finished analysis, or in a refused result. About 393 000 states |
| `sub_safety` | EventsMatchRows, EventsNotLost, VersionsGrow, RefinesSubscription | two update requests and repeated deliveries of the plan's events race over two consumers that may die after every step, with lookups that fail. About 1 530 000 states |
| `sub_live` | UpdateEnds, CancelledIsDeleted | two plans of one organization: creations refused while another row is live, cancellations that arrive first, dropped events; queued updates and cancellations end. About 121 000 states |
| `pull_safety` | LinkShowsResult, CommentedOnce, RefinesPull | two pushes, two workers, the staler and the reanalyzer, with refused results and commit statuses, lost answers and crashes. About 2 300 000 states |
| `pull_live` | AnalysisSettles | one push, locks of messages and of the repository that expire, so that both workers run it at once, and a status API that fails: its row settles. About 378 000 states |
| `queue` | OneReceiver, NotLost, MessageSettles, RefinesJobQueue | two consumers of the queue and one of the dead letters over two messages of one lock, with time. About 73 000 states |
| `build` | OwnContainer, NothingForgotten, ResultOfCommit, AnalysisEnds, ContainersEnd | two analyses, one port, one address: an address is used again while the first worker may still have it. About 420 000 states |
| `login` | SessionUserExists, LoggedInHere, RowIsOfAccount, UnlinkedStaysUnlinked, StoredWithAuth | two accounts, one of them the admin, two browsers, two requests at a time, three flows. About 2 500 000 states |
| `org` | EditsKept, ModifiedInTime, ReadInTime | two users, two requests at a time, roles that change and answers that age. About 3 700 000 states |

The type invariants and the inductive invariants are not in the
configurations: TLC has checked those that the modules define
(`TypeOK`, `QueueInv`, `AnalysisInv`, `SubInv`, `PullInv`) on the same instances
before, and TLAPS proves them for all values of the constants.

The properties, by the hazard they are for:

* **A request answered ok is never stranded.** The API puts the message, then
  moves the row to `sent_to_queue`, and from then on answers requests without
  putting it again. `SentToQueueIsQueued` says such a row has its message. It is
  true only because consumers acknowledge late (`AcksAreLate`), because rows
  are inserted before messages name them, and because `finishQueueSending`
  updates under a condition; `QueueInv` spells that out.
* **Late writers.** `CommitStateMovesForward` is an action property:
  `finishQueueSending` runs after a consumer may have finished the row, two
  deleters may handle one row, a rollback races an unlink.
* **The webhook and the row.** `ConnectedHasHook` and `DisconnectedHasNoHook`
  relate the column `provider_hook_id` to what GitHub has, over crashes between
  the call and the commit. A disconnected row may keep a webhook only if the
  provider denied it to the last deleter that asked.
* **Message before state.** `DoneIsAnalyzed` and `PendingIsAnalyzed`: a
  repository is `create/done` only once its first analysis is launched, and
  pending changes that nobody will launch do not exist.
* **Transaction before message.** `UnfinishedIsQueued`: the launcher's row is
  committed before its run message is put, so the launch message must stay
  until then; the worker saves a status before it acknowledges. The one way to
  forget an unfinished analysis is a result that the status API refused.
* **Repeated runs.** `RefinesAnalysis`: no run of worker or launcher takes a
  final status back to one that is not final, none makes a second analysis of a
  commit, and a GUID is forgotten by the queues only when its analysis is final or
  its result was refused. A repeated run may well replace `processed` by `error`:
  the code overwrites, and the property says no more.
* **The report page.** `ReportMovesForward`: the page infers from the statuses of
  the last two rows which analysis it shows. Rows finish out of order, and runs
  of older rows are repeated; a reader who has seen a complete report is never
  sent back to an older one, unless the provider does not find its repository or
  commit any more.
* **Charge before commit.** `RefinesSubscription`: the updater changes the seats
  at Paddle and then the row, and may die in between; a repetition may carry
  another number of seats. Whenever the row says that no update is under way,
  both agree (`SeatsInSync`, which the refinement contains), and Paddle charges
  other seats only while one is.
* **Duplicated and reordered events.** `EventsMatchRows`: two deliveries of one
  event run at the same time under different locks, and only the unique index on
  the event's row, in one transaction with its effect, applies it once;
  `EventsNotLost` is about the acknowledgement: only an event whose lookup failed
  is acknowledged without being handled.
* **Optimistic lock.** `VersionsGrow`: requests and updaters write the row under
  a condition on state and version; a lost update would show as a version that
  stays or falls.
* **The link shows the result.** `LinkShowsResult`: GitHub shows a commit as
  analyzed only if its row has a result or was declared stale, or if the status
  API refused its result (`unsaved`). The worker saves
  first and sets the commit status then; a second run of the same message, the
  staler and a late `processing` write the same row in between.
* **One comment per issue.** `CommentedOnce`: fetching the comments, comparing
  and creating the review are three calls, repeated after a crash or a lost
  answer and made by two pushes' analyses at once; the repository's lock is all
  that keeps them apart. It lasts 8 s, and the property says what it is worth: as
  long as no reporter has outlived it, no issue is commented twice.
* **No result taken back.** `RefinesPull`: only the staler may replace a
  result, and only of a row that was unfinished when it was read; a row that is
  shown as passed never runs again.
* **Four clocks.** `OneReceiver` and `RefinesJobQueue` depend on times alone: the
  context ends before the lock and before the message is visible, whatever the
  queue's settings, so that no two handlers run under one lock and none runs for a
  message that is gone; `NotLost` and `MessageSettles` are about receipts that are
  too old, refused delays and dead letters.
* **Whose container.** `OwnContainer`: the port of a container that ended may
  belong to another analysis' by the time a command is sent. `ResultOfCommit`
  adds the branch that moves between put and clone; `NothingForgotten` and
  `ContainersEnd` the containers that nobody knows of.
* **Who is logged in.** `LoggedInHere` (a callback's URL opened twice or in
  another browser), `SessionUserExists` and `StoredWithAuth` (the session is
  written before the transaction ends, and two first logins race),
  `UnlinkedStaysUnlinked` (a login that found the row updates it after the
  unlink), `RowIsOfAccount` (two callbacks and a relogin write one row).
* **Stale answers.** `ModifiedInTime` and `ReadInTime` bound how long access
  outlives the role, although a refetch may fail and fall back; `EditsKept` is
  about the settings' version.
* **Everything ends.** `ConnectEnds`, `DisconnectEnds`, `LaunchedIsFinished`,
  `UpdateEnds`, `CancelledIsDeleted`, `AnalysisSettles`, `MessageSettles`,
  `AnalysisEnds`, with the exceptions the code has: a user
  who unlinked has no token any more; a webhook left behind by a crashed run
  makes GitHub refuse the next one; the unique index on the commit rejects a
  second GUID; an update message that was never put is nobody's to send; a
  refused result and a dropped cancellation are not tried again.

## Bounds

Named bounds are guards of the model. `MaxRepos` rows of one repository: two
are enough for an old row's consumers to meet a new row, since the unique index
allows one live row and rows meet only through the provider's repository.
`MaxCopies` copies of one message: a message that is received again without
being acknowledged needs no second copy, `Redeliver` covers copies made after
an acknowledgement, and a second copy at the same time adds a receive that the
lock refuses; so 1. `MaxHooks` webhooks for one row: GitHub answers an equal
second webhook with 422 (`RejectsDuplicateHook = TRUE`), so 1. `repo_safety`, with
two users, requests and consumers, contains every pair of handlers that may run at
the same time for one row. `repo_live` has two rows, but one user, request and
consumer: that two racing requests or users never make two live rows, and that an
unlink by one user leaves the other's connection alone, is what theorem
`Implementation` adds for every instance. `MaxSubs` rows of an organization: one
row per plan, since a
creation is applied once; in `sub_safety` the one plan makes one row, and the
second place is what a creation applied twice would take. `MaxVersion`: an
update takes two versions, so 4 is two updates after each other, which is what a
late request or message needs to meet the next update. `MaxCopies` is 2 in
`sub_safety`, where two deliveries of one event are handled at the same time. Its
`FewFaults` does not expand a state in which an event was dropped and both
requests are under way; `SubscriptionProofs` has no such limit. `sub_live` has one
request, one number of seats and `MaxVersion = 2`, so one update: that a second
one, with other seats, meets the first is in `sub_safety` only.
Where a bound stops an action (the queue is full), the
request that waits may still fail, so no behaviour waits on a bound.

* **PullAnalysis.** `MaxPushes = 2`: what one push does to another is to comment
  the same issue, and pairs of pushes are all there is to it. `MaxCopies` is 1 in
  `pull_safety`, where `RestartAnalysis` and repeated receives give the second
  run of a message. In `pull_live` locks of messages expire, and two workers run one
  message at a time. `FewFaults` of `pull_safety` leaves out webhook calls of two
  pushes that interleave (they share nothing), the redelivery for a row that exists
  (it fails at once), what happens after a reporter has outlived its lock, and
  what happens after the push that follows a refused result. `pull_live` follows
  the second and the third of these with one push, and `PullAnalysisProofs` covers
  all of them.
* **WorkQueue.** The times are those of the primary queue in units of 15 s:
  visible again after 4, a context of 3, one unit of trying to lock, delays that
  double with every failure until SQS refuses them, three receives before the
  dead letters. Two messages of one lock make consumers wait
  for each other; a lock only meets messages of its own.
* **BuildContainer.** One port and one address for two analyses, so that each is
  used again; `SetupTries = 2` gives one repeated
  setup; `MaxContainers = 2` containers ever, `MaxCommits = 2` commits of a branch; one
  of the analyses may be tried twice, so that an attempt meets the leftovers of
  another analysis and of itself.
* **Login.** Two accounts, one of them the admin's, two browsers and two requests
  at a time: every race is between two requests about one session or one row.
  `MaxFlows = 3` is two flows that race and one more visit; `MaxUsers = 2` stored
  users.
* **OrgPolicy.** Both cache times are 1 tick, so that an answer may be fresh, at
  its limit or gone. `MaxEdits = 1` edit by each of two users.

Deadlock is not checked where the system is quiescent when every message is
acknowledged and every row final, which the bounds make permanent. `queue` and
`build` check it: time always passes, and an analysis that is over is a step of
its own (`Done`).

## Assumptions and fairness

* **Delivery.** SQS delivers a message until it is deleted; `Receive` is
  enabled while the message is in `queue`, and `SF` on receiving it says that
  its visibility timeout ends again and again and that, again and again, its
  lock is free. The dead letter queue is consumed by the same handlers; a
  message is never dropped by the model, while in the code dead letters end
  after the retention time.
* **Handlers end.** `WF` on *the next step or a failure*: every handler runs
  under a context with a timeout. Success is not assumed.
* **Failures stop.** `<>[](no TransientFailure)`: from some point on, a handler
  that could go on is not interrupted. A handler that cannot go on (a row
  gone, a token gone, a refused webhook) still fails for ever. Requests have no
  fairness at all: a client may go away.
* **Events arrive** (Subscription). `WF` on the first delivery of an event that
  Paddle emitted: Paddle repeats an alert until it is answered. `SF` on receiving
  an event; for updates `SF` on receiving *some* update of a row, since all of
  them share one lock and a message whose update is over is refused for ever.
* **Redeliveries stop** (RepoAnalysis): repeated launches of a GUID that is
  done touch the status row, which costs another launcher its transaction.
* **Locks.** The lock does not expire while its handler runs. A handler's
  context begins before the lock is taken and ends no later than the lock
  expires (both last `c.timeout`: 45 s in the primary queue, 530 s in the
  worker, where the poll's context ends after 480 s), and before the message
  is visible again (60 s, 600 s). Calls that ignore their context could outlive
  both. The lock is released just before the acknowledgement; the models
  release both together, which leaves out no change of a row because a copy
  received in between finds its row handled (`AcksAreLate`). WorkQueue shows that
  the lock then excludes other handlers: `InTime` is its assumption that calls
  obey their context, and without it only `NotLost` is claimed. `LocksLast` is
  the same assumption in PullAnalysis, for the locks of messages, and `pull_live`
  does without it. It is not made for the lock of the repository, which is shorter
  than what runs under it: `ReviewLockExpires` is always possible.
* **`RejectsDuplicateHook`** (RepoConnect): GitHub answers an equal second webhook
  with 422. `DisconnectedHasNoHook` and `RefinesAbs` rest on it: the creator's
  search for a webhook that an interrupted run has installed never finds it, so
  a provider that took the second one would keep the first for ever.
* **No other calls are assumed to succeed.** Where the code gives something up
  after a failure, the model does so too and a history variable, which no guard
  reads, remembers it: `denied` (RepoConnect), `unsaved` (RepoAnalysis,
  PullAnalysis), `dropped` (Subscription), `outlived` (PullAnalysis). The
  properties except exactly these cases. The variables take a row, analysis or
  event back when a later run makes good what was given up, but for `outlived`:
  two comments stay two.
* **The staler comes round** (PullAnalysis). `SF` on reading a stale row and on
  overwriting it: the cron runs for ever, and neither GitHub nor the database
  refuses one row for ever. Organizations in `STALER_EXCLUDE_REPOS` have no such
  promise. Workers may fail every time.
* **Time passes** (WorkQueue). `WF` on the tick, on a consumer's next step and on
  the move to the dead letters, `SF` on receiving a visible message.
* **Contexts end** (BuildContainer). `WF` on a worker's next step, on the end of
  its context and on the end of every build runner at `MAX_LIFETIME`; a command
  itself may hang, and a worker may die at any time.

## What is proved

`RepoConnectProofs` proves, for any sets of users, requests and consumers and
any bounds (assumption `RepoConnectAssumption`):

| theorem | statement |
|---|---|
| `TypeCorrect` | `Spec => [](TypeOK /\ JobsHoldMessages)` |
| `QueueInvariant` | `Spec => [](TypeOK /\ QueueInv)` |
| `NoStrandedRow` | `Spec => []SentToQueueIsQueued` |
| `ForwardOnly` | `Spec => CommitStateMovesForward` |
| `RowInvariant` | `Spec => []IInv` |
| `ConnectedIsHooked` | `Spec => []ConnectedHasHook` |
| `ConnectedIsAnalyzed` | `Spec => []DoneIsAnalyzed` |
| `DisconnectedIsClean` | `RejectsDuplicateHook` implies `Spec => []DisconnectedHasNoHook` |
| `Implementation` | `RejectsDuplicateHook` implies `Spec => RefinesAbs` |

`SentToQueueIsQueued` is not inductive. Its strengthening `QueueInv` has six
parts, each of which closes one way to break it:

1. `JobsHoldMessages`: a handler is alone with its message and the message is
   in the queue. Needed already for types: an acknowledgement without it could
   take the number of copies below zero.
2. `JobKindsMatch`: a handler at a creator's step holds a create message;
   otherwise the row it writes and the message it will acknowledge are
   unrelated.
3. `NamedRowsAreInserted`: messages and requests name inserted rows; otherwise
   a row inserted later would meet an old message.
4. `SentRequestsAreQueued`: between putting the message and
   `finishQueueSending` the row is still in `init` only if the message is still
   there. This is what makes the late update safe.
5. `AcksAreLate`: at the acknowledgement the row needs the message no more; and
   no later step makes it need it again (lemma `HandledStable`).
6. `SentToQueueIsQueued` itself.

The argument: only `AckMessage` lowers the number of copies (lemma
`QueueKept`), and it does so for a handled row; a row reaches a state that needs
a message either by a consumer that holds it or by `finishQueueSending`, which
part 4 covers. `ForwardOnly` follows from the guards of the steps that write
`commit_state` (lemma `RowsMoveForward`) and part 3.

`IInv` relates handlers, rows and the provider. Besides `TypeOK` and `QueueInv`:

1. `HandlersKnowRows`: while a handler runs, the commit state of its row stays
   where the handler's steps have left it. A creator is alone with its row's
   create message (lemma `CreatorsAreAlone`); two deleters may share a row, but a
   deletion that has begun is never left. An unlink changes no commit state: the
   handler does not notice it.
2. `HooksAreKnown`: the webhook a handler carries from the call to the commit, and
   the one that the row of a connection names, exist at the provider.
3. `OneHook`, if `RejectsDuplicateHook`: a row has one webhook at most, which in a
   deletion is the one the row names, and none once a deleter has gone on from its
   removal, unless the provider denied it (`HookIsGone`).
   Without the assumption a run after a crash installs a second one, of which only
   one is ever removed.
4. `AnalysesAreLaunched`: a creator has made the analysis status before it
   launches and has launched before it calls the row done. A status that is empty
   and needs no launch stays so.
5. `OneLive`: one row is live, which is neither rolled back nor deleted. It is what
   the unique index is for, and needs that the commit state and `deleted_at` of a
   finished row are written together.

The step of each action maps to one action of RepoConnectAbs or to a stutter
(lemma `StepRefines`): `InsertRepo` to `Connect` (`OneLive` says no other is
active), `CommitDone` to `Establish` (`HooksAreKnown` says its webhook is there),
`RollbackRepo` to `Fail`, `StartDelete` to `Disconnect`, `CommitDeleted` to
`FinishDisconnect` (`OneHook` says no webhook is left, or one that was denied),
`CreateHook` to `InstallHook`, `DeleteHook` to `RemoveHook` or `DenyHook`,
`UnlinkProvider` to `Drop`.

`RepoAnalysisProofs` proves, under `RepoAnalysisAssumption`:

| theorem | statement |
|---|---|
| `TypeCorrect` | `Spec => [](TypeOK /\ LaunchersHoldMessages /\ WorkersHoldMessages)` |
| `AnalysisInvariant` | `Spec => [](TypeOK /\ AnalysisInv)` |
| `NoLostAnalysis` | `Spec => []UnfinishedIsQueued` |
| `PendingAnalyzed` | `Spec => []PendingIsAnalyzed` |
| `FinalIsFinal` | `Spec => FinalStaysFinal` |
| `Implementation` | `Spec => RefinesAnalysis` |
| `ReportOnlyForward` | `Spec => ReportMovesForward`: a step adds one row at most, which is not complete, and what was complete stays so until it is not found |

The parts of `AnalysisInv`: handlers hold their messages alone
(`LaunchersHoldMessages`, `WorkersHoldMessages`: two locks, the commit and the
GUID); a GUID has one row with its commit (`RowsMatchGuids`) and has it before
its run message exists (`RunsHaveRows`), so that a worker never meets a row
made behind its back; the status a worker read before it writes `processing` is
still the row's (`ProcessingIsNext`), which gives `FinalIsFinal`; and a message is
acknowledged only when what it was for is done: the worker's after the final
status (`ResultIsDurable`), the launcher's while the run message is there or was
handled (`LaunchedIsQueued`), both but for a GUID whose result was refused. A
refusal can only concern a row that exists and is not final, and it is remembered
until a status is saved (lemmas `UnsavedMoves`, `StaysUnsaved`). The two parts are
what `UnfinishedIsQueued` needs to survive the two acknowledgements.
`Implementation` uses all of them: an acknowledgement that leaves a GUID in neither
queue is a `Settle` by `LaunchedIsQueued` or `ResultIsDurable`, and `RowsMatchGuids`
makes the row of a GUID its status.
`PendingIsLaunched` follows pending changes from the creator over the launch
message to the row.

`SubscriptionProofs` proves, under `SubscriptionAssumption` (in particular a
finite set of consumers):

| theorem | statement |
|---|---|
| `SubscriptionInvariant` | `Spec => [](TypeOK /\ SubInv)` |
| `TypeCorrect` | `Spec => []TypeOK` |
| `EventsOnce` | `Spec => []EventsMatchRows` |
| `NoEventLost` | `Spec => []EventsNotLost` |
| `SeatsCharged` | `Spec => []SeatsInSync` |
| `VersionsOnlyGrow` | `Spec => VersionsGrow` |
| `Implementation` | `Spec => RefinesSubscription` |

The parts of `SubInv`, each closing a way to break the others:

1. `EventsAreEmitted`: an event that is handled happened at the provider. A
   creation copies the plan's seats into the row; before the plan exists there
   are none to copy, and `SeatsInSync` would fail.
2. `EventsMatchRows`: needed by itself and for `SeatsInSync`, since two rows of
   one plan could not both have its seats.
3. `MessagesAreHeld`: there are never more handlers of a message than copies, so
   an acknowledgement takes a copy that is there. Events have no common lock, so
   the count of handlers (`Cardinality(Holders(m))`) takes the place of the
   "alone with its message" of the other modules.
4. `UpdatesAreExclusive`: one handler per subscription, whose row waits for an
   update, and after the call the provider has the handler's seats. This is what
   makes the commit agree with the charge.
5. `VersionsLeaveRoom`: typing of the bounded version.
6. `SeatsInSync`, `HandledIsSeen` (an event at its acknowledgement was applied, or
   dropped by a failed lookup) and with it `EventsNotLost`.

The refinement needs no more than this invariant. Its key lemma is `RowOfPlan`: a
plan has one row at most, so that its phase is that row's. A grant finds no other
live subscription because creation is refused while there is one; `FinishUpdate`
takes the seats the provider charges by part 4, although the row's new seats come
from the message and not from the provider; an end finds its plan cancelled by
part 1.

`PullAnalysisProofs`, for any number of pushes, workers and copies:

| theorem | statement |
|---|---|
| `TypeCorrect`, `PullInvariant` | `Spec => [](TypeOK /\ PullInv)` |
| `LinkIsTrue` | `LocksLast` implies `Spec => []LinkShowsResult` |
| `OneComment` | `Spec => []CommentedOnce` |
| `ResultsStay` | `LocksLast` implies `Spec => ResultStays` |
| `Implementation` | `LocksLast` implies `Spec => RefinesPull` |

`EveryRunHasRow` orders row and message; `AloneWithRun` is the lock of the run.
With it, the status a worker has read before it writes *processing* can only
have been changed by the staler, which writes no result (`NoResultYet`), and the
commit status still shows none (`NotShownYet`); the result is in the table, or was
refused, before the commit status is set (`StateIsSaved`). `AloneWithReview` says
the same of the comments: unless a lock was outlived, the reporter that creates
the review holds the lock and what it read is still so. That part, and
`OneComment` with it, needs no assumption on locks of messages.
`Implementation` needs no more: an analysis begins only if it is not shown as passed
(`NotShownYet`), and is shown only after it was saved (`StateIsSaved`).

`WorkQueueProofs`, for any times, messages, locks and consumers
(`WorkQueueAssumption` asks only that a lock is tried for less than a context
lasts):

| theorem | statement |
|---|---|
| `QueueInvariant` | `Spec => [](TypeOK /\ QueueInv)` |
| `NeverLost` | `Spec => []NotLost`, with or without `InTime` |
| `OneAtATime`, `LocksWork` | `InTime` implies `Spec => []OneReceiver`, `Spec => []LockedAlone` |
| `QueueServes` | `InTime` implies `Spec => RefinesJobQueue` |

The invariant compares clocks: while a consumer works, its message is hidden for
longer than its context has left (`HiddenWhileBusy`), and its lock lasts at least
as long (`LockOutlastsHandler`). A tick lowers all of them together; that is why
the differences matter and not the values. `QueueServes` needs two parts more: only
messages that were put are in a queue or handled (`MessagesArePut`), and the
message of a consumer is in its queue until it has acknowledged it
(`BusyIsQueued`): it was hidden all the time, so no other consumer could
acknowledge it and the redrive policy could not move it.

`LoginProofs`, for any accounts, browsers and requests:

| theorem | statement |
|---|---|
| `LoginInvariant`, `TypeCorrect` | `Spec => []IInv`, where `IInv` contains `TypeOK` |
| `SessionsAreOfUsers`, `LoginsAreLocal`, `RowsAreOfAccounts` | `SessionUserExists`, `LoggedInHere`, `RowIsOfAccount` always hold |
| `NoRelink`, `UsersComeWithRows` | the action properties `UnlinkedStaysUnlinked`, `StoredWithAuth` |

`LoginInv` follows an account through a callback: the OAuth session names a flow
of its browser and kind (`OauthInv`); once the callback is accepted the flow has
an account (`CallbackInv`); the user found or inserted is that account's
(`UserInv`), and is what the session will be written with (`FinalInv`). `NewInv`
is the part that is easy to miss: of two first logins of one account only one
can be between its insertion of the row and its commit, because the other one
waits for the unique index, and the account has no other row meanwhile. It is
what makes `StoredWithAuth` and `RowIsOfAccount` inductive.

`OrgPolicyProofs`, for any users, requests and cache times:

| theorem | statement |
|---|---|
| `PolicyInvariant`, `TypeCorrect` | `Spec => []IInv`, where `IInv` contains `TypeOK` |
| `NoLostEdit`, `VersionsName` | `EditsKept`; two copies of the settings with one version are equal (`VersionNamesSettings`) |
| `ModifiersAreRecent`, `ReadersAreRecent` | `ModifiedInTime`, `ReadInTime` |
| `GithubRefuses` | nobody is refused by cached data alone (`RefusedByGithub`) |

`CacheInv` says that what is cached was true as long ago as it is old at most;
`Entitled` what a request knows of its user at each step; `Versioned` that the
row a request holds is the stored one or has an older version, which is all an
update under a condition on the version can be trusted with.

`BuildContainerProofs`, for any analyses, attempts, addresses and containers:

| theorem | statement |
|---|---|
| `BuildInvariant`, `TypeCorrect` | `Spec => []IInv`, where `IInv` contains `TypeOK` |
| `CommandsAreOwn`, `NoContainerForgotten`, `ResultsAreOfCommits` | `OwnContainer`, `NothingForgotten`, `ResultOfCommit` always hold |

The invariant is about what becomes of a build token. No setup and no container
has the token of an attempt that has not asked for one (`UsedInv`); of a token
there is one setup, then one container, never both and never two (`OneInv`);
so the container of an attempt that runs commands is the only one with its
token, or gone (`HeldInv`). A runner takes a command only with its own token:
whatever got the address meanwhile refuses it. `CodeInv` adds that the code in
it is the commit's from the checkout on, and `LintedInv` carries that to the
result.

Only model-checked: the liveness properties, since fairness and `ENABLED` are out
of the prover's reach. Every safety property and every refinement that a run
checks is a theorem.

## Where code and comments disagree

What the models had to follow the code in, against a comment, a test or the
evident intent. Properties are stated so that they say what does hold.

Connection and subscription:

* The creator's search for a webhook installed by an earlier run (creator.go:96)
  compares the callback URL with the webhook object's API URL (github.go:173) and
  never finds it. The run after a crash between `CreateRepoHook` and the update
  of the row is refused by GitHub until the message is dead.
* `rollbackRepo` (creator.go:305) undoes the row and not the webhook: a creation
  that fails for good after `CreateRepoHook` (no free seat for the reviewer)
  leaves the webhook at GitHub.
* The deleter takes *not found* for a webhook that was *already deleted by previous
  run or manually by user* (deleter.go:104). github.go:74 makes that error of every
  404, which GitHub also answers to a token that has lost its access; Delete sends
  the message of a row in `delete/init` again without asking whether the user is
  still an admin (service.go:320). The row ends as `delete/done` with its webhook
  installed (`denied` in the model).
* Two users disconnect a repository at the same time, a third request connects it
  again: the second deletion, only warned that its row is deleted, removes the
  reviewer from the new connection (deleter.go:112).
* `finishQueueSending` of subscriptions compares the state and not the version
  (subscription/service.go:171, 240). A request that stalls until its update is
  done and the next one accepted moves that one's row to `sent_to_queue`. If the
  next request dies before its message is put, every later request is answered
  ok and sends nothing.
* An error of the event's lookup other than *not found* is taken for an event
  that was already processed (event_processor.go:157); the event is acknowledged
  and lost.
* An update message does not carry the version of its request. Put twice, it may
  outlive its update and be applied to the next one (updater.go:87): row and
  provider then agree on the older number of seats. `SeatsInSync` holds.

Analyses:

* A final status the API did not accept is only logged, and the message is
  acknowledged, where the comment says *must be durable* (repo_processor.go:233).
  The worker of pull requests does the same (basic_pull_processor.go:129) and goes
  on to set the commit status, whose link then shows no result (`unsaved`).
* The lock under which a review is compared and created lasts 8 s
  (basic_pull_processor.go:197, no expiry option), while the fetch of the comments
  under it is tried again for up to two minutes: two reporters may both find no
  comment and post one, against *don't be annoying: don't comment on the same line
  twice* (`outlived` in the model).
* The launcher's repeated run sets `has_pending_changes` although the analysis
  of its GUID exists (launcher.go:140), and nothing clears it: the report page
  says *planned* until the next push. The page also shows a complete report only
  among the last two rows: two unfinished ones hide it.
* The status `not_found` is final for the worker (errors.go:101) and not complete
  for the report page (services/repoanalysis/service.go:64), which goes on
  showing it as running.
* A run of a pull request that is repeated, by a redelivery or the reanalyzer,
  and then drops out (no access, marked WIP) has set the commit status to pending
  again, while its row is final and of no interest to the staler.
* The staler sets its error on the current head of the pull request, which may
  not be the commit of the analysis. `restartAnalysis` of the reanalyzer leaves
  out whether the repository is private.
* Only the first hundred comments of a pull request are compared with.
* A fetch of submodules or a golangci-lint run whose executor fails returns a nil
  result that is dereferenced (git.go:85, golangci_lint.go:55): the panic becomes
  a permanent error, although repo_processor.go:91 calls such errors temporary and
  not to be shown to the user.

Queues:

* A message refused because its lock is taken counts as received: with enough
  contention a job becomes a dead letter without having run. From the twelfth
  failure on the back-off is longer than SQS allows and is refused; a message
  that cannot be parsed is retried until it is dead.
* `Lock()` does not obey the context. In lambda mode a message has no receipt
  handle, and the consumer dereferences it (consumer.go:126).

Containers:

* After its deadline `Container.Run` returns an error of no kind while
  `Fargate.Run` returns a timeout, so that only one of them is retried.
* The orchestrator's handler is not tied to the worker's request: a container
  whose setup the worker has given up runs until `MAX_LIFETIME`. `Clean` after a
  failed setup shuts down the container with the empty name.
* The build runner dereferences the answer of a copy request that failed
  (runner.go:101); `ListenAndServe` returns at once on shutdown, so that a command
  under way dies with it.
* `preparer.go:190` says that golangci-lint is set up after the preparation; it is
  set up before *prepare repo* (line 204).

Login and policy:

* The private callback does not look at which account consented: a user may
  attach another account's private token (`RowIsOfAccount` is about the public
  token).
* The session is written after the transaction also if its commit failed: it
  then names a user that was never stored (`lost` in the model).
* A callback that ends deletes the OAuth session, also that of a flow the browser
  has begun meanwhile. A missing session at `Authorize` is an internal error and
  not *unauthorized*.
* `StableProvider.retryVoid` never retries (stable.go:53).
* An access to a private repository is cached for a year; a membership that
  GitHub says does not exist any more is answered from the cache if that says
  member.

## What is not modelled

* **Generated code.** The models of `pkg/api/models/autogenerated_*` (query
  builders, about 8 000 lines) and the endpoints of the services (about 2 800
  lines) are written by generators from declarations. They have no decisions of
  their own; what the handlers rely on (conditions of an update, unique indexes,
  soft deletion) is part of the actions. They are over a third of the
  implementation, so that the map cannot cover most of its lines.
* **HTTP plumbing, configuration, logging, error tracking, analytics, cloud
  clients**: decoding, encoding and forwarding without state.
* **Code score, linters' parsing of results, `ensuredeps`, workspaces' paths**:
  pure functions of one pass, or commands in a container whose outcome is a
  choice of the model.
* **Reads**: lists of repositories and organizations, the report pages but
  for the analysis that a repository's page shows, `CheckAuth`, subscriptions' `Get`, the check that a personal
  organization is the user's, the check for an active subscription.
* **The repository info updater**: one goroutine that copies names of renamed
  repositories. Renames, and moving a repository between owners, are left out of
  all modules.
* **The lambda entry point** of the consumers and the local temporary shell,
  which do not run where the queue and the containers are used.
* **Panics in a transaction**, which `gormdb/tx.go` rolls back and swallows: the
  handler goes on as if nothing had been wrong. Handlers are modelled without
  panics, but for the two in BuildContainer that its results depend on.
* **Securionpay** and the consumers `subs/create` and `subs/delete`: no code
  reaches them.

GitHub, SQS, Redis, Postgres, Docker and AWS are modelled as far as the code
depends on them.

## Plan

Done: the connection of repositories, analyses of repositories and of pull
requests, subscriptions and payment events, the queues, containers, logins and
the policy of organizations; proofs of all their safety properties; and abstract
specifications of connections, subscriptions, both kinds of analyses and the
queue, with proofs that they are implemented. What is left, in this order:

1. An abstract specification of a login, refined by Login: which account a browser's
   session is of.
2. The next status that the report pages announce, and the code score,
   as operators against reference definitions.
3. Retries of the stable providers over calls that are not idempotent.
