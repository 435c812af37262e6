------------------------- MODULE RepoConnectProofs -------------------------
(***************************************************************************)
(* Proofs about RepoConnect, for all values of its constants.              *)
(***************************************************************************)
EXTENDS RepoConnect, TLAPS

(***************************************************************************)
(* Type correctness                                                        *)
(***************************************************************************)

LEMMA InitTypeOK == Init => TypeOK
<1> SUFFICES ASSUME Init PROVE TypeOK
  OBVIOUS
<1> USE RepoConnectAssumption DEF Init
<1>1. NoRequest \in [pc : RequestPCs, user : Users \cup {NoUser},
                     repo : 0..MaxRepos]
  BY DEF NoRequest, RequestPCs
<1>2. NoJob \in [pc : JobPCs, msg : Messages, hook : 0..MaxHooks]
  <2>1. 1 \in Rows
    BY DEF Rows
  <2>2. CreateMsg(1) \in Messages
    BY <2>1 DEF Messages
  <2>3. QED
    BY <2>2 DEF NoJob, JobPCs
<1>3. req \in [Requests -> [pc : RequestPCs, user : Users \cup {NoUser},
                            repo : 0..MaxRepos]]
  BY <1>1
<1>4. job \in [Consumers -> [pc : JobPCs, msg : Messages, hook : 0..MaxHooks]]
  BY <1>2
<1>5. /\ queue \in [Messages -> 0..MaxCopies]
      /\ hooks \in [Rows -> SUBSET (1..MaxHooks)]
      /\ providerHookID \in [Rows -> 0..MaxHooks]
  OBVIOUS
<1>6. /\ commitState \in [Rows -> CommitStates \cup {"none"}]
      /\ deleted \in [Rows -> BOOLEAN]
      /\ repoUser \in [Rows -> Users \cup {NoUser}]
      /\ analysisStatus \in [Rows -> {"none", "pending", "launched", "empty"}]
  OBVIOUS
<1>7. QED
  BY <1>3, <1>4, <1>5, <1>6 DEF TypeOK

LEMMA PutTypeOK ==
  ASSUME queue \in [Messages -> 0..MaxCopies], NEW m, Put(m)
  PROVE  queue' \in [Messages -> 0..MaxCopies]
<1>1. CASE m \in Messages
  BY <1>1, RepoConnectAssumption DEF Put
<1>2. CASE m \notin Messages
  BY <1>2 DEF Put
<1>3. QED
  BY <1>1, <1>2

\* What a request does keeps the types.
LEMMA RequestTypeOK ==
  ASSUME TypeOK, NEW q \in Requests, RequestStep(q)
  PROVE  TypeOK'
<1> USE RepoConnectAssumption DEF TypeOK, rowVars, analysisVars, providerVars
<1> DEFINE Req == [pc : RequestPCs, user : Users \cup {NoUser},
                   repo : 0..MaxRepos]
<1>1. /\ NoRequest \in Req
      /\ req[q] \in Req
      /\ Rows \subseteq 0..MaxRepos
  BY DEF NoRequest, RequestPCs, Rows
<1>2. ASSUME NEW u \in Users, CreateRequest(q, u)
      PROVE  TypeOK'
  <2>1. PICK pc \in RequestPCs, r \in 0..MaxRepos :
          req' = [req EXCEPT ![q] = [pc |-> pc, user |-> u, repo |-> r]]
    BY <1>1, <1>2 DEF CreateRequest, RequestPCs
  <2>2. req' \in [Requests -> Req]
    BY <2>1
  <2>3. QED
    BY <1>2, <2>2 DEF CreateRequest
<1>3. ASSUME NEW u \in Users, DeleteRequest(q, u)
      PROVE  TypeOK'
  <2>1. PICK pc \in RequestPCs, r \in 0..MaxRepos :
          req' = [req EXCEPT ![q] = [pc |-> pc, user |-> u, repo |-> r]]
    BY <1>1, <1>3 DEF DeleteRequest, RequestPCs
  <2>2. req' \in [Requests -> Req]
    BY <2>1
  <2>3. QED
    BY <1>3, <2>2 DEF DeleteRequest
<1>4. CASE CheckSubscription(q)
  <2>1. req' \in [Requests -> Req]
    BY <1>1, <1>4 DEF CheckSubscription, RequestPCs
  <2>2. orgExists' \in BOOLEAN
    BY <1>4 DEF CheckSubscription
  <2>3. QED
    BY <1>4, <2>1, <2>2 DEF CheckSubscription
<1>5. CASE InsertRepo(q)
  <2>1. PICK r \in Rows :
          req' \in {[req EXCEPT ![q].pc = "put_create", ![q].repo = r],
                    [req EXCEPT ![q] = [@ EXCEPT !.pc = "put_create",
                                                 !.repo = r]],
                    [req EXCEPT ![q] = NoRequest]}
    BY <1>5 DEF InsertRepo
  <2>2. "put_create" \in RequestPCs /\ r \in 0..MaxRepos
    BY <1>1 DEF RequestPCs
  <2>3. req' \in [Requests -> Req]
    <3> HIDE DEF TypeOK
    <3>0. req \in [Requests -> Req]
      BY DEF TypeOK
    <3>1. CASE req' = [req EXCEPT ![q].pc = "put_create", ![q].repo = r]
      BY <1>1, <2>2, <3>0, <3>1
    <3>2. CASE req' = [req EXCEPT ![q] = [@ EXCEPT !.pc = "put_create",
                                                   !.repo = r]]
      BY <1>1, <2>2, <3>0, <3>2
    <3>3. CASE req' = [req EXCEPT ![q] = NoRequest]
      BY <1>1, <3>0, <3>3
    <3>4. QED
      BY <2>1, <3>1, <3>2, <3>3
  <2>4. /\ commitState' \in [Rows -> CommitStates \cup {"none"}]
        /\ repoUser' \in [Rows -> Users \cup {NoUser}]
    BY <1>1, <1>5 DEF InsertRepo, CommitStates, CreateStates
  <2>5. QED
    BY <1>5, <2>3, <2>4 DEF InsertRepo
<1>6. CASE SendToCreateQueue(q)
  <2>1. req' \in [Requests -> Req]
    BY <1>1, <1>6 DEF SendToCreateQueue, RequestPCs
  <2>2. queue' \in [Messages -> 0..MaxCopies]
    BY <1>6, PutTypeOK DEF SendToCreateQueue
  <2>3. QED
    BY <1>6, <2>1, <2>2 DEF SendToCreateQueue
<1>7. CASE SendToDeleteQueue(q)
  <2>1. req' \in [Requests -> Req]
    BY <1>1, <1>7 DEF SendToDeleteQueue, RequestPCs
  <2>2. queue' \in [Messages -> 0..MaxCopies]
    BY <1>7, PutTypeOK DEF SendToDeleteQueue
  <2>3. QED
    BY <1>7, <2>1, <2>2 DEF SendToDeleteQueue
<1>8. ASSUME NEW pc, NEW exp, NEW set \in CommitStates,
             FinishQueueSending(q, pc, exp, set)
      PROVE  TypeOK'
  <2>1. commitState' \in [Rows -> CommitStates \cup {"none"}]
    BY <1>8 DEF FinishQueueSending
  <2>2. req' \in [Requests -> Req]
    BY <1>1, <1>8 DEF FinishQueueSending
  <2>3. QED
    BY <1>8, <2>1, <2>2 DEF FinishQueueSending
<1>9. CASE FinishCreate(q) \/ FinishDelete(q)
  BY <1>8, <1>9 DEF FinishCreate, FinishDelete, CommitStates, CreateStates,
     DeleteStates
<1>10. CASE StartDelete(q)
  BY <1>1, <1>10 DEF StartDelete, RequestPCs, CommitStates, DeleteStates
<1>11. CASE RequestFails(q)
  BY <1>1, <1>11 DEF RequestFails
<1>12. QED
  BY <1>2, <1>3, <1>4, <1>5, <1>6, <1>7, <1>8, <1>9, <1>10, <1>11
  DEF RequestStep

\* What a consumer does keeps the types.
LEMMA ConsumerTypeOK ==
  ASSUME TypeOK, JobsHoldMessages, NEW c \in Consumers, ConsumerStep(c)
  PROVE  TypeOK'
<1> USE RepoConnectAssumption DEF TypeOK, rowVars, analysisVars, providerVars
<1> DEFINE Job == [pc : JobPCs, msg : Messages, hook : 0..MaxHooks]
<1>1. /\ NoJob \in Job
      /\ job[c] \in Job
      /\ \A r \in Rows : CreateMsg(r) \in Messages
      /\ \A r \in Rows, u \in Users : DeleteMsg(r, u) \in Messages
      /\ 1..MaxHooks \subseteq 0..MaxHooks
  <2>1. 1 \in Rows
    BY DEF Rows
  <2>2. /\ \A r \in Rows : CreateMsg(r) \in Messages
        /\ \A r \in Rows, u \in Users : DeleteMsg(r, u) \in Messages
    BY DEF Messages
  <2>3. NoJob \in Job
    BY <2>1, <2>2 DEF NoJob, JobPCs
  <2>4. QED
    BY <2>2, <2>3
<1>2. JobRow(c) \in Rows
  BY DEF JobRow, Messages, CreateMsg, DeleteMsg
<1>3. ASSUME NEW r \in Rows, ReceiveCreate(c, r)
      PROVE  TypeOK'
  <2>1. ASSUME NEW s \in DOMAIN FirstCreateStep
        PROVE  FirstCreateStep[s] \in JobPCs
    BY DEF FirstCreateStep, CreateNotStarted, JobPCs
  <2>2. PICK pc \in JobPCs : StartJob(c, CreateMsg(r), pc, 0)
    BY <1>3, <2>1 DEF ReceiveCreate, JobPCs
  <2>3. job' \in [Consumers -> Job]
    BY <1>1, <2>2 DEF StartJob
  <2>4. QED
    BY <1>3, <2>3 DEF ReceiveCreate
<1>4. ASSUME NEW r \in Rows, NEW u \in Users, ReceiveDelete(c, r, u)
      PROVE  TypeOK'
  BY <1>1, <1>4 DEF ReceiveDelete, StartJob, JobPCs
<1>5. ASSUME NEW pc \in JobPCs, Goto(c, pc)
      PROVE  job' \in [Consumers -> Job]
  BY <1>1, <1>5 DEF Goto
<1>6. CASE CreateHook(c)
  <2>1. /\ InstalledHooks(JobRow(c)) \subseteq 1..MaxHooks
        /\ NewHooks(JobRow(c)) \subseteq 1..MaxHooks
    <3>1. \A h \in ListRepoHooks : h.id \in 1..MaxHooks
      BY DEF ListRepoHooks
    <3>2. QED
      BY <3>1 DEF InstalledHooks, NewHooks
  <2>2. AfterHook \in JobPCs
    BY DEF AfterHook, JobPCs
  <2>3. PICK h \in 1..MaxHooks :
          /\ job' = [job EXCEPT ![c].pc = AfterHook, ![c].hook = h]
          /\ hooks' = [hooks EXCEPT ![JobRow(c)] = @ \cup {h}]
    BY <1>6, <2>1 DEF CreateHook
  <2>4. job' \in [Consumers -> Job]
    BY <1>1, <2>2, <2>3
  <2>5. hooks' \in [Rows -> SUBSET (1..MaxHooks)]
    BY <1>2, <2>3
  <2>6. QED
    BY <1>6, <2>4, <2>5 DEF CreateHook
<1>7. CASE AddCollaborator(c)
  BY <1>5, <1>7 DEF AddCollaborator, JobPCs
<1>8. CASE PutInvite(c)
  BY <1>5, <1>8 DEF PutInvite, JobPCs
<1>9. CASE CommitCreated(c)
  <2>1. job[c].hook \in 0..MaxHooks
    BY <1>1
  <2>2. QED
    BY <1>2, <1>5, <1>9, <2>1
    DEF CommitCreated, JobPCs, CommitStates, CreateStates
<1>10. CASE MarkRepoForRollback(c)
  BY <1>5, <1>10 DEF MarkRepoForRollback, JobPCs, CommitStates, CreateStates
<1>11. CASE RollbackRepo(c)
  BY <1>5, <1>11 DEF RollbackRepo, JobPCs, CommitStates, CreateStates
<1>12. CASE CreateRepoAnalysisStatus(c)
  <2>1. job' \in [Consumers -> Job]
    BY <1>5, <1>12 DEF CreateRepoAnalysisStatus, JobPCs
  <2>2. analysisStatus' \in [Rows -> {"none", "pending", "launched", "empty"}]
    BY <1>2, <1>12 DEF CreateRepoAnalysisStatus
  <2>3. QED
    BY <1>12, <2>1, <2>2 DEF CreateRepoAnalysisStatus
<1>13. CASE PutLaunch(c)
  BY <1>2, <1>5, <1>13 DEF PutLaunch, JobPCs
<1>14. CASE CommitDone(c)
  BY <1>5, <1>14 DEF CommitDone, JobPCs, CommitStates, CreateStates
<1>15. CASE DeleteHook(c)
  <2>1. PICK r \in Rows : r = JobRow(c)
    BY <1>2
  <2>2. job' \in [Consumers -> Job]
    BY <1>5, <1>15 DEF DeleteHook, JobPCs
  <2>3. hooks' \in [Rows -> SUBSET (1..MaxHooks)] /\ denied' \subseteq Rows
    BY <1>15, <2>1 DEF DeleteHook
  <2>4. QED
    BY <1>15, <2>2, <2>3 DEF DeleteHook
<1>16. CASE RemoveCollaborator(c)
  BY <1>5, <1>16 DEF RemoveCollaborator, JobPCs
<1>17. CASE CommitDeleted(c)
  BY <1>5, <1>17 DEF CommitDeleted, JobPCs, CommitStates, DeleteStates
<1>18. CASE PermanentError(c)
  BY <1>5, <1>18 DEF PermanentError, JobPCs
<1>19. CASE JobFails(c)
  BY <1>1, <1>19 DEF JobFails
<1>20. CASE AckMessage(c)
  <2>1. /\ job[c].msg \in Messages
        /\ queue[job[c].msg] > 0
    BY <1>1, <1>20 DEF AckMessage, JobAt, JobsHoldMessages
  <2>2. queue' \in [Messages -> 0..MaxCopies]
    BY <1>20, <2>1 DEF AckMessage
  <2>3. QED
    BY <1>1, <1>20, <2>2 DEF AckMessage
<1>21. QED
  BY <1>3, <1>4, <1>6, <1>7, <1>8, <1>9, <1>10, <1>11, <1>12, <1>13, <1>14,
     <1>15, <1>16, <1>17, <1>18, <1>19, <1>20 DEF ConsumerStep, JobProgress

\* A handler is alone with its message, and the message stays in the queue.
LEMMA ConsumerHoldsMessages ==
  ASSUME TypeOK, JobsHoldMessages, NEW c \in Consumers, ConsumerStep(c)
  PROVE  JobsHoldMessages'
<1>1. ASSUME NEW m, Receive(c, m), NEW pc, NEW hook, StartJob(c, m, pc, hook),
             UNCHANGED queue
      PROVE  JobsHoldMessages'
  BY <1>1 DEF Receive, StartJob, TypeOK, JobsHoldMessages
<1>2. ASSUME job[c].pc # "idle", UNCHANGED queue,
             /\ job'[c].msg = job[c].msg
             /\ \A d \in Consumers : d # c => job'[d] = job[d]
      PROVE  JobsHoldMessages'
  BY <1>2 DEF JobsHoldMessages
<1>3. ASSUME job' = [job EXCEPT ![c] = NoJob], job[c].pc # "idle",
             \A m \in Messages : m # job[c].msg => queue'[m] = queue[m]
      PROVE  JobsHoldMessages'
  <2>1. /\ job'[c].pc = "idle"
        /\ \A d \in Consumers : d # c => job'[d] = job[d]
    BY <1>3 DEF TypeOK, NoJob
  <2>2. \A d \in Consumers : job[d].msg \in Messages
    BY DEF TypeOK
  <2>3. QED
    BY <1>3, <2>1, <2>2 DEF JobsHoldMessages
<1>4. ASSUME NEW pc, Goto(c, pc)
      PROVE  /\ job'[c].msg = job[c].msg
             /\ \A d \in Consumers : d # c => job'[d] = job[d]
  BY <1>4 DEF Goto, TypeOK
<1>5. ASSUME NEW r \in Rows, ReceiveCreate(c, r)
      PROVE  JobsHoldMessages'
  BY <1>1, <1>5 DEF ReceiveCreate
<1>6. ASSUME NEW r \in Rows, NEW u \in Users, ReceiveDelete(c, r, u)
      PROVE  JobsHoldMessages'
  BY <1>1, <1>6 DEF ReceiveDelete
<1>7. CASE CreateHook(c)
  <2>1. /\ job[c].pc # "idle"
        /\ UNCHANGED queue
        /\ \E pc, h : job' = [job EXCEPT ![c].pc = pc, ![c].hook = h]
    BY <1>7 DEF CreateHook, JobAt
  <2>2. /\ job'[c].msg = job[c].msg
        /\ \A d \in Consumers : d # c => job'[d] = job[d]
    BY <2>1 DEF TypeOK
  <2>3. QED
    BY <1>2, <2>1, <2>2
<1>8. CASE AckMessage(c)
  <2>1. \A m \in Messages : m # job[c].msg => queue'[m] = queue[m]
    BY <1>8 DEF AckMessage, TypeOK
  <2>2. QED
    BY <1>3, <1>8, <2>1 DEF AckMessage, JobAt
<1>9. CASE JobFails(c)
  BY <1>3, <1>9 DEF JobFails
<1>10. ASSUME NEW pc, Goto(c, pc), job[c].pc # "idle", UNCHANGED queue
       PROVE  JobsHoldMessages'
  BY <1>2, <1>4, <1>10
<1>11. CASE AddCollaborator(c)
  BY <1>10, <1>11 DEF AddCollaborator, JobAt
<1>12. CASE PutInvite(c) \/ PutLaunch(c) \/ PermanentError(c)
  BY <1>10, <1>12 DEF PutInvite, PutLaunch, PermanentError, JobAt
<1>13. CASE CommitCreated(c) \/ MarkRepoForRollback(c) \/ RollbackRepo(c)
              \/ CommitDone(c)
  BY <1>10, <1>13
  DEF CommitCreated, MarkRepoForRollback, RollbackRepo, CommitDone, JobAt
<1>14. CASE CreateRepoAnalysisStatus(c)
  BY <1>10, <1>14 DEF CreateRepoAnalysisStatus, JobAt
<1>15. CASE DeleteHook(c) \/ RemoveCollaborator(c) \/ CommitDeleted(c)
  BY <1>10, <1>15 DEF DeleteHook, RemoveCollaborator, CommitDeleted, JobAt
<1>16. QED
  BY <1>5, <1>6, <1>7, <1>8, <1>9, <1>11, <1>12, <1>13, <1>14, <1>15
  DEF ConsumerStep, JobProgress

\* A request only adds messages and leaves the handlers alone.
LEMMA RequestHoldsMessages ==
  ASSUME TypeOK, JobsHoldMessages, NEW q \in Requests, RequestStep(q)
  PROVE  JobsHoldMessages'
<1>1. \A m \in Messages : queue'[m] >= queue[m]
  <2>1. ASSUME NEW m, Put(m)
        PROVE  \A n \in Messages : queue'[n] >= queue[n]
    BY <2>1 DEF Put, TypeOK
  <2>2. CASE UNCHANGED queue
    BY <2>2 DEF TypeOK
  <2>3. QED
    BY <2>1, <2>2 DEF RequestStep, CreateRequest, DeleteRequest,
       CheckSubscription, InsertRepo, SendToCreateQueue, FinishCreate,
       FinishDelete, FinishQueueSending, StartDelete, SendToDeleteQueue,
       RequestFails
<1>2. job' = job
  BY DEF RequestStep, CreateRequest, DeleteRequest,
     CheckSubscription, InsertRepo, SendToCreateQueue, FinishCreate,
     FinishDelete, FinishQueueSending, StartDelete, SendToDeleteQueue,
     RequestFails
<1>3. /\ \A d \in Consumers : job[d].msg \in Messages
      /\ \A m \in Messages : queue[m] \in 0..MaxCopies
  BY DEF TypeOK
<1>4. ASSUME NEW d \in Consumers, job[d].pc # "idle"
      PROVE  queue'[job[d].msg] > 0
  <2>1. queue[job[d].msg] > 0
    BY <1>4 DEF JobsHoldMessages
  <2>2. /\ queue'[job[d].msg] >= queue[job[d].msg]
        /\ queue[job[d].msg] \in 0..MaxCopies
    BY <1>1, <1>3
  <2>3. queue'[job[d].msg] \in 0..MaxCopies
    BY <1>3, RequestTypeOK DEF TypeOK
  <2>4. QED
    BY <2>1, <2>2, <2>3, RepoConnectAssumption
<1>5. QED
  BY <1>2, <1>4 DEF JobsHoldMessages

LEMMA StepTypeOK ==
  TypeOK /\ JobsHoldMessages /\ [Next]_vars => TypeOK' /\ JobsHoldMessages'
<1> SUFFICES ASSUME TypeOK, JobsHoldMessages, [Next]_vars
             PROVE  TypeOK' /\ JobsHoldMessages'
  OBVIOUS
<1>1. ASSUME NEW q \in Requests, RequestStep(q)
      PROVE  TypeOK' /\ JobsHoldMessages'
  BY <1>1, RequestTypeOK, RequestHoldsMessages
<1>2. ASSUME NEW c \in Consumers, ConsumerStep(c)
      PROVE  TypeOK' /\ JobsHoldMessages'
  BY <1>2, ConsumerTypeOK, ConsumerHoldsMessages
<1>3. ASSUME NEW u \in Users, UnlinkProvider(u)
      PROVE  TypeOK' /\ JobsHoldMessages'
  BY <1>3 DEF UnlinkProvider, TypeOK, JobsHoldMessages, analysisVars,
     providerVars
<1>4. CASE AcceptInvitation
  BY <1>4 DEF AcceptInvitation, TypeOK, JobsHoldMessages, rowVars, analysisVars
<1>5. ASSUME NEW r \in Rows, AnalysisLaunched(r)
      PROVE  TypeOK' /\ JobsHoldMessages'
  BY <1>5 DEF AnalysisLaunched, TypeOK, JobsHoldMessages, rowVars, providerVars
<1>6. CASE UNCHANGED vars
  BY <1>6 DEF vars, rowVars, analysisVars, providerVars, TypeOK,
     JobsHoldMessages
<1>7. QED
  BY <1>1, <1>2, <1>3, <1>4, <1>5, <1>6 DEF Next

\* Every variable keeps its type; the queue never holds a negative number of
\* copies because a handler acknowledges only the message it holds.
THEOREM TypeCorrect == Spec => [](TypeOK /\ JobsHoldMessages)
<1>1. Init => JobsHoldMessages
  BY DEF Init, JobsHoldMessages, NoJob
<1>2. QED
  BY <1>1, InitTypeOK, StepTypeOK, PTL DEF Spec

(***************************************************************************)
(* Commit states move forward                                              *)
(***************************************************************************)

LEMMA RowsMoveForward ==
  ASSUME TypeOK, NamedRowsAreInserted, [Next]_vars
  PROVE  \A r \in Rows : MovesForward(r)
<1> USE DEF MovesForward, Successors, Live, CommitStates, CreateStates,
            DeleteStates, CreateNotStarted, DeleteNotDone
<1>1. CASE UNCHANGED <<commitState, deleted>>
  BY <1>1
<1>2. ASSUME NEW q \in Requests, RequestStep(q)
      PROVE  \A r \in Rows : MovesForward(r)
  <2>1. CASE InsertRepo(q)
    <3>1. ASSUME NEW s \in Rows, commitState[s] = "none", UNCHANGED deleted,
                 commitState' = [commitState EXCEPT ![s] = "create/init"]
          PROVE  \A r \in Rows : MovesForward(r)
      <4>1. ~deleted[s]
        BY <3>1 DEF NamedRowsAreInserted, Inserted
      <4>2. QED
        BY <3>1, <4>1 DEF TypeOK
    <3>2. UNCHANGED deleted
      BY <2>1 DEF InsertRepo
    <3>3. QED
      BY <1>1, <2>1, <3>1, <3>2 DEF InsertRepo
  <2>2. CASE FinishCreate(q)
    BY <2>2 DEF FinishCreate, FinishQueueSending, TypeOK
  <2>3. CASE FinishDelete(q)
    BY <2>3 DEF FinishDelete, FinishQueueSending, TypeOK
  <2>4. CASE StartDelete(q)
    BY <2>4 DEF StartDelete, TypeOK
  <2>5. QED
    BY <1>1, <1>2, <2>1, <2>2, <2>3, <2>4
    DEF RequestStep, CreateRequest, DeleteRequest, CheckSubscription,
        SendToCreateQueue, SendToDeleteQueue, RequestFails, rowVars
<1>3. ASSUME NEW c \in Consumers, ConsumerStep(c)
      PROVE  \A r \in Rows : MovesForward(r)
  <2>1. CASE CommitCreated(c)
    BY <2>1 DEF CommitCreated, TypeOK
  <2>2. CASE MarkRepoForRollback(c)
    BY <2>2 DEF MarkRepoForRollback, TypeOK
  <2>3. CASE RollbackRepo(c)
    BY <2>3 DEF RollbackRepo, TypeOK
  <2>4. CASE CommitDone(c)
    BY <2>4 DEF CommitDone, TypeOK
  <2>5. CASE CommitDeleted(c)
    BY <2>5 DEF CommitDeleted, TypeOK
  <2>6. QED
    BY <1>1, <1>3, <2>1, <2>2, <2>3, <2>4, <2>5
    DEF ConsumerStep, JobProgress, ReceiveCreate, ReceiveDelete, CreateHook,
        AddCollaborator, PutInvite, PermanentError, CreateRepoAnalysisStatus,
        PutLaunch, DeleteHook, RemoveCollaborator, AckMessage, JobFails,
        rowVars
<1>4. ASSUME NEW u \in Users, UnlinkProvider(u)
      PROVE  \A r \in Rows : MovesForward(r)
  BY <1>4 DEF UnlinkProvider, TypeOK
<1>5. CASE AcceptInvitation \/ \E r \in Rows : AnalysisLaunched(r)
  BY <1>1, <1>5 DEF AcceptInvitation, AnalysisLaunched, rowVars
<1>6. CASE UNCHANGED vars
  BY <1>1, <1>6 DEF vars, rowVars
<1>7. QED
  BY <1>2, <1>3, <1>4, <1>5, <1>6 DEF Next

(***************************************************************************)
(* The rows that requests and messages name                                *)
(***************************************************************************)

LEMMA StepNamedRows ==
  ASSUME TypeOK, NamedRowsAreInserted, JobsHoldMessages, [Next]_vars
  PROVE  NamedRowsAreInserted'
<1> DEFINE Pending == {"put_create", "finish_create", "start_delete",
                       "put_delete", "finish_delete"}
<1> DEFINE ReqOK(q) ==
      /\ req[q].pc \in Pending => req[q].repo \in Rows /\ Inserted(req[q].repo)
      /\ req[q].pc # "idle" => req[q].user \in Users
      /\ req[q].pc \in {"put_delete", "finish_delete"}
         => commitState[req[q].repo] \in DeleteStates
<1>1. \A r \in Rows : /\ MovesForward(r)
                      /\ Inserted(r) => Inserted(r)'
                      /\ commitState[r] \in DeleteStates
                         => commitState'[r] \in DeleteStates
  <2>1. \A r \in Rows :
          MovesForward(r) /\ commitState[r] \in CommitStates \cup {"none"}
    BY RowsMoveForward DEF TypeOK
  <2>2. QED
    BY <2>1 DEF MovesForward, Successors, Inserted, CommitStates, CreateStates,
       DeleteStates
<1>2. /\ TypeOK'
      /\ \A m \in Messages : m.repo \in Rows
  BY StepTypeOK DEF Messages, CreateMsg, DeleteMsg
<1>3. ASSUME NEW q \in Requests, req'[q] = req[q]
      PROVE  ReqOK(q)'
  BY <1>1, <1>3 DEF NamedRowsAreInserted
<1>4. \A r \in Rows : deleted'[r] => Inserted(r)'
  <2>1. CASE UNCHANGED deleted
    BY <1>1, <2>1 DEF NamedRowsAreInserted
  <2>2. ASSUME NEW c \in Consumers, RollbackRepo(c) \/ CommitDeleted(c)
        PROVE  \A r \in Rows : deleted'[r] => Inserted(r)'
    BY <1>1, <2>2 DEF RollbackRepo, CommitDeleted, NamedRowsAreInserted,
       TypeOK, Live, Inserted
  <2>3. ASSUME NEW u \in Users, UnlinkProvider(u)
        PROVE  \A r \in Rows : deleted'[r] => Inserted(r)'
    BY <1>1, <2>3 DEF UnlinkProvider, NamedRowsAreInserted, Live, Inserted
  <2>4. QED
    BY <2>1, <2>2, <2>3 DEF Next, RequestStep, CreateRequest, DeleteRequest,
       CheckSubscription, InsertRepo, SendToCreateQueue, FinishCreate,
       FinishDelete, FinishQueueSending, StartDelete, SendToDeleteQueue,
       RequestFails, ConsumerStep, JobProgress, ReceiveCreate, ReceiveDelete,
       CreateHook, AddCollaborator, PutInvite, CommitCreated, PermanentError,
       MarkRepoForRollback, CreateRepoAnalysisStatus, PutLaunch, CommitDone,
       DeleteHook, RemoveCollaborator, AckMessage, JobFails, AcceptInvitation,
       AnalysisLaunched, vars, rowVars
<1>5. ASSUME NEW q \in Requests, RequestStep(q)
      PROVE  \A p \in Requests : ReqOK(p)'
  <2>1. \A p \in Requests : p # q => req'[p] = req[p]
    BY <1>5 DEF TypeOK, RequestStep, CreateRequest, DeleteRequest,
       CheckSubscription, InsertRepo, SendToCreateQueue, FinishCreate,
       FinishDelete, FinishQueueSending, StartDelete, SendToDeleteQueue,
       RequestFails
  <2>2. ReqOK(q)'
    <3> USE DEF NamedRowsAreInserted, Inserted
    <3>1. ASSUME NEW u \in Users, CreateRequest(q, u)
          PROVE  ReqOK(q)'
      BY <1>1, <3>1 DEF CreateRequest, TypeOK, Live
    <3>2. ASSUME NEW u \in Users, DeleteRequest(q, u)
          PROVE  ReqOK(q)'
      BY <1>1, <3>2 DEF DeleteRequest, TypeOK, Live, DeleteStates, rowVars
    <3>3. CASE CheckSubscription(q)
      BY <1>1, <3>3 DEF CheckSubscription, TypeOK, NoRequest
    <3>4. CASE InsertRepo(q)
      <4>1. req[q].user \in Users
        BY <3>4 DEF InsertRepo
      <4>2. CASE req'[q] = NoRequest
        BY <4>2 DEF NoRequest
      <4>3. ASSUME NEW r \in Rows, Inserted(r)', req'[q].pc = "put_create",
                   req'[q].repo = r, req'[q].user = req[q].user
            PROVE  ReqOK(q)'
        BY <4>1, <4>3
      <4>4. ASSUME NEW r \in Rows, Live(r), req' = [req EXCEPT ![q] =
                     IF commitState[r] = "create/init"
                     THEN [@ EXCEPT !.pc = "put_create", !.repo = r]
                     ELSE NoRequest]
            PROVE  ReqOK(q)'
        <5>1. Inserted(r)'
          BY <1>1, <4>4 DEF Live
        <5>2. QED
          BY <4>2, <4>3, <4>4, <5>1 DEF TypeOK
      <4>5. ASSUME NEW r \in Rows,
                   commitState' = [commitState EXCEPT ![r] = "create/init"],
                   req' = [req EXCEPT ![q].pc = "put_create", ![q].repo = r]
            PROVE  ReqOK(q)'
        BY <4>3, <4>5 DEF TypeOK
      <4>6. QED
        BY <3>4, <4>4, <4>5 DEF InsertRepo
    <3>5. CASE SendToCreateQueue(q)
      BY <1>1, <3>5 DEF SendToCreateQueue, TypeOK
    <3>6. CASE SendToDeleteQueue(q)
      BY <1>1, <3>6 DEF SendToDeleteQueue, TypeOK
    <3>7. CASE FinishCreate(q) \/ FinishDelete(q) \/ RequestFails(q)
      BY <3>7 DEF FinishCreate, FinishDelete, FinishQueueSending,
         RequestFails, TypeOK, NoRequest
    <3>8. CASE StartDelete(q)
      BY <1>1, <3>8 DEF StartDelete, TypeOK, DeleteStates
    <3>9. QED
      BY <1>5, <3>1, <3>2, <3>3, <3>4, <3>5, <3>6, <3>7, <3>8 DEF RequestStep
  <2>3. QED
    BY <1>3, <2>1, <2>2
<1>6. \A q \in Requests : ReqOK(q)'
  <2>1. CASE UNCHANGED req
    BY <1>3, <2>1
  <2>2. QED
    BY <1>5, <2>1 DEF Next, ConsumerStep, JobProgress, ReceiveCreate,
       ReceiveDelete, CreateHook, AddCollaborator, PutInvite, CommitCreated,
       PermanentError, MarkRepoForRollback, RollbackRepo,
       CreateRepoAnalysisStatus, PutLaunch, CommitDone, DeleteHook,
       RemoveCollaborator, CommitDeleted, AckMessage, JobFails,
       UnlinkProvider, AcceptInvitation, AnalysisLaunched, vars
<1>7. \A m \in Messages : queue'[m] > 0 => Inserted(m.repo)'
  <2>1. ASSUME NEW m \in Messages, queue'[m] > 0,
               queue[m] > 0 \/ Inserted(m.repo)
        PROVE  Inserted(m.repo)'
    BY <1>1, <1>2, <2>1 DEF NamedRowsAreInserted
  <2>2. ASSUME NEW m \in Messages, NEW n, Put(n), Inserted(n.repo)
        PROVE  queue'[m] > 0 => queue[m] > 0 \/ Inserted(m.repo)
    BY <2>2 DEF Put, TypeOK
  <2>3. ASSUME NEW q \in Requests, SendToCreateQueue(q) \/ SendToDeleteQueue(q),
               NEW m \in Messages
        PROVE  queue'[m] > 0 => queue[m] > 0 \/ Inserted(m.repo)
    <3>1. Inserted(req[q].repo)
      BY <2>3 DEF SendToCreateQueue, SendToDeleteQueue, NamedRowsAreInserted
    <3>2. PICK n : Put(n) /\ n.repo = req[q].repo
      BY <2>3 DEF SendToCreateQueue, SendToDeleteQueue, CreateMsg, DeleteMsg
    <3>3. QED
      BY <2>2, <3>1, <3>2
  <2>4. ASSUME NEW c \in Consumers, AckMessage(c), NEW m \in Messages
        PROVE  queue'[m] > 0 => queue[m] > 0
    BY <2>4 DEF AckMessage, TypeOK
  <2>5. CASE UNCHANGED queue
    BY <2>1, <2>5
  <2>6. QED
    BY <2>1, <2>3, <2>4, <2>5
    DEF Next, RequestStep, CreateRequest, DeleteRequest, CheckSubscription,
        InsertRepo, FinishCreate, FinishDelete, FinishQueueSending,
        StartDelete, RequestFails, ConsumerStep, JobProgress, ReceiveCreate,
        ReceiveDelete, CreateHook, AddCollaborator, PutInvite, CommitCreated,
        PermanentError, MarkRepoForRollback, RollbackRepo,
        CreateRepoAnalysisStatus, PutLaunch, CommitDone, DeleteHook,
        RemoveCollaborator, CommitDeleted, JobFails, UnlinkProvider,
        AcceptInvitation, AnalysisLaunched, vars
<1>8. QED
  BY <1>4, <1>6, <1>7 DEF NamedRowsAreInserted

(***************************************************************************)
(* A row that was sent to the queue has its message there                  *)
(***************************************************************************)

\* A message whose row needs it no more is never needed again.
LEMMA HandledStable ==
  ASSUME TypeOK, NamedRowsAreInserted, [Next]_vars,
         NEW m, m.repo \in Rows, Inserted(m.repo), Handled(m)
  PROVE  Handled(m)'
<1>1. /\ MovesForward(m.repo)
      /\ commitState[m.repo] \in CommitStates \cup {"none"}
  BY RowsMoveForward DEF TypeOK
<1>2. CASE ~Live(m.repo)
  BY <1>1, <1>2 DEF Handled, Live, Inserted, MovesForward
<1>3. CASE commitState[m.repo] \in {"create/done"} \cup DeleteStates
  <2>1. commitState'[m.repo] \in {"create/done"} \cup DeleteStates
    BY <1>1, <1>3
    DEF MovesForward, Successors, CommitStates, CreateStates, DeleteStates
  <2>2. QED
    BY <1>2, <1>3, <2>1 DEF Handled
<1>4. QED
  BY <1>2, <1>3 DEF Handled

\* A message leaves the queue only when its row needs it no more.
LEMMA QueueKept ==
  ASSUME TypeOK, JobsHoldMessages, AcksAreLate, [Next]_vars,
         NEW m \in Messages, queue[m] > 0
  PROVE  \/ queue'[m] > 0
         \/ Handled(m) /\ UNCHANGED <<commitState, deleted>>
<1>1. CASE UNCHANGED queue
  BY <1>1
<1>2. ASSUME NEW n, Put(n)
      PROVE  queue'[m] > 0
  BY <1>2 DEF Put, TypeOK
<1>3. ASSUME NEW c \in Consumers, AckMessage(c)
      PROVE  \/ queue'[m] > 0
             \/ Handled(m) /\ UNCHANGED <<commitState, deleted>>
  <2>1. CASE m = job[c].msg
    BY <1>3, <2>1 DEF AckMessage, AcksAreLate, rowVars
  <2>2. CASE m # job[c].msg
    BY <1>3, <2>2 DEF AckMessage, TypeOK
  <2>3. QED
    BY <2>1, <2>2
<1>4. QED
  BY <1>1, <1>2, <1>3
  DEF Next, RequestStep, CreateRequest, DeleteRequest, CheckSubscription,
      InsertRepo, SendToCreateQueue, SendToDeleteQueue, FinishCreate,
      FinishDelete, FinishQueueSending, StartDelete, RequestFails,
      ConsumerStep, JobProgress, ReceiveCreate, ReceiveDelete, CreateHook,
      AddCollaborator, PutInvite, CommitCreated, PermanentError,
      MarkRepoForRollback, RollbackRepo, CreateRepoAnalysisStatus, PutLaunch,
      CommitDone, DeleteHook, RemoveCollaborator, CommitDeleted, JobFails,
      UnlinkProvider, AcceptInvitation, AnalysisLaunched, vars

\* The steps of a handler fit the kind of its message.
LEMMA StepJobKinds ==
  ASSUME TypeOK, JobKindsMatch, [Next]_vars
  PROVE  JobKindsMatch'
<1> DEFINE KindOK(d) == /\ job[d].pc \in CreatePCs
                           => job[d].msg = CreateMsg(JobRow(d))
                        /\ job[d].pc \in DeletePCs
                           => job[d].msg.kind = "delete"
<1> USE DEF CreatePCs, DeletePCs
<1>1. CASE UNCHANGED job
  BY <1>1 DEF JobKindsMatch, JobRow
<1>2. ASSUME NEW c \in Consumers, ConsumerStep(c)
      PROVE  JobKindsMatch'
  <2>0. /\ job \in [Consumers -> [pc : JobPCs, msg : Messages,
                                  hook : 0..MaxHooks]]
        /\ \A r : CreateMsg(r).repo = r
        /\ KindOK(c)
    BY DEF TypeOK, CreateMsg, JobKindsMatch
  <2>1. \A d \in Consumers : d # c => job'[d] = job[d]
    BY <1>2, <2>0 DEF ConsumerStep, JobProgress, ReceiveCreate, ReceiveDelete,
       StartJob, Goto, CreateHook, AddCollaborator, PutInvite, CommitCreated,
       PermanentError, MarkRepoForRollback, RollbackRepo,
       CreateRepoAnalysisStatus, PutLaunch, CommitDone, DeleteHook,
       RemoveCollaborator, CommitDeleted, AckMessage, JobFails
  <2>2. KindOK(c)'
    <3> USE DEF JobAt, Goto, JobRow
    <3>1. ASSUME NEW r \in Rows, ReceiveCreate(c, r)
          PROVE  KindOK(c)'
      <4>1. /\ job'[c].msg = CreateMsg(r)
            /\ job'[c].pc \in CreatePCs \cup {"ack"}
        BY <2>0, <3>1 DEF ReceiveCreate, StartJob, FirstCreateStep,
           CreateNotStarted
      <4>2. QED
        BY <2>0, <4>1
    <3>2. ASSUME NEW r \in Rows, NEW u \in Users, ReceiveDelete(c, r, u)
          PROVE  KindOK(c)'
      BY <2>0, <3>2 DEF ReceiveDelete, StartJob, DeleteMsg
    <3>3. ASSUME NEW from, NEW to, JobAt(c, from), Goto(c, to),
                 \/ from \in CreatePCs /\ to \in CreatePCs \cup {"ack"}
                 \/ from \in DeletePCs /\ to \in DeletePCs \cup {"ack"}
          PROVE  KindOK(c)'
      BY <2>0, <3>3
    <3>4. CASE CreateHook(c)
      <4>1. /\ job[c].pc = "create_hook"
            /\ \E h : job' = [job EXCEPT ![c].pc = AfterHook, ![c].hook = h]
        BY <3>4 DEF CreateHook
      <4>2. job'[c].msg = job[c].msg /\ job'[c].pc = AfterHook
        BY <2>0, <4>1
      <4>3. QED
        BY <2>0, <4>1, <4>2 DEF AfterHook
    <3>5. CASE AddCollaborator(c)
      BY <3>3, <3>5 DEF AddCollaborator
    <3>6. CASE PutInvite(c)
      BY <3>3, <3>6 DEF PutInvite
    <3>7. CASE CommitCreated(c)
      BY <3>3, <3>7 DEF CommitCreated
    <3>8. CASE PermanentError(c)
      BY <3>3, <3>8 DEF PermanentError
    <3>9. CASE MarkRepoForRollback(c)
      BY <3>3, <3>9 DEF MarkRepoForRollback
    <3>10. CASE RollbackRepo(c)
      BY <3>3, <3>10 DEF RollbackRepo
    <3>11. CASE CreateRepoAnalysisStatus(c)
      BY <3>3, <3>11 DEF CreateRepoAnalysisStatus
    <3>12. CASE PutLaunch(c)
      BY <3>3, <3>12 DEF PutLaunch
    <3>13. CASE CommitDone(c)
      BY <3>3, <3>13 DEF CommitDone
    <3>14. CASE DeleteHook(c)
      BY <3>3, <3>14 DEF DeleteHook
    <3>15. CASE RemoveCollaborator(c)
      BY <3>3, <3>15 DEF RemoveCollaborator
    <3>16. CASE CommitDeleted(c)
      BY <3>3, <3>16 DEF CommitDeleted
    <3>17. CASE AckMessage(c) \/ JobFails(c)
      BY <2>0, <3>17 DEF AckMessage, JobFails, NoJob
    <3>18. QED
      BY <1>2, <3>1, <3>2, <3>4, <3>5, <3>6, <3>7, <3>8, <3>9, <3>10, <3>11,
         <3>12, <3>13, <3>14, <3>15, <3>16, <3>17 DEF ConsumerStep, JobProgress
  <2>3. QED
    BY <2>1, <2>2 DEF JobKindsMatch, JobRow
<1>3. QED
  BY <1>1, <1>2 DEF Next, RequestStep, CreateRequest, DeleteRequest,
     CheckSubscription, InsertRepo, SendToCreateQueue, SendToDeleteQueue,
     FinishCreate, FinishDelete, FinishQueueSending, StartDelete,
     RequestFails, UnlinkProvider, AcceptInvitation, AnalysisLaunched, vars

\* A handler acknowledges its message when the row needs it no more.
LEMMA StepAcks ==
  ASSUME TypeOK, QueueInv, [Next]_vars
  PROVE  AcksAreLate'
<1> USE DEF QueueInv
<1> DEFINE AckOK(d) == JobAt(d, "ack") => Handled(job[d].msg)
<1>1. /\ TypeOK'
      /\ \A d \in Consumers : job[d].msg \in Messages
      /\ \A m \in Messages : m.repo \in Rows
  BY StepTypeOK DEF TypeOK, Messages, CreateMsg, DeleteMsg
<1>2. ASSUME NEW d \in Consumers, job'[d] = job[d]
      PROVE  AckOK(d)'
  <2>1. ASSUME NEW m \in Messages, job[d].pc = "ack", job[d].msg = m
        PROVE  Handled(m)'
    <3>1. Handled(m) /\ queue[m] > 0
      BY <2>1 DEF JobAt, AcksAreLate, JobsHoldMessages
    <3>2. m.repo \in Rows /\ Inserted(m.repo)
      BY <1>1, <3>1 DEF NamedRowsAreInserted
    <3>3. QED
      BY <3>1, <3>2, HandledStable
  <2>2. QED
    BY <1>1, <1>2, <2>1 DEF JobAt, Handled, Live
<1>3. CASE UNCHANGED job
  BY <1>2, <1>3 DEF AcksAreLate
<1>4. ASSUME NEW c \in Consumers, ConsumerStep(c)
      PROVE  AcksAreLate'
  <2>0. job \in [Consumers -> [pc : JobPCs, msg : Messages, hook : 0..MaxHooks]]
    BY DEF TypeOK
  <2>1. \A d \in Consumers : d # c => job'[d] = job[d]
    BY <1>4, <2>0 DEF ConsumerStep, JobProgress, ReceiveCreate, ReceiveDelete,
       StartJob, Goto, CreateHook, AddCollaborator, PutInvite, CommitCreated,
       PermanentError, MarkRepoForRollback, RollbackRepo,
       CreateRepoAnalysisStatus, PutLaunch, CommitDone, DeleteHook,
       RemoveCollaborator, CommitDeleted, AckMessage, JobFails
  <2>2. AckOK(c)'
    <3> USE DEF JobAt, Goto
    <3>1. ASSUME NEW r \in Rows, ReceiveCreate(c, r)
          PROVE  AckOK(c)'
      <4>1. \/ /\ ~Live(r)
               /\ StartJob(c, CreateMsg(r), "ack", 0)
            \/ /\ commitState[r] \in DOMAIN FirstCreateStep
               /\ StartJob(c, CreateMsg(r), FirstCreateStep[commitState[r]], 0)
        BY <3>1 DEF ReceiveCreate
      <4>2. job'[c].msg = CreateMsg(r) /\ UNCHANGED <<commitState, deleted>>
        BY <2>0, <3>1, <4>1 DEF ReceiveCreate, StartJob, rowVars
      <4>3. job'[c].pc = "ack" => ~Live(r) \/ commitState[r] = "create/done"
        BY <2>0, <4>1 DEF StartJob, FirstCreateStep, CreateNotStarted
      <4>4. QED
        BY <4>2, <4>3 DEF Handled, CreateMsg, Live
    <3>2. ASSUME NEW r \in Rows, NEW u \in Users, ReceiveDelete(c, r, u)
          PROVE  ~JobAt(c, "ack")'
      BY <2>0, <3>2 DEF ReceiveDelete, StartJob
    <3>3. ASSUME NEW to, Goto(c, to), to # "ack"
          PROVE  ~JobAt(c, "ack")'
      BY <2>0, <3>3
    <3>4. CASE CreateHook(c)
      <4>1. \E h : job' = [job EXCEPT ![c].pc = AfterHook, ![c].hook = h]
        BY <3>4 DEF CreateHook
      <4>2. job'[c].pc = AfterHook
        BY <2>0, <4>1
      <4>3. QED
        BY <4>2 DEF AfterHook
    <3>5. CASE AddCollaborator(c) \/ PutInvite(c) \/ CommitCreated(c)
               \/ PermanentError(c) \/ MarkRepoForRollback(c) \/ PutLaunch(c)
      BY <3>3, <3>5 DEF AddCollaborator, PutInvite, CommitCreated,
         PermanentError, MarkRepoForRollback, PutLaunch
    <3>6. CASE CreateRepoAnalysisStatus(c)
      BY <3>3, <3>6 DEF CreateRepoAnalysisStatus
    <3>7. CASE DeleteHook(c) \/ RemoveCollaborator(c)
      BY <3>3, <3>7 DEF DeleteHook, RemoveCollaborator
    <3>8. CASE RollbackRepo(c) \/ CommitDeleted(c)
      <4>1. job'[c].msg = job[c].msg
        BY <2>0, <3>8 DEF RollbackRepo, CommitDeleted
      <4>2. deleted'[job[c].msg.repo]
        BY <1>1, <3>8 DEF RollbackRepo, CommitDeleted, JobRow, TypeOK
      <4>3. QED
        BY <4>1, <4>2 DEF Handled, Live
    <3>9. CASE CommitDone(c)
      <4>1. job'[c].msg = job[c].msg
        BY <2>0, <3>9 DEF CommitDone
      <4>2. job[c].msg.kind = "create"
        <5>1. job[c].msg = CreateMsg(JobRow(c))
          BY <3>9 DEF CommitDone, JobKindsMatch, CreatePCs
        <5>2. QED
          BY <5>1 DEF CreateMsg
      <4>3. commitState'[job[c].msg.repo] = "create/done"
        BY <1>1, <3>9 DEF CommitDone, JobRow, TypeOK
      <4>4. QED
        BY <4>1, <4>2, <4>3 DEF Handled
    <3>10. CASE AckMessage(c) \/ JobFails(c)
      BY <2>0, <3>10 DEF AckMessage, JobFails, NoJob
    <3>11. QED
      BY <1>4, <3>1, <3>2, <3>4, <3>5, <3>6, <3>7, <3>8, <3>9, <3>10
      DEF ConsumerStep, JobProgress
  <2>3. QED
    BY <1>2, <2>1, <2>2 DEF AcksAreLate
<1>5. QED
  BY <1>3, <1>4 DEF Next, RequestStep, CreateRequest, DeleteRequest,
     CheckSubscription, InsertRepo, SendToCreateQueue, SendToDeleteQueue,
     FinishCreate, FinishDelete, FinishQueueSending, StartDelete,
     RequestFails, UnlinkProvider, AcceptInvitation, AnalysisLaunched, vars

\* A message that is needed before and after a step stays in the queue.
LEMMA NeededIsKept ==
  ASSUME TypeOK, QueueInv, [Next]_vars,
         NEW m \in Messages, queue[m] > 0, ~Handled(m)
  PROVE  queue'[m] > 0
BY QueueKept DEF QueueInv

\* Where a row can come from that is in a state the queue must serve
LEMMA ServedRows ==
  ASSUME TypeOK, QueueInv, [Next]_vars, NEW r \in Rows, Live(r)',
         commitState'[r] # "create/init"
  PROVE  Live(r) /\ (commitState'[r] # commitState[r]
                     => commitState'[r] \in Successors[commitState[r]])
<1>1. /\ MovesForward(r)
      /\ commitState[r] \in CommitStates \cup {"none"}
      /\ deleted[r] \in BOOLEAN
  BY RowsMoveForward DEF QueueInv, TypeOK
<1>2. QED
  BY <1>1 DEF MovesForward, Successors, Live

\* A request that has put its message finds it, or its row moved on.
LEMMA StepSentRequests ==
  ASSUME TypeOK, QueueInv, [Next]_vars
  PROVE  SentRequestsAreQueued'
<1> USE DEF QueueInv
<1> DEFINE SentOK(q) ==
      LET r == req[q].repo IN
      /\ req[q].pc = "finish_create" /\ Live(r)
         /\ commitState[r] = "create/init"
         => queue[CreateMsg(r)] > 0
      /\ req[q].pc = "finish_delete" /\ Live(r)
         /\ commitState[r] = "delete/init"
         => queue[DeleteMsg(r, req[q].user)] > 0
<1>1. /\ TypeOK'
      /\ \A r \in Rows : /\ CreateMsg(r) \in Messages
                         /\ \A u \in Users : DeleteMsg(r, u) \in Messages
      /\ \A r, u : CreateMsg(r).repo = r /\ DeleteMsg(r, u).repo = r
                   /\ DeleteMsg(r, u).kind = "delete"
  <2>1. TypeOK'
    BY StepTypeOK
  <2>2. \A r \in Rows : /\ CreateMsg(r) \in Messages
                        /\ \A u \in Users : DeleteMsg(r, u) \in Messages
    BY DEF Messages
  <2>3. QED
    BY <2>1, <2>2 DEF CreateMsg, DeleteMsg
<1>6. \A r \in Rows : /\ MovesForward(r)
                      /\ commitState[r] \in CommitStates \cup {"none"}
  BY RowsMoveForward DEF TypeOK
<1>2. ASSUME NEW q \in Requests, req'[q] = req[q]
      PROVE  SentOK(q)'
  <2>1. ASSUME NEW r, r = req[q].repo, req[q].pc = "finish_create",
               Live(r)', commitState'[r] = "create/init"
        PROVE  queue'[CreateMsg(r)] > 0
    <3>1. r \in Rows /\ Inserted(r)
      BY <2>1 DEF NamedRowsAreInserted
    <3>2. Live(r) /\ commitState[r] = "create/init"
      BY <1>6, <2>1, <3>1 DEF MovesForward, Successors, Inserted, Live,
         CommitStates, CreateStates, DeleteStates
    <3>3. queue[CreateMsg(r)] > 0 /\ ~Handled(CreateMsg(r))
      BY <1>1, <2>1, <3>2
      DEF SentRequestsAreQueued, Handled, DeleteStates
    <3>4. QED
      BY <1>1, <3>1, <3>3, NeededIsKept
  <2>2. ASSUME NEW r, r = req[q].repo, req[q].pc = "finish_delete",
               Live(r)', commitState'[r] = "delete/init"
        PROVE  queue'[DeleteMsg(r, req[q].user)] > 0
    <3>1. r \in Rows /\ commitState[r] \in DeleteStates /\ req[q].user \in Users
      BY <2>2 DEF NamedRowsAreInserted
    <3>2. Live(r) /\ commitState[r] = "delete/init"
      BY <1>6, <2>2, <3>1 DEF MovesForward, Successors, Live, CommitStates,
         CreateStates, DeleteStates
    <3>3. /\ queue[DeleteMsg(r, req[q].user)] > 0
          /\ ~Handled(DeleteMsg(r, req[q].user))
      BY <1>1, <2>2, <3>2 DEF SentRequestsAreQueued, Handled
    <3>4. QED
      BY <1>1, <3>1, <3>3, NeededIsKept
  <2>3. QED
    BY <1>2, <2>1, <2>2
<1>3. CASE UNCHANGED req
  BY <1>2, <1>3 DEF SentRequestsAreQueued
<1>4. ASSUME NEW q \in Requests, RequestStep(q)
      PROVE  SentRequestsAreQueued'
  <2>1. \A p \in Requests : p # q => req'[p] = req[p]
    BY <1>4 DEF TypeOK, RequestStep, CreateRequest, DeleteRequest,
       CheckSubscription, InsertRepo, SendToCreateQueue, FinishCreate,
       FinishDelete, FinishQueueSending, StartDelete, SendToDeleteQueue,
       RequestFails
  <2>2. SentOK(q)'
    <3>1. CASE SendToCreateQueue(q)
      <4>1. /\ req'[q].pc = "finish_create"
            /\ req'[q].repo = req[q].repo
            /\ req[q].repo \in Rows
            /\ Put(CreateMsg(req[q].repo))
        BY <3>1 DEF SendToCreateQueue, TypeOK, NamedRowsAreInserted
      <4>2. queue'[CreateMsg(req[q].repo)] > 0
        BY <1>1, <4>1, RepoConnectAssumption DEF Put, TypeOK
      <4>3. QED
        BY <4>1, <4>2
    <3>2. CASE SendToDeleteQueue(q)
      <4>1. /\ req'[q].pc = "finish_delete"
            /\ req'[q].repo = req[q].repo
            /\ req'[q].user = req[q].user
            /\ req[q].repo \in Rows
            /\ req[q].user \in Users
            /\ Put(DeleteMsg(req[q].repo, req[q].user))
        BY <3>2 DEF SendToDeleteQueue, TypeOK, NamedRowsAreInserted
      <4>2. queue'[DeleteMsg(req[q].repo, req[q].user)] > 0
        BY <1>1, <4>1, RepoConnectAssumption DEF Put, TypeOK
      <4>3. QED
        BY <4>1, <4>2
    <3>3. ASSUME req'[q].pc \notin {"finish_create", "finish_delete"}
          PROVE  SentOK(q)'
      BY <3>3
    <3>4. ASSUME NEW u \in Users, CreateRequest(q, u) \/ DeleteRequest(q, u)
          PROVE  SentOK(q)'
      BY <3>3, <3>4 DEF CreateRequest, DeleteRequest, TypeOK
    <3>5. CASE CheckSubscription(q) \/ StartDelete(q) \/ RequestFails(q)
      BY <3>3, <3>5 DEF CheckSubscription, StartDelete, RequestFails,
         NoRequest, TypeOK
    <3>6. CASE FinishCreate(q) \/ FinishDelete(q)
      BY <3>3, <3>6 DEF FinishCreate, FinishDelete, FinishQueueSending,
         NoRequest, TypeOK
    <3>7. CASE InsertRepo(q)
      <4>1. PICK r \in Rows :
              req' \in {[req EXCEPT ![q].pc = "put_create", ![q].repo = r],
                        [req EXCEPT ![q] = [@ EXCEPT !.pc = "put_create",
                                                     !.repo = r]],
                        [req EXCEPT ![q] = NoRequest]}
        BY <3>7 DEF InsertRepo
      <4>2. req'[q].pc \in {"put_create", "idle"}
        <5>0. req \in [Requests -> [pc : RequestPCs,
                                    user : Users \cup {NoUser},
                                    repo : 0..MaxRepos]]
          BY DEF TypeOK
        <5>1. CASE req' = [req EXCEPT ![q].pc = "put_create", ![q].repo = r]
          BY <5>0, <5>1
        <5>2. CASE req' = [req EXCEPT ![q] = [@ EXCEPT !.pc = "put_create",
                                                       !.repo = r]]
          BY <5>0, <5>2
        <5>3. CASE req' = [req EXCEPT ![q] = NoRequest]
          BY <5>0, <5>3 DEF NoRequest
        <5>4. QED
          BY <4>1, <5>1, <5>2, <5>3
      <4>3. QED
        BY <3>3, <4>2
    <3>8. QED
      BY <1>4, <3>1, <3>2, <3>4, <3>5, <3>6, <3>7 DEF RequestStep
  <2>3. QED
    BY <1>2, <2>1, <2>2 DEF SentRequestsAreQueued
<1>5. QED
  BY <1>3, <1>4 DEF Next, ConsumerStep, JobProgress, ReceiveCreate,
     ReceiveDelete, CreateHook, AddCollaborator, PutInvite, CommitCreated,
     PermanentError, MarkRepoForRollback, RollbackRepo,
     CreateRepoAnalysisStatus, PutLaunch, CommitDone, DeleteHook,
     RemoveCollaborator, CommitDeleted, AckMessage, JobFails, UnlinkProvider,
     AcceptInvitation, AnalysisLaunched, vars

\* Who moves a row into a state that the queue must serve holds its message.
LEMMA AdvancedRowIsQueued ==
  ASSUME TypeOK, QueueInv, [Next]_vars, NEW r \in Rows, Live(r)',
         commitState'[r] # commitState[r]
  PROVE  CreateIsQueued(r)' /\ DeleteIsQueued(r)'
<1> USE DEF QueueInv, CreateIsQueued, DeleteIsQueued
<1>1. ASSUME NEW q \in Requests, FinishCreate(q)
      PROVE  CreateIsQueued(r)' /\ DeleteIsQueued(r)'
  <2>1. /\ r = req[q].repo
        /\ commitState'[r] = "create/sent_to_queue"
        /\ Live(r) /\ commitState[r] = "create/init"
        /\ req[q].pc = "finish_create"
        /\ UNCHANGED queue
    BY <1>1 DEF FinishCreate, FinishQueueSending, TypeOK
  <2>2. QED
    BY <2>1 DEF SentRequestsAreQueued
<1>2. ASSUME NEW q \in Requests, FinishDelete(q)
      PROVE  CreateIsQueued(r)' /\ DeleteIsQueued(r)'
  <2>1. /\ r = req[q].repo
        /\ commitState'[r] = "delete/sent_to_queue"
        /\ Live(r) /\ commitState[r] = "delete/init"
        /\ req[q].pc = "finish_delete"
        /\ UNCHANGED queue
    BY <1>2 DEF FinishDelete, FinishQueueSending, TypeOK
  <2>2. req[q].user \in Users
    BY <2>1 DEF NamedRowsAreInserted
  <2>3. queue'[DeleteMsg(r, req[q].user)] > 0
    BY <2>1 DEF SentRequestsAreQueued
  <2>4. QED
    BY <2>1, <2>2, <2>3
<1>3. ASSUME NEW q \in Requests, InsertRepo(q)
      PROVE  CreateIsQueued(r)' /\ DeleteIsQueued(r)'
  BY <1>3 DEF InsertRepo, TypeOK
<1>4. ASSUME NEW q \in Requests, StartDelete(q)
      PROVE  CreateIsQueued(r)' /\ DeleteIsQueued(r)'
  BY <1>4 DEF StartDelete, TypeOK
<1>5. ASSUME NEW c \in Consumers, CommitCreated(c) \/ MarkRepoForRollback(c)
      PROVE  CreateIsQueued(r)' /\ DeleteIsQueued(r)'
  <2>1. /\ r = JobRow(c)
        /\ commitState'[r] \in {"create/created_repo", "create/rollback/init"}
        /\ job[c].pc \in CreatePCs
        /\ job[c].pc # "idle"
        /\ UNCHANGED queue
    BY <1>5 DEF CommitCreated, MarkRepoForRollback, TypeOK, JobAt, CreatePCs
  <2>2. job[c].msg = CreateMsg(r) /\ queue[job[c].msg] > 0
    BY <2>1 DEF JobKindsMatch, JobsHoldMessages
  <2>3. QED
    BY <2>1, <2>2
<1>6. ASSUME NEW c \in Consumers,
             RollbackRepo(c) \/ CommitDone(c) \/ CommitDeleted(c)
      PROVE  CreateIsQueued(r)' /\ DeleteIsQueued(r)'
  BY <1>6 DEF RollbackRepo, CommitDone, CommitDeleted, TypeOK
<1>7. CASE UNCHANGED commitState
  BY <1>7
<1>8. QED
  BY <1>1, <1>2, <1>3, <1>4, <1>5, <1>6, <1>7
  DEF Next, RequestStep, CreateRequest, DeleteRequest, CheckSubscription,
      SendToCreateQueue, SendToDeleteQueue, RequestFails, ConsumerStep,
      JobProgress, ReceiveCreate, ReceiveDelete, CreateHook, AddCollaborator,
      PutInvite, PermanentError, CreateRepoAnalysisStatus, PutLaunch,
      DeleteHook, RemoveCollaborator, AckMessage, JobFails, UnlinkProvider,
      AcceptInvitation, AnalysisLaunched, vars, rowVars

LEMMA StepSentToQueue ==
  ASSUME TypeOK, QueueInv, [Next]_vars
  PROVE  SentToQueueIsQueued'
<1> USE DEF QueueInv
<1> SUFFICES ASSUME NEW r \in Rows
             PROVE  CreateIsQueued(r)' /\ DeleteIsQueued(r)'
  BY DEF SentToQueueIsQueued
<1>1. CASE ~Live(r)'
  BY <1>1 DEF CreateIsQueued, DeleteIsQueued
<1>2. CASE Live(r)' /\ commitState'[r] # commitState[r]
  BY <1>2, AdvancedRowIsQueued
<1>3. CASE Live(r)' /\ commitState'[r] = commitState[r]
  <2>0. /\ CreateMsg(r) \in Messages
        /\ \A u \in Users : DeleteMsg(r, u) \in Messages
        /\ CreateMsg(r).repo = r
        /\ \A u : DeleteMsg(r, u).repo = r /\ DeleteMsg(r, u).kind = "delete"
    BY DEF Messages, CreateMsg, DeleteMsg
  <2>1. CreateIsQueued(r)'
    <3>1. SUFFICES ASSUME commitState[r] \in {"create/sent_to_queue",
                                              "create/created_repo",
                                              "create/rollback/init"}
                   PROVE  queue'[CreateMsg(r)] > 0
      BY <1>3 DEF CreateIsQueued
    <3>2. Live(r)
      BY <1>3, <3>1, ServedRows
    <3>3. queue[CreateMsg(r)] > 0 /\ ~Handled(CreateMsg(r))
      BY <2>0, <3>1, <3>2
      DEF SentToQueueIsQueued, CreateIsQueued, Handled, DeleteStates
    <3>4. QED
      BY <2>0, <3>3, NeededIsKept
  <2>2. DeleteIsQueued(r)'
    <3>1. SUFFICES ASSUME commitState[r] = "delete/sent_to_queue"
                   PROVE  \E u \in Users : queue'[DeleteMsg(r, u)] > 0
      BY <1>3 DEF DeleteIsQueued
    <3>2. Live(r)
      BY <1>3, <3>1, ServedRows
    <3>3. PICK u \in Users : queue[DeleteMsg(r, u)] > 0
      BY <3>1, <3>2 DEF SentToQueueIsQueued, DeleteIsQueued
    <3>4. ~Handled(DeleteMsg(r, u))
      BY <2>0, <3>2 DEF Handled
    <3>5. QED
      BY <2>0, <3>3, <3>4, NeededIsKept
  <2>3. QED
    BY <2>1, <2>2
<1>4. QED
  BY <1>1, <1>2, <1>3

LEMMA InitQueueInv == Init => QueueInv
<1> SUFFICES ASSUME Init
             PROVE  QueueInv
  OBVIOUS
<1>1. /\ \A c \in Consumers : job[c].pc = "idle"
      /\ \A q \in Requests : req[q].pc = "idle"
      /\ \A m \in Messages : queue[m] = 0
      /\ \A r \in Rows : commitState[r] = "none" /\ ~deleted[r]
  BY DEF Init, NoJob, NoRequest
<1>2. JobsHoldMessages /\ JobKindsMatch /\ AcksAreLate
  BY <1>1 DEF JobsHoldMessages, JobKindsMatch, AcksAreLate, JobAt, CreatePCs,
     DeletePCs
<1>3. NamedRowsAreInserted /\ SentRequestsAreQueued
  BY <1>1 DEF NamedRowsAreInserted, SentRequestsAreQueued
<1>4. SentToQueueIsQueued
  BY <1>1 DEF SentToQueueIsQueued, CreateIsQueued, DeleteIsQueued, Live
<1>5. QED
  BY <1>2, <1>3, <1>4 DEF QueueInv

LEMMA StepQueueInv == TypeOK /\ QueueInv /\ [Next]_vars => TypeOK' /\ QueueInv'
<1> SUFFICES ASSUME TypeOK, QueueInv, [Next]_vars
             PROVE  TypeOK' /\ QueueInv'
  OBVIOUS
<1>1. TypeOK' /\ JobsHoldMessages'
  BY StepTypeOK DEF QueueInv
<1>2. JobKindsMatch' /\ NamedRowsAreInserted'
  BY StepJobKinds, StepNamedRows DEF QueueInv
<1>3. SentRequestsAreQueued' /\ AcksAreLate' /\ SentToQueueIsQueued'
  BY StepSentRequests, StepAcks, StepSentToQueue
<1>4. QED
  BY <1>1, <1>2, <1>3 DEF QueueInv

\* No message of a row that waits for the queue is lost or acknowledged too
\* early: sendToCreateQueue and sendToDeleteQueue put the message before
\* finishQueueSending, and the consumers commit before they acknowledge.
THEOREM QueueInvariant == Spec => [](TypeOK /\ QueueInv)
<1>1. Init => TypeOK /\ QueueInv
  BY InitTypeOK, InitQueueInv
<1>2. TypeOK /\ QueueInv /\ [Next]_vars => TypeOK' /\ QueueInv'
  BY StepQueueInv
<1>3. QED
  BY <1>1, <1>2, PTL DEF Spec

\* Every row that says it was sent to the queue has its message there.
THEOREM NoStrandedRow == Spec => []SentToQueueIsQueued
<1>1. TypeOK /\ QueueInv => SentToQueueIsQueued
  BY DEF QueueInv
<1>2. QED
  BY <1>1, QueueInvariant, PTL

\* The commit state of a row only moves forward, whatever the order in which
\* requests and consumers write it, and a soft-deleted row stays deleted.
THEOREM ForwardOnly == Spec => CommitStateMovesForward
<1>1. TypeOK /\ QueueInv /\ [Next]_vars => [\A r \in Rows : MovesForward(r)]_vars
  BY RowsMoveForward DEF QueueInv
<1>2. QED
  BY <1>1, QueueInvariant, PTL DEF Spec, CommitStateMovesForward

(***************************************************************************)
(* Who writes what                                                         *)
(***************************************************************************)

\* A handler moves by its own steps only, and then no other one moves.
LEMMA WhoMovesJobs ==
  ASSUME TypeOK, [Next]_vars, NEW c \in Consumers, job'[c] # job[c]
  PROVE  ConsumerStep(c) /\ \A d \in Consumers : d # c => job'[d] = job[d]
<1>1. job' # job
  OBVIOUS
<1>2. PICK d \in Consumers : ConsumerStep(d)
  BY <1>1 DEF Next, RequestStep, CreateRequest, DeleteRequest,
     CheckSubscription, InsertRepo, SendToCreateQueue, FinishCreate,
     FinishDelete, FinishQueueSending, StartDelete, SendToDeleteQueue,
     RequestFails, UnlinkProvider, AcceptInvitation, AnalysisLaunched, vars
<1>3. \A e \in Consumers : e # d => job'[e] = job[e]
  BY <1>2 DEF TypeOK, ConsumerStep, JobProgress, ReceiveCreate, ReceiveDelete,
     StartJob, Goto, CreateHook, AddCollaborator, PutInvite, CommitCreated,
     PermanentError, MarkRepoForRollback, RollbackRepo,
     CreateRepoAnalysisStatus, PutLaunch, CommitDone, DeleteHook,
     RemoveCollaborator, CommitDeleted, AckMessage, JobFails
<1>4. QED
  BY <1>2, <1>3

\* The handlers' writes of a row's commit state
Commits(c) ==
  \/ CommitCreated(c)
  \/ MarkRepoForRollback(c)
  \/ RollbackRepo(c)
  \/ CommitDone(c)
  \/ CommitDeleted(c)

\* The commit state of a row is written by the handler of one of its messages,
\* or by a request, which inserts the row, begins its deletion or records that
\* its message was sent.
LEMMA WhoWritesState ==
  ASSUME TypeOK, [Next]_vars, NEW r \in Rows, commitState'[r] # commitState[r]
  PROVE  \/ \E c \in Consumers : Commits(c) /\ JobRow(c) = r
         \/ <<commitState[r], commitState'[r]>> \in
              {<<"none", "create/init">>,
               <<"create/init", "create/sent_to_queue">>,
               <<"create/done", "delete/init">>,
               <<"delete/init", "delete/sent_to_queue">>}
<1>1. commitState' # commitState
  OBVIOUS
<1>2. ASSUME NEW q \in Requests, RequestStep(q)
      PROVE  <<commitState[r], commitState'[r]>> \in
               {<<"none", "create/init">>,
                <<"create/init", "create/sent_to_queue">>,
                <<"create/done", "delete/init">>,
                <<"delete/init", "delete/sent_to_queue">>}
  <2>1. CASE InsertRepo(q)
    BY <2>1 DEF InsertRepo, TypeOK
  <2>2. CASE FinishCreate(q)
    BY <2>2 DEF FinishCreate, FinishQueueSending, TypeOK
  <2>3. CASE FinishDelete(q)
    BY <2>3 DEF FinishDelete, FinishQueueSending, TypeOK
  <2>4. CASE StartDelete(q)
    BY <2>4 DEF StartDelete, TypeOK
  <2>5. QED
    BY <1>1, <1>2, <2>1, <2>2, <2>3, <2>4
    DEF RequestStep, CreateRequest, DeleteRequest, CheckSubscription,
        SendToCreateQueue, SendToDeleteQueue, RequestFails, rowVars
<1>3. ASSUME NEW c \in Consumers, ConsumerStep(c)
      PROVE  Commits(c) /\ JobRow(c) = r
  <2>1. Commits(c)
    BY <1>1, <1>3 DEF ConsumerStep, JobProgress, Commits, ReceiveCreate,
       ReceiveDelete, CreateHook, AddCollaborator, PutInvite, PermanentError,
       CreateRepoAnalysisStatus, PutLaunch, DeleteHook, RemoveCollaborator,
       AckMessage, JobFails, rowVars
  <2>2. \E s : commitState' = [commitState EXCEPT ![JobRow(c)] = s]
    BY <2>1 DEF Commits, CommitCreated, MarkRepoForRollback, RollbackRepo,
       CommitDone, CommitDeleted
  <2>3. QED
    BY <2>1, <2>2 DEF TypeOK
<1>4. QED
  BY <1>1, <1>2, <1>3 DEF Next, UnlinkProvider, AcceptInvitation,
     AnalysisLaunched, vars, rowVars

\* A webhook is installed by a creator and removed by a deleter.
LEMMA WhoWritesHooks ==
  ASSUME TypeOK, [Next]_vars, NEW r \in Rows, hooks'[r] # hooks[r]
  PROVE  \E c \in Consumers :
           JobRow(c) = r /\ (CreateHook(c) \/ DeleteHook(c))
<1>1. hooks' # hooks
  OBVIOUS
<1>2. PICK c \in Consumers : CreateHook(c) \/ DeleteHook(c)
  BY <1>1 DEF Next, RequestStep, CreateRequest, DeleteRequest,
     CheckSubscription, InsertRepo, SendToCreateQueue, FinishCreate,
     FinishDelete, FinishQueueSending, StartDelete, SendToDeleteQueue,
     RequestFails, ConsumerStep, JobProgress, ReceiveCreate, ReceiveDelete,
     AddCollaborator, PutInvite, CommitCreated, PermanentError,
     MarkRepoForRollback, RollbackRepo, CreateRepoAnalysisStatus, PutLaunch,
     CommitDone, RemoveCollaborator, CommitDeleted, AckMessage, JobFails,
     UnlinkProvider, AcceptInvitation, AnalysisLaunched, vars, providerVars
<1>3. \E S : hooks' = [hooks EXCEPT ![JobRow(c)] = S]
  BY <1>1, <1>2 DEF CreateHook, DeleteHook
<1>4. QED
  BY <1>2, <1>3 DEF TypeOK

\* Only a deleter is told that its row's webhook is not there.
LEMMA WhoWritesDenied ==
  ASSUME TypeOK, [Next]_vars, denied' # denied
  PROVE  \E c \in Consumers : DeleteHook(c)
BY DEF Next, RequestStep, CreateRequest, DeleteRequest,
   CheckSubscription, InsertRepo, SendToCreateQueue, FinishCreate,
   FinishDelete, FinishQueueSending, StartDelete, SendToDeleteQueue,
   RequestFails, ConsumerStep, JobProgress, ReceiveCreate, ReceiveDelete,
   CreateHook, AddCollaborator, PutInvite, CommitCreated, PermanentError,
   MarkRepoForRollback, RollbackRepo, CreateRepoAnalysisStatus, PutLaunch,
   CommitDone, RemoveCollaborator, CommitDeleted, AckMessage, JobFails,
   UnlinkProvider, AcceptInvitation, AnalysisLaunched, vars, providerVars

\* The id of the webhook is written with the step to created_repo.
LEMMA WhoWritesHookID ==
  ASSUME TypeOK, [Next]_vars, NEW r \in Rows,
         providerHookID'[r] # providerHookID[r]
  PROVE  \E c \in Consumers : CommitCreated(c) /\ JobRow(c) = r
<1>1. providerHookID' # providerHookID
  OBVIOUS
<1>2. PICK c \in Consumers : CommitCreated(c)
  BY <1>1 DEF Next, RequestStep, CreateRequest, DeleteRequest,
     CheckSubscription, InsertRepo, SendToCreateQueue, FinishCreate,
     FinishDelete, FinishQueueSending, StartDelete, SendToDeleteQueue,
     RequestFails, ConsumerStep, JobProgress, ReceiveCreate, ReceiveDelete,
     CreateHook, DeleteHook, AddCollaborator, PutInvite, PermanentError,
     MarkRepoForRollback, RollbackRepo, CreateRepoAnalysisStatus, PutLaunch,
     CommitDone, RemoveCollaborator, CommitDeleted, AckMessage, JobFails,
     UnlinkProvider, AcceptInvitation, AnalysisLaunched, vars, rowVars
<1>3. QED
  BY <1>2 DEF CommitCreated, TypeOK

\* The analysis status of a row is made by its creator and moved on by the
\* launcher; launches are never taken back.
LEMMA WhoWritesAnalysis ==
  ASSUME TypeOK, [Next]_vars, NEW r \in Rows
  PROVE  /\ r \in launched => r \in launched'
         /\ analysisStatus'[r] # analysisStatus[r]
            => \/ /\ analysisStatus[r] = "pending"
                  /\ analysisStatus'[r] = "launched"
               \/ /\ analysisStatus[r] = "none"
                  /\ \E c \in Consumers :
                       CreateRepoAnalysisStatus(c) /\ JobRow(c) = r
<1>1. CASE UNCHANGED analysisVars
  BY <1>1 DEF analysisVars
<1>2. ASSUME NEW c \in Consumers, CreateRepoAnalysisStatus(c)
      PROVE  /\ launched' = launched
             /\ analysisStatus'[r] # analysisStatus[r]
                => analysisStatus[r] = "none" /\ JobRow(c) = r
  BY <1>2 DEF CreateRepoAnalysisStatus, TypeOK
<1>3. ASSUME NEW c \in Consumers, PutLaunch(c)
      PROVE  launched \subseteq launched' /\ analysisStatus' = analysisStatus
  BY <1>3 DEF PutLaunch
<1>4. ASSUME NEW s \in Rows, AnalysisLaunched(s)
      PROVE  /\ launched' = launched
             /\ analysisStatus'[r] # analysisStatus[r]
                => /\ analysisStatus[r] = "pending"
                   /\ analysisStatus'[r] = "launched"
  BY <1>4 DEF AnalysisLaunched, TypeOK
<1>5. QED
  BY <1>1, <1>2, <1>3, <1>4 DEF Next, RequestStep, CreateRequest,
     DeleteRequest, CheckSubscription, InsertRepo, SendToCreateQueue,
     FinishCreate, FinishDelete, FinishQueueSending, StartDelete,
     SendToDeleteQueue, RequestFails, ConsumerStep, JobProgress, ReceiveCreate,
     ReceiveDelete, CreateHook, DeleteHook, AddCollaborator, PutInvite,
     CommitCreated, PermanentError, MarkRepoForRollback, RollbackRepo,
     CommitDone, RemoveCollaborator, CommitDeleted, AckMessage, JobFails,
     UnlinkProvider, AcceptInvitation, vars

(***************************************************************************)
(* What handlers know of their rows                                        *)
(***************************************************************************)

\* The steps of the creator before the row knows of them
BeforeCommit == {"create_hook", "add_collaborator", "put_invite",
                 "commit_created", "mark_rollback"}
AfterCommit == {"status", "launch", "commit_done"}

\* While a handler runs, its row stays where its steps have left it; once a
\* deletion has begun it stays in a state of the deletion.
HandlersKnowRows ==
  \A c \in Consumers :
    LET s == commitState[JobRow(c)] IN
    /\ job[c].pc \in BeforeCommit => s \in CreateNotStarted
    /\ job[c].pc \in AfterCommit => s = "create/created_repo"
    /\ job[c].pc \in DeletePCs => s \in DeleteStates

\* The webhook a handler carries along, and the one its row names, exist.
HooksAreKnown ==
  /\ \A c \in Consumers :
       /\ job[c].pc \in {"add_collaborator", "put_invite", "commit_created"}
          => job[c].hook \in hooks[JobRow(c)]
       /\ job[c].pc = "delete_hook" => job[c].hook = providerHookID[JobRow(c)]
  /\ ConnectedHasHook

\* A provider that refuses a second webhook keeps one per row: the one that the
\* row of a deletion names, and none once a deleter has removed it, or was told
\* that it is not there.
OneHook ==
  /\ \A r \in Rows : \A g, h \in hooks[r] : g = h
  /\ \A r \in Rows :
       commitState[r] \in DeleteStates => hooks[r] \subseteq {providerHookID[r]}
  /\ \A c \in Consumers :
       job[c].pc \in {"remove_collaborator", "commit_deleted"}
       => HookIsGone(JobRow(c))
  /\ DisconnectedHasNoHook

\* The row has an analysis status, which is pending only until its launch.
Analyzed(r) ==
  /\ analysisStatus[r] # "none"
  /\ analysisStatus[r] = "pending" => r \in launched

\* A creator has made the status before it launches, and launched before it
\* calls the row done.
AnalysesAreLaunched ==
  /\ \A c \in Consumers :
       /\ job[c].pc = "launch" => analysisStatus[JobRow(c)] # "none"
       /\ job[c].pc = "commit_done" => Analyzed(JobRow(c))
  /\ DoneIsAnalyzed

\* One row of a repository is live, which is neither deleted nor rolled back.
OneLive ==
  /\ \A r, s \in Rows : Live(r) /\ Live(s) => r = s
  /\ \A r \in Rows :
       commitState[r] \in {"create/rollback/done", "delete/done"} => deleted[r]

\* Two handlers at steps of the creator have different rows.
LEMMA CreatorsAreAlone ==
  ASSUME TypeOK, JobsHoldMessages, JobKindsMatch,
         NEW c \in Consumers, NEW d \in Consumers, c # d,
         job[c].pc \in CreatePCs, job[d].pc \in CreatePCs
  PROVE  JobRow(c) # JobRow(d)
BY DEF JobsHoldMessages, JobKindsMatch, CreatePCs

\* The row that a handler's message names
LEMMA JobRowTyped ==
  ASSUME TypeOK, NEW c \in Consumers
  PROVE  JobRow(c) \in Rows
BY DEF TypeOK, JobRow, Messages, CreateMsg, DeleteMsg

\* A step that commits moves its handler.
LEMMA CommitMovesJob ==
  ASSUME TypeOK, NEW c \in Consumers, Commits(c)
  PROVE  /\ job'[c].pc # job[c].pc
         /\ job[c].pc \in CreatePCs \/ commitState[JobRow(c)] \in DeleteNotDone
BY DEF TypeOK, Commits, CommitCreated, MarkRepoForRollback, RollbackRepo,
   CommitDone, CommitDeleted, JobAt, Goto, CreatePCs

LEMMA StepHandlersKnowRows ==
  ASSUME TypeOK, QueueInv, HandlersKnowRows, [Next]_vars
  PROVE  HandlersKnowRows'
<1> USE DEF QueueInv
<1> DEFINE Knows(c) ==
      LET s == commitState[JobRow(c)] IN
      /\ job[c].pc \in BeforeCommit => s \in CreateNotStarted
      /\ job[c].pc \in AfterCommit => s = "create/created_repo"
      /\ job[c].pc \in DeletePCs => s \in DeleteStates
<1>1. SUFFICES ASSUME NEW c \in Consumers
               PROVE  Knows(c)'
  BY DEF HandlersKnowRows
<1>2. JobRow(c) \in Rows /\ Knows(c)
  BY JobRowTyped DEF HandlersKnowRows
<1>3. CASE job'[c] = job[c]
  <2>1. JobRow(c)' = JobRow(c)
    BY <1>3 DEF JobRow
  <2>2. CASE commitState'[JobRow(c)] = commitState[JobRow(c)]
    BY <1>2, <1>3, <2>1, <2>2
  <2>3. CASE job[c].pc \in DeletePCs
    <3>1. /\ MovesForward(JobRow(c))
          /\ commitState[JobRow(c)] \in DeleteStates
      BY <1>2, <2>3, RowsMoveForward
    <3>2. commitState'[JobRow(c)] \in DeleteStates
      BY <3>1 DEF MovesForward, Successors, DeleteStates, CommitStates,
         CreateStates
    <3>3. QED
      BY <1>3, <2>1, <2>3, <3>2 DEF DeletePCs, BeforeCommit, AfterCommit
  <2>4. CASE /\ commitState'[JobRow(c)] # commitState[JobRow(c)]
             /\ job[c].pc \in BeforeCommit \cup AfterCommit
    <3>1. /\ job[c].pc \in CreatePCs
          /\ commitState[JobRow(c)] \notin DeleteNotDone
      BY <1>2, <2>4 DEF CreatePCs, BeforeCommit, AfterCommit,
         CreateNotStarted, DeleteNotDone
    <3>2. ASSUME NEW d \in Consumers, Commits(d), JobRow(d) = JobRow(c)
          PROVE  FALSE
      <4>1. d # c
        BY <1>3, <3>2, CommitMovesJob
      <4>2. job[d].pc \in CreatePCs
        BY <3>1, <3>2, CommitMovesJob
      <4>3. QED
        BY <3>1, <3>2, <4>1, <4>2, CreatorsAreAlone
    <3>3. <<commitState[JobRow(c)], commitState'[JobRow(c)]>> \in
              {<<"none", "create/init">>,
               <<"create/init", "create/sent_to_queue">>,
               <<"create/done", "delete/init">>,
               <<"delete/init", "delete/sent_to_queue">>}
      BY <1>2, <2>4, <3>2, WhoWritesState
    <3>4. commitState[JobRow(c)] \in
            CreateNotStarted \cup {"create/created_repo"}
      BY <1>2, <2>4
    <3>5. /\ commitState[JobRow(c)] = "create/init"
          /\ commitState'[JobRow(c)] = "create/sent_to_queue"
      BY <3>3, <3>4 DEF CreateNotStarted
    <3>6. job[c].pc \in BeforeCommit /\ job[c].pc \notin DeletePCs
      BY <1>2, <2>4, <3>5 DEF BeforeCommit, DeletePCs
    <3>7. QED
      BY <1>3, <2>1, <3>5, <3>6
      DEF BeforeCommit, AfterCommit, DeletePCs, CreateNotStarted
  <2>5. CASE job[c].pc \notin BeforeCommit \cup AfterCommit \cup DeletePCs
    BY <1>3, <2>5
  <2>6. QED
    BY <2>2, <2>3, <2>4, <2>5
<1>4. CASE job'[c] # job[c]
  <2>0. ConsumerStep(c)
    BY <1>4, WhoMovesJobs
  <2> USE DEF BeforeCommit, AfterCommit, DeletePCs
  <2>1. ASSUME NEW r \in Rows, ReceiveCreate(c, r)
        PROVE  Knows(c)'
    <3>1. /\ job'[c].pc \in {"create_hook", "status", "ack", "rollback"}
          /\ job'[c].pc = "create_hook" => commitState[r] \in CreateNotStarted
          /\ job'[c].pc = "status" => commitState[r] = "create/created_repo"
          /\ JobRow(c)' = r
      BY <2>1 DEF ReceiveCreate, StartJob, FirstCreateStep, TypeOK,
         CreateNotStarted, JobRow, CreateMsg
    <3>2. commitState' = commitState
      BY <2>1 DEF ReceiveCreate, rowVars
    <3>3. QED
      BY <3>1, <3>2
  <2>2. ASSUME NEW r \in Rows, NEW u \in Users, ReceiveDelete(c, r, u)
        PROVE  Knows(c)'
    <3>1. /\ job'[c].pc = "delete_hook"
          /\ JobRow(c)' = r
          /\ commitState[r] \in DeleteNotDone
          /\ commitState' = commitState
      BY <2>2 DEF ReceiveDelete, StartJob, TypeOK, JobRow, DeleteMsg, rowVars
    <3>2. QED
      BY <3>1 DEF DeleteNotDone, DeleteStates
  <2>3. ASSUME NEW pc, Goto(c, pc)
        PROVE  job'[c].pc = pc /\ JobRow(c)' = JobRow(c)
    BY <2>3 DEF Goto, TypeOK, JobRow
  <2>4. CASE CreateHook(c)
    <3>1. /\ job'[c].pc \in {"add_collaborator", "commit_created"}
          /\ JobRow(c)' = JobRow(c)
      BY <2>4 DEF CreateHook, AfterHook, TypeOK, JobRow
    <3>2. commitState' = commitState /\ job[c].pc = "create_hook"
      BY <2>4 DEF CreateHook, rowVars, JobAt
    <3>3. QED
      BY <1>2, <3>1, <3>2
  <2>5. CASE AddCollaborator(c) \/ PutInvite(c) \/ PermanentError(c)
    <3>1. /\ job[c].pc \in BeforeCommit
          /\ job'[c].pc \in {"put_invite", "commit_created", "mark_rollback"}
          /\ JobRow(c)' = JobRow(c)
          /\ commitState' = commitState
      BY <2>3, <2>5 DEF AddCollaborator, PutInvite, PermanentError, JobAt,
         rowVars
    <3>2. QED
      BY <1>2, <3>1
  <2>6. CASE CommitCreated(c)
    <3>1. /\ job'[c].pc = "status"
          /\ JobRow(c)' = JobRow(c)
          /\ commitState'[JobRow(c)] = "create/created_repo"
      BY <1>2, <2>3, <2>6 DEF CommitCreated, TypeOK
    <3>2. QED
      BY <3>1
  <2>7. CASE MarkRepoForRollback(c) \/ RollbackRepo(c) \/ CommitDone(c)
               \/ CommitDeleted(c)
    <3>1. job'[c].pc \in {"rollback", "ack"}
      BY <2>3, <2>7 DEF MarkRepoForRollback, RollbackRepo, CommitDone,
         CommitDeleted
    <3>2. QED
      BY <3>1
  <2>8. CASE CreateRepoAnalysisStatus(c) \/ PutLaunch(c)
    <3>1. /\ job[c].pc \in AfterCommit
          /\ job'[c].pc \in {"launch", "commit_done"}
          /\ JobRow(c)' = JobRow(c)
          /\ commitState' = commitState
      BY <2>3, <2>8 DEF CreateRepoAnalysisStatus, PutLaunch, JobAt, rowVars
    <3>2. QED
      BY <1>2, <3>1
  <2>9. CASE DeleteHook(c) \/ RemoveCollaborator(c)
    <3>1. /\ job[c].pc \in DeletePCs
          /\ job'[c].pc \in {"remove_collaborator", "commit_deleted"}
          /\ JobRow(c)' = JobRow(c)
          /\ commitState' = commitState
      BY <2>3, <2>9 DEF DeleteHook, RemoveCollaborator, JobAt, rowVars
    <3>2. QED
      BY <1>2, <3>1
  <2>10. CASE AckMessage(c) \/ JobFails(c)
    <3>1. job'[c].pc = "idle"
      BY <2>10 DEF AckMessage, JobFails, NoJob, TypeOK
    <3>2. QED
      BY <3>1
  <2>11. QED
    BY <2>0, <2>1, <2>2, <2>4, <2>5, <2>6, <2>7, <2>8, <2>9, <2>10
    DEF ConsumerStep, JobProgress
<1>5. QED
  BY <1>3, <1>4

(***************************************************************************)
(* Webhooks                                                                *)
(***************************************************************************)

\* Outside of its deletion a row loses no webhook, and once its creation is
\* committed it gets none.
LEMMA HooksKept ==
  ASSUME TypeOK, QueueInv, HandlersKnowRows, [Next]_vars, NEW r \in Rows
  PROVE  /\ commitState[r] \notin DeleteStates => hooks[r] \subseteq hooks'[r]
         /\ commitState[r] \notin CreateNotStarted => hooks'[r] \subseteq hooks[r]
<1>1. CASE hooks'[r] = hooks[r]
  BY <1>1
<1>2. ASSUME NEW c \in Consumers, JobRow(c) = r, CreateHook(c)
      PROVE  hooks[r] \subseteq hooks'[r] /\ commitState[r] \in CreateNotStarted
  BY <1>2 DEF CreateHook, TypeOK, HandlersKnowRows, JobAt, BeforeCommit
<1>3. ASSUME NEW c \in Consumers, JobRow(c) = r, DeleteHook(c)
      PROVE  hooks'[r] \subseteq hooks[r] /\ commitState[r] \in DeleteStates
  BY <1>3 DEF DeleteHook, TypeOK, HandlersKnowRows, JobAt, DeletePCs
<1>4. QED
  BY <1>1, <1>2, <1>3, WhoWritesHooks
     DEF CreateNotStarted, DeleteStates

\* From created_repo on the row keeps the id of its webhook.
LEMMA HookIDKept ==
  ASSUME TypeOK, [Next]_vars, NEW r \in Rows,
         commitState[r] \notin CreateNotStarted
  PROVE  providerHookID'[r] = providerHookID[r]
BY WhoWritesHookID DEF CommitCreated

\* A row reaches created_repo or done with the webhook that its handler made.
LEMMA StepConnectedHasHook ==
  ASSUME TypeOK, QueueInv, HandlersKnowRows, HooksAreKnown, [Next]_vars
  PROVE  ConnectedHasHook'
<1> DEFINE Connected == {"create/created_repo", "create/done"}
<1> SUFFICES ASSUME NEW r \in Rows, commitState'[r] \in Connected
             PROVE  providerHookID'[r] \in hooks'[r]
  BY DEF ConnectedHasHook
<1>1. CASE commitState[r] \in Connected
  <2>1. providerHookID[r] \in hooks[r]
    BY <1>1 DEF HooksAreKnown, ConnectedHasHook
  <2>2. hooks[r] \subseteq hooks'[r] /\ providerHookID'[r] = providerHookID[r]
    BY <1>1, HooksKept, HookIDKept DEF DeleteStates, CreateNotStarted
  <2>3. QED
    BY <2>1, <2>2
<1>2. CASE commitState[r] \notin Connected
  <2>1. PICK c \in Consumers : Commits(c) /\ JobRow(c) = r
    BY <1>2, WhoWritesState
  <2>2. CommitCreated(c)
    BY <1>2, <2>1 DEF Commits, MarkRepoForRollback, RollbackRepo, CommitDone,
       CommitDeleted, TypeOK
  <2>3. job[c].hook \in hooks[r]
    BY <2>1, <2>2 DEF CommitCreated, JobAt, HooksAreKnown
  <2>4. providerHookID'[r] = job[c].hook /\ hooks' = hooks
    BY <2>1, <2>2 DEF CommitCreated, TypeOK, providerVars
  <2>5. QED
    BY <2>3, <2>4
<1>3. QED
  BY <1>1, <1>2

LEMMA StepHooksAreKnown ==
  ASSUME TypeOK, QueueInv, HandlersKnowRows, HooksAreKnown, [Next]_vars
  PROVE  HooksAreKnown'
<1> DEFINE Installed(c) ==
             job[c].pc \in {"add_collaborator", "put_invite", "commit_created"}
             => job[c].hook \in hooks[JobRow(c)]
           Named(c) ==
             job[c].pc = "delete_hook"
             => job[c].hook = providerHookID[JobRow(c)]
<1>1. ASSUME NEW c \in Consumers
      PROVE  Installed(c)' /\ Named(c)'
  <2>1. Installed(c) /\ Named(c) /\ JobRow(c) \in Rows
    BY JobRowTyped DEF HooksAreKnown
  <2>2. CASE job'[c] = job[c]
    <3>1. JobRow(c)' = JobRow(c)
      BY <2>2 DEF JobRow
    <3>2. Installed(c)'
      <4>1. job[c].pc \in {"add_collaborator", "put_invite", "commit_created"}
            => commitState[JobRow(c)] \notin DeleteStates
        BY DEF HandlersKnowRows, BeforeCommit, CreateNotStarted, DeleteStates
      <4>2. QED
        BY <2>1, <2>2, <3>1, <4>1, HooksKept
    <3>3. Named(c)'
      <4>1. job[c].pc = "delete_hook"
            => commitState[JobRow(c)] \notin CreateNotStarted
        BY DEF HandlersKnowRows, DeletePCs, CreateNotStarted, DeleteStates
      <4>2. QED
        BY <2>1, <2>2, <3>1, <4>1, HookIDKept
    <3>4. QED
      BY <3>2, <3>3
  <2>3. CASE job'[c] # job[c]
    <3>0. ConsumerStep(c)
      BY <2>3, WhoMovesJobs
    <3>1. ASSUME NEW r \in Rows, ReceiveCreate(c, r)
          PROVE  job'[c].pc \in {"create_hook", "status", "ack", "rollback"}
      BY <3>1 DEF ReceiveCreate, StartJob, FirstCreateStep, TypeOK,
         CreateNotStarted
    <3>2. ASSUME NEW r \in Rows, NEW u \in Users, ReceiveDelete(c, r, u)
          PROVE  Installed(c)' /\ Named(c)'
      BY <3>2 DEF ReceiveDelete, StartJob, TypeOK, JobRow, DeleteMsg, rowVars
    <3>3. CASE CreateHook(c)
      <4>1. PICK h : /\ hooks' = [hooks EXCEPT ![JobRow(c)] = @ \cup {h}]
                     /\ job' = [job EXCEPT ![c].pc = AfterHook, ![c].hook = h]
        BY <3>3 DEF CreateHook
      <4>2. /\ job'[c].pc \in {"add_collaborator", "commit_created"}
            /\ job'[c].hook = h
            /\ JobRow(c)' = JobRow(c)
        BY <4>1 DEF TypeOK, JobRow, AfterHook
      <4>3. h \in hooks'[JobRow(c)]
        BY <2>1, <4>1 DEF TypeOK
      <4>4. QED
        BY <4>2, <4>3
    <3>4. ASSUME NEW pc, Goto(c, pc)
          PROVE  /\ job'[c].pc = pc /\ job'[c].hook = job[c].hook
                 /\ JobRow(c)' = JobRow(c)
      BY <3>4 DEF Goto, TypeOK, JobRow
    <3>5. CASE AddCollaborator(c) \/ PutInvite(c)
      <4>1. /\ job[c].pc \in {"add_collaborator", "put_invite"}
            /\ job'[c].pc \in {"put_invite", "commit_created"}
            /\ job'[c].hook = job[c].hook /\ JobRow(c)' = JobRow(c)
            /\ hooks' = hooks
        BY <3>4, <3>5 DEF AddCollaborator, PutInvite, JobAt
      <4>2. QED
        BY <2>1, <4>1
    <3>6. CASE AckMessage(c) \/ JobFails(c)
      BY <3>6 DEF AckMessage, JobFails, NoJob, TypeOK
    <3>7. CASE \/ CommitCreated(c) \/ PermanentError(c)
               \/ MarkRepoForRollback(c) \/ RollbackRepo(c)
               \/ CreateRepoAnalysisStatus(c) \/ PutLaunch(c)
               \/ CommitDone(c) \/ DeleteHook(c)
               \/ RemoveCollaborator(c) \/ CommitDeleted(c)
      <4>1. job'[c].pc \in {"status", "mark_rollback", "rollback", "ack",
                            "launch", "commit_done", "remove_collaborator",
                            "commit_deleted"}
        BY <3>4, <3>7 DEF CommitCreated, PermanentError, MarkRepoForRollback,
           RollbackRepo, CreateRepoAnalysisStatus, PutLaunch, CommitDone,
           DeleteHook, RemoveCollaborator, CommitDeleted
      <4>2. QED
        BY <4>1
    <3>8. QED
      BY <3>0, <3>1, <3>2, <3>3, <3>5, <3>6, <3>7
      DEF ConsumerStep, JobProgress
  <2>4. QED
    BY <2>2, <2>3
<1>2. QED
  BY <1>1, StepConnectedHasHook DEF HooksAreKnown

\* No webhook of an earlier run is found: the compared URLs are never equal.
LEMMA NothingInstalled ==
  ASSUME NEW r
  PROVE  InstalledHooks(r) = {}
<1>1. \A s, h : ObjectURL(s, h) # ConfigURL(r)
  BY DEF ObjectURL, ConfigURL
<1>2. QED
  BY <1>1 DEF InstalledHooks, ListRepoHooks

\* What a deleter leaves of its row's webhooks
LEMMA AfterDeleteHook ==
  ASSUME TypeOK, HandlersKnowRows, HooksAreKnown, OneHook,
         NEW c \in Consumers, DeleteHook(c), NEW r \in Rows, r = JobRow(c)
  PROVE  /\ commitState[r] \in DeleteStates
         /\ \/ hooks' = [hooks EXCEPT ![r] = {}] /\ denied' = denied \ {r}
            \/ /\ hooks[r] # {}
               /\ hooks' = hooks
               /\ denied' = denied \cup {r}
<1>1. commitState[r] \in DeleteStates
  BY DEF DeleteHook, JobAt, HandlersKnowRows, DeletePCs
<1>2. job[c].hook = providerHookID[r]
  BY DEF DeleteHook, JobAt, HooksAreKnown
<1>3. hooks[r] \ {job[c].hook} = {}
  BY <1>1, <1>2 DEF OneHook
<1>4. CASE /\ hooks' = [hooks EXCEPT ![r] = @ \ {job[c].hook}]
           /\ denied' = denied \ {r}
  <2>1. hooks' = [hooks EXCEPT ![r] = {}]
    BY <1>3, <1>4 DEF TypeOK
  <2>2. QED
    BY <1>1, <1>4, <2>1
<1>5. CASE /\ job[c].hook \in hooks[r]
           /\ denied' = denied \cup {r}
           /\ UNCHANGED hooks
  BY <1>1, <1>5
<1>6. QED
  BY <1>4, <1>5 DEF DeleteHook

\* A webhook that is gone does not come back to a row that is being deleted.
LEMMA HookStaysGone ==
  ASSUME TypeOK, QueueInv, HandlersKnowRows, HooksAreKnown, [Next]_vars,
         OneHook, NEW r \in Rows, commitState[r] \in DeleteStates,
         HookIsGone(r)
  PROVE  HookIsGone(r)'
<1>1. hooks'[r] \subseteq hooks[r]
  BY HooksKept DEF DeleteStates, CreateNotStarted
<1>2. CASE UNCHANGED denied
  BY <1>1, <1>2 DEF HookIsGone
<1>3. CASE denied' # denied
  <2>1. PICK c \in Consumers : DeleteHook(c)
    BY <1>3, WhoWritesDenied
  <2>2. PICK s \in Rows : s = JobRow(c)
    BY JobRowTyped
  <2>3. \/ hooks' = [hooks EXCEPT ![s] = {}] /\ denied' = denied \ {s}
        \/ hooks' = hooks /\ denied' = denied \cup {s}
    BY <2>1, <2>2, AfterDeleteHook
  <2>4. QED
    BY <2>3 DEF HookIsGone, TypeOK
<1>4. QED
  BY <1>2, <1>3

LEMMA StepOneHook ==
  ASSUME TypeOK, QueueInv, HandlersKnowRows, HooksAreKnown, [Next]_vars,
         RejectsDuplicateHook, OneHook
  PROVE  OneHook'
<1>1. ASSUME NEW r \in Rows, NEW g \in hooks'[r], NEW h \in hooks'[r]
      PROVE  g = h
  <2>1. CASE hooks'[r] \subseteq hooks[r]
    BY <1>1, <2>1 DEF OneHook
  <2>2. ASSUME NEW c \in Consumers, CreateHook(c), JobRow(c) = r
        PROVE  g = h
    <3>1. PICK k \in NewHooks(r) : hooks' = [hooks EXCEPT ![r] = @ \cup {k}]
      BY <2>2, NothingInstalled DEF CreateHook
    <3>2. hooks[r] = {}
      BY <3>1 DEF NewHooks
    <3>3. hooks'[r] = {k}
      BY <3>1, <3>2 DEF TypeOK
    <3>4. QED
      BY <1>1, <3>3
  <2>3. ASSUME NEW c \in Consumers, DeleteHook(c), JobRow(c) = r
        PROVE  hooks'[r] \subseteq hooks[r]
    BY <2>3 DEF DeleteHook, TypeOK
  <2>4. QED
    BY <2>1, <2>2, <2>3, WhoWritesHooks
<1>2. ASSUME NEW r \in Rows, commitState'[r] \in DeleteStates
      PROVE  hooks'[r] \subseteq {providerHookID'[r]}
  <2>1. commitState[r] \in DeleteStates \cup {"create/done"}
    BY <1>2, WhoWritesState DEF DeleteStates, DeleteNotDone, Commits,
       CommitCreated, MarkRepoForRollback, RollbackRepo, CommitDone,
       CommitDeleted, TypeOK
  <2>2. hooks[r] \subseteq {providerHookID[r]}
    BY <2>1 DEF OneHook, HooksAreKnown, ConnectedHasHook
  <2>3. /\ hooks'[r] \subseteq hooks[r]
        /\ providerHookID'[r] = providerHookID[r]
    BY <2>1, HooksKept, HookIDKept DEF DeleteStates, CreateNotStarted
  <2>4. QED
    BY <2>2, <2>3
<1>3. ASSUME NEW c \in Consumers,
             job'[c].pc \in {"remove_collaborator", "commit_deleted"}
      PROVE  HookIsGone(JobRow(c))'
  <2>1. PICK r \in Rows : r = JobRow(c)
    BY JobRowTyped
  <2>2. CASE job'[c] = job[c]
    <3>1. JobRow(c)' = r /\ HookIsGone(r)
      BY <1>3, <2>1, <2>2 DEF JobRow, OneHook
    <3>2. commitState[r] \in DeleteStates
      BY <1>3, <2>1, <2>2 DEF HandlersKnowRows, DeletePCs
    <3>3. HookIsGone(r)'
      BY <3>1, <3>2, HookStaysGone
    <3>4. QED
      BY <3>1, <3>3 DEF HookIsGone
  <2>3. CASE job'[c] # job[c]
    <3>1. ConsumerStep(c)
      BY <2>3, WhoMovesJobs
    <3>2. DeleteHook(c) \/ RemoveCollaborator(c)
      <4>1. ASSUME NEW s \in Rows, ReceiveCreate(c, s)
            PROVE  FALSE
        BY <1>3, <4>1 DEF ReceiveCreate, StartJob, FirstCreateStep, TypeOK,
           CreateNotStarted
      <4>2. ASSUME NEW s \in Rows, NEW u \in Users, ReceiveDelete(c, s, u)
            PROVE  FALSE
        BY <1>3, <4>2 DEF ReceiveDelete, StartJob, TypeOK
      <4>3. ASSUME CreateHook(c)
            PROVE  FALSE
        BY <1>3, <4>3 DEF CreateHook, AfterHook, TypeOK
      <4>4. ASSUME AckMessage(c) \/ JobFails(c)
            PROVE  FALSE
        BY <1>3, <4>4 DEF AckMessage, JobFails, NoJob, TypeOK
      <4>5. ASSUME NEW pc, Goto(c, pc)
            PROVE  job'[c].pc = pc
        BY <4>5 DEF Goto, TypeOK
      <4>6. QED
        BY <1>3, <3>1, <4>1, <4>2, <4>3, <4>4, <4>5
        DEF ConsumerStep, JobProgress, AddCollaborator, PutInvite,
            CommitCreated, PermanentError, MarkRepoForRollback, RollbackRepo,
            CreateRepoAnalysisStatus, PutLaunch, CommitDone, CommitDeleted
    <3>3. JobRow(c)' = r
      BY <2>1, <3>2 DEF DeleteHook, RemoveCollaborator, Goto, TypeOK, JobRow
    <3>4. CASE DeleteHook(c)
      <4>1. \/ hooks' = [hooks EXCEPT ![r] = {}]
            \/ denied' = denied \cup {r}
        BY <2>1, <3>4, AfterDeleteHook
      <4>2. QED
        BY <3>3, <4>1 DEF HookIsGone, TypeOK
    <3>5. CASE RemoveCollaborator(c)
      <4>1. HookIsGone(r) /\ UNCHANGED <<hooks, denied>>
        BY <2>1, <3>5 DEF RemoveCollaborator, JobAt, OneHook
      <4>2. QED
        BY <3>3, <4>1 DEF HookIsGone
    <3>6. QED
      BY <3>2, <3>4, <3>5
  <2>4. QED
    BY <2>2, <2>3
<1>4. ASSUME NEW r \in Rows, commitState'[r] = "delete/done"
      PROVE  HookIsGone(r)'
  <2>1. CASE commitState[r] = "delete/done"
    <3>1. HookIsGone(r)
      BY <2>1 DEF OneHook, DisconnectedHasNoHook
    <3>2. QED
      BY <2>1, <3>1, HookStaysGone DEF DeleteStates
  <2>2. CASE commitState[r] # "delete/done"
    <3>1. PICK c \in Consumers : Commits(c) /\ JobRow(c) = r
      BY <1>4, <2>2, WhoWritesState
    <3>2. CommitDeleted(c)
      BY <1>4, <3>1 DEF Commits, MarkRepoForRollback, RollbackRepo,
         CommitDone, CommitCreated, TypeOK
    <3>3. HookIsGone(r) /\ UNCHANGED <<hooks, denied>>
      BY <3>1, <3>2 DEF CommitDeleted, JobAt, OneHook, providerVars
    <3>4. QED
      BY <3>3 DEF HookIsGone
  <2>3. QED
    BY <2>1, <2>2
<1>5. \A c \in Consumers :
        job'[c].pc \in {"remove_collaborator", "commit_deleted"}
        => HookIsGone(JobRow(c))'
  BY <1>3
<1>6. QED
  BY <1>1, <1>2, <1>4, <1>5 DEF OneHook, DisconnectedHasNoHook

(***************************************************************************)
(* Analyses                                                                *)
(***************************************************************************)

\* What was analyzed stays so.
LEMMA StaysAnalyzed ==
  ASSUME TypeOK, [Next]_vars, NEW r \in Rows
  PROVE  /\ analysisStatus[r] # "none" => analysisStatus'[r] # "none"
         /\ Analyzed(r) => Analyzed(r)'
BY WhoWritesAnalysis DEF Analyzed

LEMMA StepAnalysesAreLaunched ==
  ASSUME TypeOK, QueueInv, HandlersKnowRows, AnalysesAreLaunched, [Next]_vars
  PROVE  AnalysesAreLaunched'
<1> DEFINE Going(c) ==
             /\ job[c].pc = "launch" => analysisStatus[JobRow(c)] # "none"
             /\ job[c].pc = "commit_done" => Analyzed(JobRow(c))
<1>1. ASSUME NEW c \in Consumers
      PROVE  Going(c)'
  <2>1. Going(c) /\ JobRow(c) \in Rows
    BY JobRowTyped DEF AnalysesAreLaunched
  <2>2. CASE job'[c] = job[c]
    <3>1. JobRow(c)' = JobRow(c)
      BY <2>2 DEF JobRow
    <3>2. /\ analysisStatus[JobRow(c)] # "none"
             => analysisStatus'[JobRow(c)] # "none"
          /\ Analyzed(JobRow(c)) => Analyzed(JobRow(c))'
      <4>1. ASSUME NEW r \in Rows
            PROVE  /\ analysisStatus[r] # "none" => analysisStatus'[r] # "none"
                   /\ Analyzed(r) => Analyzed(r)'
        BY StaysAnalyzed
      <4>2. QED
        BY <2>1, <3>1, <4>1 DEF Analyzed
    <3>3. QED
      BY <2>1, <2>2, <3>1, <3>2
  <2>3. CASE job'[c] # job[c]
    <3>0. ConsumerStep(c)
      BY <2>3, WhoMovesJobs
    <3>1. ASSUME NEW pc, Goto(c, pc)
          PROVE  job'[c].pc = pc /\ JobRow(c)' = JobRow(c)
      BY <3>1 DEF Goto, TypeOK, JobRow
    <3>2. CASE CreateRepoAnalysisStatus(c)
      <4>1. PICK s \in {"pending", "empty", analysisStatus[JobRow(c)]} :
              /\ s # "none"
              /\ analysisStatus' = [analysisStatus EXCEPT ![JobRow(c)] = s]
              /\ Goto(c, IF s = "pending" THEN "launch" ELSE "commit_done")
        BY <3>2 DEF CreateRepoAnalysisStatus
      <4>2. analysisStatus'[JobRow(c)] = s /\ JobRow(c)' = JobRow(c)
        BY <2>1, <3>1, <4>1 DEF TypeOK
      <4>3. job'[c].pc = IF s = "pending" THEN "launch" ELSE "commit_done"
        BY <3>1, <4>1
      <4>4. QED
        BY <4>1, <4>2, <4>3 DEF Analyzed
    <3>3. CASE PutLaunch(c)
      <4>1. /\ job'[c].pc = "commit_done" /\ JobRow(c)' = JobRow(c)
            /\ JobRow(c) \in launched' /\ analysisStatus' = analysisStatus
            /\ analysisStatus[JobRow(c)] # "none"
        BY <2>1, <3>1, <3>3 DEF PutLaunch, JobAt
      <4>2. QED
        BY <4>1 DEF Analyzed
    <3>4. ASSUME job'[c].pc \notin {"launch", "commit_done"}
          PROVE  Going(c)'
      BY <3>4
    <3>5. ASSUME NEW r \in Rows, ReceiveCreate(c, r)
          PROVE  Going(c)'
      BY <3>4, <3>5 DEF ReceiveCreate, StartJob, FirstCreateStep, TypeOK,
         CreateNotStarted
    <3>6. ASSUME NEW r \in Rows, NEW u \in Users, ReceiveDelete(c, r, u)
          PROVE  Going(c)'
      BY <3>4, <3>6 DEF ReceiveDelete, StartJob, TypeOK
    <3>7. CASE CreateHook(c)
      BY <3>4, <3>7 DEF CreateHook, AfterHook, TypeOK
    <3>8. CASE AckMessage(c) \/ JobFails(c)
      BY <3>4, <3>8 DEF AckMessage, JobFails, NoJob, TypeOK
    <3>9. QED
      BY <3>0, <3>1, <3>2, <3>3, <3>4, <3>5, <3>6, <3>7, <3>8
      DEF ConsumerStep, JobProgress, AddCollaborator, PutInvite,
          CommitCreated, PermanentError, MarkRepoForRollback, RollbackRepo,
          CommitDone, DeleteHook, RemoveCollaborator, CommitDeleted
  <2>4. QED
    BY <2>2, <2>3
<1>2. ASSUME NEW r \in Rows,
             commitState'[r] \in {"create/done"} \cup DeleteStates
      PROVE  Analyzed(r)'
  <2>1. CASE commitState[r] \in {"create/done"} \cup DeleteStates
    <3>1. Analyzed(r)
      BY <2>1 DEF AnalysesAreLaunched, DoneIsAnalyzed, Analyzed
    <3>2. QED
      BY <3>1, StaysAnalyzed
  <2>2. CASE commitState[r] \notin {"create/done"} \cup DeleteStates
    <3>1. PICK c \in Consumers : Commits(c) /\ JobRow(c) = r
      BY <1>2, <2>2, WhoWritesState DEF DeleteStates
    <3>2. CommitDone(c)
      BY <1>2, <2>2, <3>1 DEF Commits, MarkRepoForRollback, RollbackRepo,
         CommitCreated, CommitDeleted, DeleteNotDone, DeleteStates, TypeOK
    <3>3. Analyzed(r)
      BY <3>1, <3>2 DEF CommitDone, JobAt, AnalysesAreLaunched
    <3>4. QED
      BY <3>3, StaysAnalyzed
  <2>3. QED
    BY <2>1, <2>2
<1>3. DoneIsAnalyzed'
  BY <1>2 DEF DoneIsAnalyzed, Analyzed
<1>4. QED
  BY <1>1, <1>3 DEF AnalysesAreLaunched

(***************************************************************************)
(* One live row                                                            *)
(***************************************************************************)

\* A row becomes live when it is inserted, which the unique index allows only
\* while no row is.
LEMMA WhoIsInserted ==
  ASSUME TypeOK, NamedRowsAreInserted, [Next]_vars,
         NEW r \in Rows, Live(r)', ~Live(r)
  PROVE  \A s \in Rows : ~Live(s) /\ (s # r => ~Live(s)')
<1>1. /\ \A s \in Rows : MovesForward(s)
      /\ commitState[r] = "none"
  BY RowsMoveForward DEF Live, MovesForward, TypeOK
<1>2. \A c \in Consumers : Commits(c) => JobRow(c) # r
  BY <1>1 DEF Commits, CommitCreated, MarkRepoForRollback, RollbackRepo,
     CommitDone, CommitDeleted, CreateNotStarted, DeleteNotDone
<1>3. commitState' # commitState
  BY <1>1 DEF Live
<1>4. \A c \in Consumers : ~ConsumerStep(c)
  <2>1. commitState'[r] # commitState[r]
    BY <1>1 DEF Live
  <2>2. ASSUME NEW c \in Consumers, ConsumerStep(c)
        PROVE  FALSE
    <3>1. Commits(c)
      BY <1>3, <2>2 DEF ConsumerStep, JobProgress, Commits, ReceiveCreate,
         ReceiveDelete, CreateHook, AddCollaborator, PutInvite,
         PermanentError, CreateRepoAnalysisStatus, PutLaunch, DeleteHook,
         RemoveCollaborator, AckMessage, JobFails, rowVars
    <3>2. \E s : commitState' = [commitState EXCEPT ![JobRow(c)] = s]
      BY <3>1 DEF Commits, CommitCreated, MarkRepoForRollback, RollbackRepo,
         CommitDone, CommitDeleted
    <3>3. QED
      BY <1>2, <2>1, <3>1, <3>2 DEF TypeOK
  <2>3. QED
    BY <2>2
<1>5. PICK q \in Requests : InsertRepo(q)
  <2>1. ASSUME NEW q \in Requests, FinishCreate(q) \/ FinishDelete(q)
                                   \/ StartDelete(q)
        PROVE  commitState'[r] = "none"
    BY <1>1, <2>1 DEF FinishCreate, FinishDelete, FinishQueueSending,
       StartDelete, TypeOK, Live
  <2>2. commitState'[r] # "none"
    BY DEF Live
  <2>3. QED
    BY <1>3, <1>4, <2>1, <2>2 DEF Next, RequestStep, CreateRequest,
       DeleteRequest, CheckSubscription, SendToCreateQueue, SendToDeleteQueue,
       RequestFails, UnlinkProvider, AcceptInvitation, AnalysisLaunched, vars,
       rowVars
<1>6. PICK s \in Rows :
        /\ \A t \in Rows : ~Live(t)
        /\ commitState' = [commitState EXCEPT ![s] = "create/init"]
        /\ deleted' = deleted
  BY <1>3, <1>5 DEF InsertRepo
<1>7. r = s
  BY <1>1, <1>6 DEF TypeOK, Live
<1>8. QED
  BY <1>6, <1>7 DEF TypeOK, Live

LEMMA StepOneLive ==
  ASSUME TypeOK, QueueInv, OneLive, [Next]_vars
  PROVE  OneLive'
<1> USE DEF QueueInv
<1>1. ASSUME NEW r \in Rows, NEW s \in Rows, Live(r)', Live(s)'
      PROVE  r = s
  BY <1>1, WhoIsInserted DEF OneLive
<1>2. ASSUME NEW r \in Rows,
             commitState'[r] \in {"create/rollback/done", "delete/done"}
      PROVE  deleted'[r]
  <2>1. CASE commitState'[r] = commitState[r]
    <3>1. deleted[r] /\ MovesForward(r)
      BY <1>2, <2>1, RowsMoveForward DEF OneLive
    <3>2. QED
      BY <3>1 DEF MovesForward
  <2>2. CASE commitState'[r] # commitState[r]
    <3>1. PICK c \in Consumers : Commits(c) /\ JobRow(c) = r
      BY <1>2, <2>2, WhoWritesState
    <3>2. RollbackRepo(c) \/ CommitDeleted(c)
      BY <1>2, <3>1 DEF Commits, MarkRepoForRollback, CommitDone,
         CommitCreated, TypeOK
    <3>3. QED
      BY <3>1, <3>2 DEF RollbackRepo, CommitDeleted, TypeOK
  <2>3. QED
    BY <2>1, <2>2
<1>3. QED
  BY <1>1, <1>2 DEF OneLive

(***************************************************************************)
(* The inductive invariant                                                 *)
(***************************************************************************)

\* What holds of requests, rows, handlers, the queue and the provider together
IInv ==
  /\ TypeOK
  /\ QueueInv
  /\ HandlersKnowRows
  /\ HooksAreKnown
  /\ RejectsDuplicateHook => OneHook
  /\ AnalysesAreLaunched
  /\ OneLive

LEMMA InitIInv == Init => IInv
<1> SUFFICES ASSUME Init PROVE IInv
  OBVIOUS
<1>1. TypeOK /\ QueueInv
  BY InitTypeOK, InitQueueInv
<1>2. /\ \A c \in Consumers : job[c].pc = "idle"
      /\ \A r \in Rows : commitState[r] = "none" /\ hooks[r] = {}
  BY DEF Init, NoJob
<1>3. HandlersKnowRows
  BY <1>2 DEF HandlersKnowRows, BeforeCommit, AfterCommit, DeletePCs
<1>4. HooksAreKnown /\ OneHook
  BY <1>2 DEF HooksAreKnown, ConnectedHasHook, OneHook, DisconnectedHasNoHook
<1>5. AnalysesAreLaunched /\ OneLive
  BY <1>2 DEF AnalysesAreLaunched, DoneIsAnalyzed, DeleteStates, OneLive, Live
<1>6. QED
  BY <1>1, <1>3, <1>4, <1>5 DEF IInv

LEMMA StepIInv == IInv /\ [Next]_vars => IInv'
<1> SUFFICES ASSUME IInv, [Next]_vars PROVE IInv'
  OBVIOUS
<1> USE DEF IInv
<1>1. TypeOK' /\ QueueInv'
  BY StepQueueInv
<1>2. HandlersKnowRows' /\ HooksAreKnown'
  BY StepHandlersKnowRows, StepHooksAreKnown
<1>3. (RejectsDuplicateHook => OneHook)'
  BY StepOneHook
<1>4. AnalysesAreLaunched' /\ OneLive'
  BY StepAnalysesAreLaunched, StepOneLive
<1>5. QED
  BY <1>1, <1>2, <1>3, <1>4

\* Handlers, their rows, the webhooks and the launched analyses agree, however
\* requests, retries and unlinks interleave.
THEOREM RowInvariant == Spec => []IInv
BY InitIInv, StepIInv, PTL DEF Spec

\* A connected row has its webhook, whose id it keeps.
THEOREM ConnectedIsHooked == Spec => []ConnectedHasHook
<1>1. IInv => ConnectedHasHook
  BY DEF IInv, HooksAreKnown
<1>2. QED
  BY <1>1, RowInvariant, PTL

\* If the provider refuses to install a webhook twice, a disconnected row has
\* none left, but for one that the provider denied to its deleter.
THEOREM DisconnectedIsClean ==
  ASSUME RejectsDuplicateHook
  PROVE  Spec => []DisconnectedHasNoHook
<1>1. IInv => DisconnectedHasNoHook
  BY DEF IInv, OneHook
<1>2. QED
  BY <1>1, RowInvariant, PTL

\* The analysis of a connected row was launched.
THEOREM ConnectedIsAnalyzed == Spec => []DoneIsAnalyzed
<1>1. IInv => DoneIsAnalyzed
  BY DEF IInv, AnalysesAreLaunched
<1>2. QED
  BY <1>1, RowInvariant, PTL

(***************************************************************************)
(* The refinement                                                          *)
(***************************************************************************)

\* The abstract connections and webhooks
PhaseBar == [r \in Rows |-> Phase(r)]
HookedBar == {r \in Rows : hooks[r] # {}}

\* The connections that are active are the rows that are live.
LEMMA ActiveIsLive ==
  ASSUME TypeOK, OneLive, NEW r \in Rows
  PROVE  /\ PhaseBar[r] = Phase(r)
         /\ Abs!Active(r) <=> Live(r)
BY DEF Abs!Active, PhaseBar, Phase, Live, OneLive, TypeOK, CommitStates,
   CreateStates, DeleteStates, DeleteNotDone

\* A step that writes one row moves one phase.
LEMMA OnePhaseMoves ==
  ASSUME TypeOK, NEW r \in Rows, UNCHANGED <<hooks, denied>>,
         \A s \in Rows : s # r => /\ commitState'[s] = commitState[s]
                                  /\ deleted'[s] = deleted[s]
  PROVE  /\ PhaseBar' = [PhaseBar EXCEPT ![r] = Phase(r)']
         /\ HookedBar' = HookedBar
BY DEF PhaseBar, HookedBar, Phase

\* A step that leaves the phases alone is a stutter.
LEMMA NoPhaseMoves ==
  ASSUME UNCHANGED <<hooks, denied>>, \A r \in Rows : Phase(r)' = Phase(r)
  PROVE  UNCHANGED Abs!vars
BY DEF Abs!vars

LEMMA InitRefines == Init => Abs!Init
<1> SUFFICES ASSUME Init PROVE Abs!Init
  OBVIOUS
<1>1. /\ \A r \in Rows : Phase(r) = "absent" /\ hooks[r] = {}
      /\ denied = {}
  BY DEF Init, Phase
<1>2. QED
  BY <1>1 DEF Abs!Init

\* What requests do to a row is to connect it or to begin its disconnection.
LEMMA RequestRefines ==
  ASSUME IInv, NEW q \in Requests, RequestStep(q)
  PROVE  [Abs!Next]_(Abs!vars)
<1> USE DEF IInv, PhaseBar, HookedBar
<1>0. UNCHANGED <<hooks, denied>>
  BY DEF RequestStep, CreateRequest, DeleteRequest, CheckSubscription,
     InsertRepo, SendToCreateQueue, FinishCreate, FinishDelete,
     FinishQueueSending, StartDelete, SendToDeleteQueue, RequestFails,
     providerVars
<1>1. CASE UNCHANGED <<commitState, deleted>>
  BY <1>0, <1>1, NoPhaseMoves DEF Phase
<1>2. ASSUME NEW r \in Rows, \A s \in Rows : ~Live(s),
             commitState[r] = "none", UNCHANGED deleted,
             commitState' = [commitState EXCEPT ![r] = "create/init"]
      PROVE  Abs!Next
  <2>1. ~deleted[r]
    BY <1>2 DEF QueueInv, NamedRowsAreInserted, Inserted
  <2>2. Phase(r) = "absent" /\ Phase(r)' = "connecting"
    BY <1>2, <2>1 DEF Phase, TypeOK, DeleteNotDone
  <2>3. /\ PhaseBar' = [PhaseBar EXCEPT ![r] = "connecting"]
        /\ HookedBar' = HookedBar
    BY <1>0, <1>2, <2>2, OnePhaseMoves DEF TypeOK
  <2>4. \A s \in Rows : ~Abs!Active(s)
    BY <1>2, ActiveIsLive
  <2>5. Abs!Connect(r)
    BY <1>0, <2>2, <2>3, <2>4 DEF Abs!Connect, Abs!Move
  <2>6. QED
    BY <2>5 DEF Abs!Next
<1>3. CASE InsertRepo(q)
  <2>1. UNCHANGED deleted
    BY <1>3 DEF InsertRepo
  <2>2. QED
    BY <1>1, <1>2, <1>3, <2>1 DEF InsertRepo
<1>4. CASE FinishCreate(q)
  BY <1>0, <1>4, NoPhaseMoves
  DEF FinishCreate, FinishQueueSending, TypeOK, Phase, DeleteNotDone
<1>5. CASE FinishDelete(q)
  BY <1>0, <1>5, NoPhaseMoves
  DEF FinishDelete, FinishQueueSending, TypeOK, Phase, DeleteNotDone
<1>6. CASE StartDelete(q)
  <2>0. PICK r \in Rows : r = req[q].repo
    BY <1>6 DEF StartDelete, QueueInv, NamedRowsAreInserted
  <2>1. /\ Live(r) /\ commitState[r] = "create/done" /\ UNCHANGED deleted
        /\ commitState' = [commitState EXCEPT ![r] = "delete/init"]
    BY <1>6, <2>0 DEF StartDelete
  <2>2. Phase(r) = "connected" /\ Phase(r)' = "disconnecting"
    BY <2>1 DEF Phase, TypeOK, DeleteNotDone, Live
  <2>3. /\ PhaseBar' = [PhaseBar EXCEPT ![r] = "disconnecting"]
        /\ HookedBar' = HookedBar
    BY <1>0, <2>1, <2>2, OnePhaseMoves DEF TypeOK
  <2>4. Abs!Disconnect(r)
    BY <1>0, <2>1, <2>2, <2>3 DEF Abs!Disconnect, Abs!Move
  <2>5. QED
    BY <2>1, <2>4 DEF Abs!Next
<1>7. QED
  BY <1>1, <1>3, <1>4, <1>5, <1>6
  DEF RequestStep, CreateRequest, DeleteRequest, CheckSubscription,
      SendToCreateQueue, SendToDeleteQueue, RequestFails, rowVars

\* A handler that commits moves the phase of its row, or leaves it.
LEMMA CommitRefines ==
  ASSUME IInv, RejectsDuplicateHook, NEW c \in Consumers, Commits(c)
  PROVE  [Abs!Next]_(Abs!vars)
<1> USE DEF IInv
<1>0. PICK r \in Rows : r = JobRow(c)
  BY JobRowTyped
<1>1. /\ Live(r) /\ UNCHANGED <<hooks, denied>>
      /\ commitState[r] # "none" /\ ~deleted[r]
  BY <1>0 DEF Commits, CommitCreated, MarkRepoForRollback,
     RollbackRepo, CommitDone, CommitDeleted, Live, providerVars
<1>2. \A s \in Rows : s # r => /\ commitState'[s] = commitState[s]
                               /\ deleted'[s] = deleted[s]
  BY <1>0, <1>1 DEF Commits, CommitCreated, MarkRepoForRollback,
     RollbackRepo, CommitDone, CommitDeleted, TypeOK
<1>3. /\ PhaseBar' = [PhaseBar EXCEPT ![r] = Phase(r)']
      /\ HookedBar' = HookedBar
      /\ PhaseBar[r] = Phase(r)
  BY <1>1, <1>2, OnePhaseMoves, ActiveIsLive
<1>4. CASE CommitCreated(c) \/ MarkRepoForRollback(c)
  <2>1. Phase(r)' = Phase(r)
    BY <1>0, <1>1, <1>4 DEF CommitCreated, MarkRepoForRollback, Phase, TypeOK,
       CreateNotStarted, DeleteNotDone
  <2>2. \A s \in Rows : Phase(s)' = Phase(s)
    BY <1>2, <2>1 DEF Phase
  <2>3. QED
    BY <1>1, <2>2, NoPhaseMoves
<1>5. CASE RollbackRepo(c)
  <2>1. Phase(r) = "connecting" /\ Phase(r)' = "failed"
    BY <1>0, <1>1, <1>5 DEF RollbackRepo, Phase, TypeOK, DeleteNotDone
  <2>2. Abs!Fail(r)
    BY <1>1, <1>3, <2>1 DEF Abs!Fail, Abs!Move, PhaseBar, HookedBar
  <2>3. QED
    BY <1>1, <2>2 DEF Abs!Next
<1>6. CASE CommitDone(c)
  <2>1. Phase(r) = "connecting" /\ Phase(r)' = "connected"
    BY <1>0, <1>1, <1>6 DEF CommitDone, Phase, TypeOK, DeleteNotDone
  <2>2. r \in HookedBar
    BY <1>0, <1>1, <1>6
    DEF CommitDone, HooksAreKnown, ConnectedHasHook, HookedBar
  <2>3. Abs!Establish(r)
    BY <1>1, <1>3, <2>1, <2>2 DEF Abs!Establish, Abs!Move, PhaseBar, HookedBar
  <2>4. QED
    BY <1>1, <2>3 DEF Abs!Next
<1>7. CASE CommitDeleted(c)
  <2>1. Phase(r) = "disconnecting" /\ Phase(r)' = "disconnected"
    BY <1>0, <1>1, <1>7 DEF CommitDeleted, Phase, TypeOK, DeleteNotDone
  <2>2. r \notin HookedBar \/ r \in denied
    BY <1>0, <1>7 DEF CommitDeleted, JobAt, OneHook, HookIsGone, HookedBar
  <2>3. Abs!FinishDisconnect(r)
    BY <1>1, <1>3, <2>1, <2>2
    DEF Abs!FinishDisconnect, Abs!Move, PhaseBar, HookedBar
  <2>4. QED
    BY <1>1, <2>3 DEF Abs!Next
<1>8. QED
  BY <1>4, <1>5, <1>6, <1>7 DEF Commits

\* Only rows that are being connected, or were dropped meanwhile, get a
\* webhook; only such that are disconnected, or were dropped, lose it.
LEMMA HookStepRefines ==
  ASSUME IInv, RejectsDuplicateHook,
         NEW c \in Consumers, CreateHook(c) \/ DeleteHook(c)
  PROVE  [Abs!Next]_(Abs!vars)
<1> USE DEF IInv
<1>1. PICK r \in Rows : r = JobRow(c)
  BY JobRowTyped
<1>2. \A s \in Rows : Phase(s)' = Phase(s)
  BY DEF CreateHook, DeleteHook, rowVars, Phase
<1>3. PhaseBar' = PhaseBar
  BY <1>2 DEF PhaseBar
<1>4. CASE CreateHook(c)
  <2>1. PICK h : /\ hooks' = [hooks EXCEPT ![r] = @ \cup {h}]
                 /\ denied' = denied
    BY <1>1, <1>4 DEF CreateHook
  <2>2. HookedBar' = HookedBar \cup {r}
    BY <1>1, <2>1 DEF HookedBar, TypeOK
  <2>3. commitState[r] \in CreateNotStarted
    BY <1>1, <1>4 DEF CreateHook, JobAt, HandlersKnowRows, BeforeCommit
  <2>4. PhaseBar[r] \in {"connecting", "dropped"}
    BY <1>1, <2>3 DEF PhaseBar, Phase, CreateNotStarted, DeleteNotDone
  <2>5. Abs!InstallHook(r)
    BY <1>3, <2>1, <2>2, <2>4 DEF Abs!InstallHook, PhaseBar, HookedBar
  <2>6. QED
    BY <1>1, <2>5 DEF Abs!Next
<1>5. CASE DeleteHook(c)
  <2>1. /\ commitState[r] \in DeleteStates
        /\ \/ hooks' = [hooks EXCEPT ![r] = {}] /\ denied' = denied \ {r}
           \/ /\ hooks[r] # {}
              /\ hooks' = hooks
              /\ denied' = denied \cup {r}
    BY <1>1, <1>5, AfterDeleteHook
  <2>2. PhaseBar[r] \in {"disconnecting", "disconnected", "dropped"}
    BY <2>1 DEF PhaseBar, Phase, DeleteStates, DeleteNotDone
  <2>3. CASE hooks' = [hooks EXCEPT ![r] = {}] /\ denied' = denied \ {r}
    <3>1. HookedBar' = HookedBar \ {r}
      BY <2>3 DEF HookedBar, TypeOK
    <3>2. Abs!RemoveHook(r)
      BY <1>3, <2>2, <2>3, <3>1 DEF Abs!RemoveHook, PhaseBar, HookedBar
    <3>3. QED
      BY <3>2 DEF Abs!Next
  <2>4. CASE hooks[r] # {} /\ hooks' = hooks /\ denied' = denied \cup {r}
    <3>1. r \in HookedBar /\ HookedBar' = HookedBar
      BY <2>4 DEF HookedBar
    <3>2. Abs!DenyHook(r)
      BY <1>3, <2>2, <2>4, <3>1 DEF Abs!DenyHook, PhaseBar, HookedBar
    <3>3. QED
      BY <3>2 DEF Abs!Next
  <2>5. QED
    BY <2>1, <2>3, <2>4
<1>6. QED
  BY <1>4, <1>5

\* Of the user's rows one is live at most: it is dropped.
LEMMA UnlinkRefines ==
  ASSUME IInv, NEW u \in Users, UnlinkProvider(u)
  PROVE  [Abs!Next]_(Abs!vars)
<1> USE DEF IInv
<1>1. /\ commitState' = commitState /\ UNCHANGED <<hooks, denied>>
      /\ \A s \in Rows :
           deleted'[s] = (deleted[s] \/ (Live(s) /\ repoUser[s] = u))
  BY DEF UnlinkProvider, providerVars
<1>2. CASE \E r \in Rows : Live(r) /\ repoUser[r] = u
  <2>1. PICK r \in Rows : Live(r) /\ repoUser[r] = u
    BY <1>2
  <2>2. \A s \in Rows : s # r => deleted'[s] = deleted[s]
    BY <1>1, <2>1 DEF OneLive, TypeOK
  <2>3. deleted'[r] = TRUE
    BY <1>1, <2>1 DEF TypeOK
  <2>4. Phase(r)' = "dropped"
    BY <1>1, <2>1, <2>3 DEF Phase, OneLive, Live
  <2>5. PhaseBar' = [PhaseBar EXCEPT ![r] = "dropped"] /\ HookedBar' = HookedBar
    BY <1>1, <2>2, <2>4, OnePhaseMoves
  <2>6. Abs!Active(r)
    BY <2>1, ActiveIsLive
  <2>7. Abs!Drop(r)
    BY <1>1, <2>5, <2>6 DEF Abs!Drop, PhaseBar, HookedBar
  <2>8. QED
    BY <2>7 DEF Abs!Next
<1>3. CASE \A r \in Rows : ~(Live(r) /\ repoUser[r] = u)
  <2>1. \A s \in Rows : deleted'[s] = deleted[s]
    BY <1>1, <1>3 DEF TypeOK
  <2>2. \A s \in Rows : Phase(s)' = Phase(s)
    BY <1>1, <2>1 DEF Phase
  <2>3. QED
    BY <1>1, <2>2, NoPhaseMoves
<1>4. QED
  BY <1>2, <1>3

LEMMA StepRefines ==
  ASSUME RejectsDuplicateHook
  PROVE  IInv /\ [Next]_vars => [Abs!Next]_(Abs!vars)
<1> SUFFICES ASSUME IInv, [Next]_vars
             PROVE  [Abs!Next]_(Abs!vars)
  OBVIOUS
<1>1. ASSUME UNCHANGED <<commitState, deleted, hooks, denied>>
      PROVE  UNCHANGED Abs!vars
  <2>1. \A r \in Rows : Phase(r)' = Phase(r)
    BY <1>1 DEF Phase
  <2>2. QED
    BY <1>1, <2>1, NoPhaseMoves
<1>2. ASSUME NEW c \in Consumers, ConsumerStep(c)
      PROVE  [Abs!Next]_(Abs!vars)
  BY <1>1, <1>2, CommitRefines, HookStepRefines
  DEF ConsumerStep, JobProgress, Commits, ReceiveCreate, ReceiveDelete,
      AddCollaborator, PutInvite, PermanentError, CreateRepoAnalysisStatus,
      PutLaunch, RemoveCollaborator, AckMessage, JobFails, rowVars,
      providerVars
<1>3. CASE AcceptInvitation \/ (\E r \in Rows : AnalysisLaunched(r))
             \/ UNCHANGED vars
  BY <1>1, <1>3 DEF AcceptInvitation, AnalysisLaunched, vars, rowVars,
     providerVars
<1>4. QED
  BY <1>2, <1>3, RequestRefines, UnlinkRefines DEF Next

\* The requests, the queue and the handlers implement connections: a repository
\* has one active connection at most, which is established only with its webhook
\* installed and disconnected only after it was removed, or after the provider has
\* denied to a deleter that it is there. The provider must refuse a second equal
\* webhook, as GitHub does: the search of the creator for one that an interrupted
\* run has installed finds none.
THEOREM Implementation ==
  ASSUME RejectsDuplicateHook
  PROVE  Spec => RefinesAbs
<1>1. IInv /\ [Next]_vars => [Abs!Next]_(Abs!vars)
  BY StepRefines
<1>2. QED
  BY <1>1, InitRefines, RowInvariant, PTL DEF Spec, RefinesAbs, Abs!Spec

=============================================================================
