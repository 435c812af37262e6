------------------------- MODULE PullAnalysisProofs -------------------------
(***************************************************************************)
(* Proofs about PullAnalysis, for all values of its constants.             *)
(***************************************************************************)
EXTENDS PullAnalysis, TLAPS

(***************************************************************************)
(* Type correctness                                                        *)
(***************************************************************************)

WorkerType ==
  [pc : {"idle", "fetch_pull", "put_processing", "analyze", "create_review",
         "save_state", "set_status", "ack"},
   push : Pushes \cup {NoPush}, verdict : Verdicts, retry : BOOLEAN]

StalerType == [todo : SUBSET Pushes, push : Pushes \cup {NoPush}]

LEMMA PushesAreNat == Pushes \subseteq Nat /\ NoPush \notin Pushes
BY PullAnalysisAssumption DEF Pushes, NoPush

\* Going on keeps the message; a verdict makes it a result to save.
LEMMA GotoEffect ==
  ASSUME worker \in [Workers -> WorkerType], NEW w \in Workers,
         NEW pc \in {"put_processing", "analyze", "create_review",
                     "set_status", "ack"},
         Goto(w, pc)
  PROVE  /\ worker' \in [Workers -> WorkerType]
         /\ worker'[w].pc = pc
         /\ worker'[w].push = worker[w].push
         /\ \A v \in Workers \ {w} : worker'[v] = worker[v]
BY DEF Goto, WorkerType

LEMMA ConcludeEffect ==
  ASSUME worker \in [Workers -> WorkerType], NEW w \in Workers,
         NEW verdict \in Verdicts, NEW retry \in BOOLEAN,
         Conclude(w, verdict, retry)
  PROVE  /\ worker' \in [Workers -> WorkerType]
         /\ worker'[w].pc = "save_state"
         /\ worker'[w].push = worker[w].push
         /\ \A v \in Workers \ {w} : worker'[v] = worker[v]
BY DEF Conclude, WorkerType

\* What a step of a worker makes of the worker: it receives a message, keeps
\* it, or is idle.
LEMMA WorkerMoves ==
  ASSUME worker \in [Workers -> WorkerType], NEW w \in Workers, WorkerStep(w)
  PROVE  /\ worker' \in [Workers -> WorkerType]
         /\ \A v \in Workers \ {w} : worker'[v] = worker[v]
         /\ \/ worker'[w] = IdleWorker
            \/ /\ worker'[w].pc # "idle"
               /\ worker[w].pc # "idle"
               /\ worker'[w].push = worker[w].push
            \/ /\ worker'[w].pc = "fetch_pull"
               /\ worker[w].pc = "idle"
               /\ worker'[w].push \in Pushes
               /\ ReceiveRun(w, worker'[w].push)
<1> DEFINE Moved == /\ worker' \in [Workers -> WorkerType]
                    /\ \A v \in Workers \ {w} : worker'[v] = worker[v]
                    /\ worker'[w].pc # "idle"
                    /\ worker[w].pc # "idle"
                    /\ worker'[w].push = worker[w].push
<1>1. ASSUME NEW p \in Pushes, ReceiveRun(w, p)
      PROVE  /\ worker' \in [Workers -> WorkerType]
             /\ \A v \in Workers \ {w} : worker'[v] = worker[v]
             /\ worker'[w].pc = "fetch_pull"
             /\ worker[w].pc = "idle"
             /\ worker'[w].push = p
  BY <1>1 DEF ReceiveRun, IdleWorker, WorkerType, Verdicts
<1>2. CASE \E p \in Pushes : ReceiveRun(w, p)
  BY <1>1, <1>2
<1>3. CASE FetchPull(w)
  <2>1. \/ Goto(w, "put_processing")
        \/ Goto(w, "analyze")
    BY <1>3 DEF FetchPull
  <2>2. Moved
    BY <1>3, <2>1, GotoEffect DEF FetchPull
  <2>3. QED
    BY <2>2
<1>4. CASE PutProcessing(w) \/ Drop(w) \/ SaveState(w)
  <2>1. Moved
    BY <1>4, GotoEffect DEF PutProcessing, Drop, SaveState
  <2>2. QED
    BY <2>1
<1>5. CASE Analyze(w) \/ Report(w) \/ CreateReview(w)
  <2>1. \/ Goto(w, "create_review")
        \/ \E verdict \in Verdicts, retry \in BOOLEAN :
             Conclude(w, verdict, retry)
    BY <1>5 DEF Analyze, Report, CreateReview, Verdicts
  <2>2. worker[w].pc # "idle"
    BY <1>5 DEF Analyze, Report, CreateReview
  <2>3. Moved
    BY <2>1, <2>2, GotoEffect, ConcludeEffect
  <2>4. QED
    BY <2>3
<1>6. CASE SetCommitStatus(w)
  <2>1. worker' = [worker EXCEPT ![w] =
                     IF @.retry THEN IdleWorker
                     ELSE [@ EXCEPT !.pc = "ack", !.verdict = "error"]]
    BY <1>6 DEF SetCommitStatus
  <2>2. worker[w].pc # "idle"
    BY <1>6 DEF SetCommitStatus
  <2>3. CASE worker[w].retry
    BY <2>1, <2>3 DEF IdleWorker, WorkerType, Verdicts
  <2>4. CASE ~worker[w].retry
    <3>1. Moved
      BY <2>1, <2>2, <2>4 DEF WorkerType, Verdicts
    <3>2. QED
      BY <3>1
  <2>5. QED
    BY <2>3, <2>4
<1>7. CASE AckRun(w) \/ WorkerFails(w)
  <2>1. worker' = [worker EXCEPT ![w] = IdleWorker]
    BY <1>7 DEF AckRun, WorkerFails
  <2>2. IdleWorker \in WorkerType
    BY DEF IdleWorker, WorkerType, Verdicts
  <2>3. QED
    BY <2>1, <2>2
<1>8. QED
  BY <1>2, <1>3, <1>4, <1>5, <1>6, <1>7 DEF WorkerStep, WorkerProgress

LEMMA InitTypeOK == Init => TypeOK
<1> SUFFICES ASSUME Init PROVE TypeOK
  OBVIOUS
<1>1. worker \in [Workers -> WorkerType]
  BY DEF Init, IdleWorker, WorkerType, Verdicts
<1>2. staler \in StalerType
  BY DEF Init, IdleStaler, StalerType
<1>3. /\ head \in 0..MaxPushes
      /\ comments \in Nat
      /\ queue \in [Pushes -> 0..MaxCopies]
  BY PullAnalysisAssumption DEF Init
<1>4. /\ commitStatus \in [Pushes -> {"none", "pending"} \cup Verdicts]
      /\ status \in [Pushes -> {"none"} \cup Unfinished \cup Settled]
      /\ delivery \in [Pushes -> {"none", "create", "set_pending", "put",
                                  "answered"}]
  BY DEF Init
<1>5. reviewLock = {} /\ unsaved = {} /\ outlived = FALSE
  BY DEF Init
<1>6. QED
  BY <1>1, <1>2, <1>3, <1>4, <1>5 DEF TypeOK, WorkerType, StalerType

\* The lock of the repository is taken by a reporter, given back by the step
\* that creates the review, lost by a failure, or expires.
LEMMA ReviewLockMoves ==
  ASSUME [Next]_vars
  PROVE  \/ UNCHANGED reviewVars
         \/ \E w \in Workers :
              Report(w) /\ reviewLock = {} /\ reviewLock' = {w} /\ outlived' = outlived
         \/ \E w \in Workers :
              /\ CreateReview(w) \/ WorkerFails(w)
              /\ reviewLock' \in {reviewLock, reviewLock \ {w}}
              /\ outlived' = outlived
         \/ ReviewLockExpires
BY DEF Next, vars, reviewVars, Push, WebhookStep, RefuseAnalysis,
   CreateAnalysis, SetPending, PutRun, WebhookFails, Redeliver, WorkerStep,
   WorkerProgress, ReceiveRun, FetchPull, PutProcessing, Drop, Analyze, Report,
   CreateReview, SaveState, SetCommitStatus, AckRun, WorkerFails, StalerStep,
   FindStale, SetTimeoutStatus, ForceStale, StalerFails, RestartAnalysis

\* Only saving a result, or failing to, changes what is unsaved.
LEMMA UnsavedMoves ==
  ASSUME [Next]_vars
  PROVE  \/ unsaved' = unsaved
         \/ \E w \in Workers :
              /\ SaveState(w)
              /\ \/ /\ SetStatus(worker[w].push, "processed")
                    /\ unsaved' = unsaved \ {worker[w].push}
                 \/ /\ unsaved' = unsaved \cup {worker[w].push}
                    /\ status' = status
BY DEF Next, vars, Push, WebhookStep, RefuseAnalysis, CreateAnalysis,
   SetPending, PutRun, WebhookFails, Redeliver, WorkerStep, WorkerProgress,
   ReceiveRun, FetchPull, PutProcessing, Drop, Analyze, Report, CreateReview,
   SaveState, SetCommitStatus, AckRun, WorkerFails, ReviewLockExpires,
   StalerStep, FindStale, SetTimeoutStatus, ForceStale, StalerFails,
   RestartAnalysis

LEMMA StepHistoryType ==
  ASSUME TypeOK, [Next]_vars
  PROVE  /\ reviewLock' \subseteq Workers
         /\ unsaved' \subseteq Pushes \cup {NoPush}
         /\ outlived' \in BOOLEAN
<1>1. reviewLock' \subseteq Workers /\ outlived' \in BOOLEAN
  BY ReviewLockMoves DEF TypeOK, reviewVars, ReviewLockExpires
<1>2. \A w \in Workers : worker[w].push \in Pushes \cup {NoPush}
  BY DEF TypeOK
<1>3. unsaved' \subseteq Pushes \cup {NoPush}
  BY <1>2, UnsavedMoves DEF TypeOK
<1>4. QED
  BY <1>1, <1>3

LEMMA StepTypeOK == TypeOK /\ [Next]_vars => TypeOK'
<1> SUFFICES ASSUME TypeOK, [Next]_vars PROVE TypeOK'
  OBVIOUS
<1> DEFINE DeliveryType == [Pushes -> {"none", "create", "set_pending", "put",
                                       "answered"}]
           ShownType == [Pushes -> {"none", "pending"} \cup Verdicts]
           StatusType == [Pushes -> {"none"} \cup Unfinished \cup Settled]
           QueueType == [Pushes -> 0..MaxCopies]
<1>1. /\ worker \in [Workers -> WorkerType] /\ staler \in StalerType
      /\ delivery \in DeliveryType /\ commitStatus \in ShownType
      /\ status \in StatusType /\ queue \in QueueType
      /\ head \in 0..MaxPushes /\ comments \in Nat
  BY DEF TypeOK, WorkerType, StalerType
<1>2. ASSUME /\ worker' \in [Workers -> WorkerType] /\ staler' \in StalerType
             /\ delivery' \in DeliveryType /\ commitStatus' \in ShownType
             /\ status' \in StatusType /\ queue' \in QueueType
             /\ head' \in 0..MaxPushes /\ comments' \in Nat
      PROVE  TypeOK'
  BY <1>2, StepHistoryType DEF TypeOK, WorkerType, StalerType
<1>3. CASE Push
  <2>1. head' \in 0..MaxPushes
    BY <1>1, <1>3, PullAnalysisAssumption DEF Push
  <2>2. delivery' \in DeliveryType
    BY <1>1, <1>3 DEF Push
  <2>3. QED
    BY <1>1, <1>2, <1>3, <2>1, <2>2 DEF Push
<1>4. ASSUME NEW p \in Pushes, WebhookStep(p)
      PROVE  TypeOK'
  <2>1. delivery' \in DeliveryType
    BY <1>1, <1>4 DEF WebhookStep, RefuseAnalysis, CreateAnalysis, SetPending,
       PutRun, WebhookFails, Redeliver
  <2>2. commitStatus' \in ShownType
    BY <1>1, <1>4 DEF WebhookStep, RefuseAnalysis, CreateAnalysis, SetPending,
       PutRun, WebhookFails, Redeliver, githubVars, Verdicts
  <2>3. status' \in StatusType
    BY <1>1, <1>4 DEF WebhookStep, RefuseAnalysis, CreateAnalysis, SetPending,
       PutRun, WebhookFails, Redeliver, SetStatus, Unfinished
  <2>4. queue' \in QueueType
    BY <1>1, <1>4, PullAnalysisAssumption DEF WebhookStep, RefuseAnalysis,
       CreateAnalysis, SetPending, PutRun, WebhookFails, Redeliver, Send
  <2>5. /\ UNCHANGED <<head, comments, worker, staler>>
    BY <1>4 DEF WebhookStep, RefuseAnalysis, CreateAnalysis, SetPending,
       PutRun, WebhookFails, Redeliver, githubVars
  <2>6. QED
    BY <1>1, <1>2, <2>1, <2>2, <2>3, <2>4, <2>5
<1>5. ASSUME NEW w \in Workers, WorkerStep(w)
      PROVE  TypeOK'
  <2>1. worker' \in [Workers -> WorkerType]
    BY <1>1, <1>5, WorkerMoves
  <2>2. worker[w].verdict \in Verdicts
    BY <1>1 DEF WorkerType
  <2>3. commitStatus' \in ShownType
    BY <1>1, <1>5, <2>2 DEF WorkerStep, WorkerProgress, ReceiveRun, FetchPull,
       PutProcessing, Drop, Analyze, Report, CreateReview, SaveState,
       SetCommitStatus, AckRun, WorkerFails, githubVars
  <2>4. status' \in StatusType
    BY <1>1, <1>5 DEF WorkerStep, WorkerProgress, ReceiveRun, FetchPull,
       PutProcessing, Drop, Analyze, Report, CreateReview, SaveState,
       SetCommitStatus, AckRun, WorkerFails, SetStatus, Unfinished, Settled
  <2>5. queue' \in QueueType
    <3>1. CASE AckRun(w)
      <4>1. \A n \in 0..MaxCopies : (IF n = 0 THEN 0 ELSE n - 1) \in 0..MaxCopies
        BY PullAnalysisAssumption
      <4>2. \A p \in Pushes :
              queue'[p] = IF p = worker[w].push
                          THEN IF queue[p] = 0 THEN 0 ELSE queue[p] - 1
                          ELSE queue[p]
        BY <1>1, <3>1 DEF AckRun
      <4>3. queue' = [p \in Pushes |-> queue'[p]]
        BY <1>1, <3>1 DEF AckRun
      <4>4. \A p \in Pushes : queue'[p] \in 0..MaxCopies
        BY <1>1, <4>1, <4>2
      <4>5. QED
        BY <4>3, <4>4
    <3>2. CASE ~AckRun(w)
      BY <1>1, <1>5, <3>2 DEF WorkerStep, WorkerProgress, ReceiveRun,
         FetchPull, PutProcessing, Drop, Analyze, Report, CreateReview,
         SaveState, SetCommitStatus, WorkerFails
    <3>3. QED
      BY <3>1, <3>2
  <2>6. comments' \in Nat
    <3>1. comments' \in {comments, comments + 1}
      BY <1>5 DEF WorkerStep, WorkerProgress, ReceiveRun, FetchPull,
         PutProcessing, Drop, Analyze, Report, CreateReview, SaveState,
         SetCommitStatus, AckRun, WorkerFails, githubVars
    <3>2. QED
      BY <1>1, <3>1
  <2>7. UNCHANGED <<head, delivery, staler>>
    BY <1>5 DEF WorkerStep, WorkerProgress, ReceiveRun, FetchPull,
       PutProcessing, Drop, Analyze, Report, CreateReview, SaveState,
       SetCommitStatus, AckRun, WorkerFails, githubVars
  <2>8. QED
    BY <1>1, <1>2, <2>1, <2>3, <2>4, <2>5, <2>6, <2>7
<1>6. CASE StalerStep
  <2>1. staler' \in StalerType
    BY <1>1, <1>6 DEF StalerStep, FindStale, SetTimeoutStatus, ForceStale,
       StalerFails, IdleStaler, StalerType
  <2>2. commitStatus' \in ShownType
    BY <1>1, <1>6 DEF StalerStep, FindStale, SetTimeoutStatus, ForceStale,
       StalerFails, githubVars, Verdicts
  <2>3. status' \in StatusType
    BY <1>1, <1>6 DEF StalerStep, FindStale, SetTimeoutStatus, ForceStale,
       StalerFails, SetStatus, Settled
  <2>4. UNCHANGED <<head, comments, delivery, queue, worker>>
    BY <1>6 DEF StalerStep, FindStale, SetTimeoutStatus, ForceStale,
       StalerFails, githubVars
  <2>5. QED
    BY <1>1, <1>2, <2>1, <2>2, <2>3, <2>4
<1>7. ASSUME NEW p \in Pushes, RestartAnalysis(p)
      PROVE  TypeOK'
  <2>1. queue' \in QueueType
    BY <1>1, <1>7, PullAnalysisAssumption DEF RestartAnalysis, Send
  <2>2. QED
    BY <1>1, <1>2, <1>7, <2>1 DEF RestartAnalysis, githubVars
<1>8. CASE ReviewLockExpires \/ UNCHANGED vars
  BY <1>1, <1>2, <1>8 DEF vars, githubVars, ReviewLockExpires
<1>9. QED
  BY <1>3, <1>4, <1>5, <1>6, <1>7, <1>8 DEF Next

\* Every reachable state has the declared types, for any number of pushes and
\* workers.
THEOREM TypeCorrect == Spec => []TypeOK
<1>1. Init => TypeOK
  BY InitTypeOK
<1>2. TypeOK /\ [Next]_vars => TypeOK'
  BY StepTypeOK
<1>3. QED
  BY <1>1, <1>2, PTL DEF Spec

(***************************************************************************)
(* Who changes what                                                        *)
(***************************************************************************)

\* The status of a row is written in four places.
LEMMA StatusMoves ==
  ASSUME TypeOK, [Next]_vars, NEW p \in Pushes
  PROVE  \/ status'[p] = status[p]
         \/ CreateAnalysis(p) /\ status'[p] = "sent_to_queue"
         \/ \E w \in Workers : /\ PutProcessing(w)
                                /\ worker[w].push = p
                                /\ status'[p] = "processing"
         \/ \E w \in Workers : /\ SaveState(w)
                                /\ worker[w].push = p
                                /\ status'[p] = "processed"
         \/ ForceStale(p) /\ status'[p] = "forced_stale"
<1>1. status \in [Pushes -> {"none"} \cup Unfinished \cup Settled]
  BY DEF TypeOK
<1>2. ASSUME NEW q \in Pushes, WebhookStep(q), status' # status
      PROVE  CreateAnalysis(q) /\ status' = [status EXCEPT ![q] = "sent_to_queue"]
  BY <1>2 DEF WebhookStep, RefuseAnalysis, CreateAnalysis, SetPending, PutRun,
     WebhookFails, Redeliver, SetStatus
<1>3. ASSUME NEW w \in Workers, WorkerStep(w), status' # status
      PROVE  \/ /\ PutProcessing(w)
                /\ status' = [status EXCEPT ![worker[w].push] = "processing"]
             \/ /\ SaveState(w)
                /\ status' = [status EXCEPT ![worker[w].push] = "processed"]
  BY <1>3 DEF WorkerStep, WorkerProgress, ReceiveRun, FetchPull,
     PutProcessing, Drop, Analyze, Report, CreateReview, SaveState,
     SetCommitStatus, AckRun, WorkerFails, SetStatus
<1>4. ASSUME StalerStep, status' # status
      PROVE  \E q \in Pushes :
               ForceStale(q) /\ status' = [status EXCEPT ![q] = "forced_stale"]
  BY <1>4 DEF StalerStep, FindStale, SetTimeoutStatus, ForceStale,
     StalerFails, SetStatus
<1>5. CASE \E q \in Pushes : WebhookStep(q)
  BY <1>1, <1>2, <1>5
<1>6. CASE \E w \in Workers : WorkerStep(w)
  BY <1>1, <1>3, <1>6
<1>7. CASE StalerStep
  BY <1>1, <1>4, <1>7
<1>8. CASE \/ Push \/ (\E q \in Pushes : RestartAnalysis(q))
          \/ ReviewLockExpires \/ UNCHANGED vars
  BY <1>8 DEF Push, RestartAnalysis, ReviewLockExpires, vars
<1>9. QED
  BY <1>5, <1>6, <1>7, <1>8 DEF Next

LEMMA RowsStay ==
  ASSUME TypeOK, [Next]_vars, NEW p \in Pushes, HasRow(p)
  PROVE  HasRow(p)'
BY StatusMoves DEF HasRow

\* Only a worker that has a result shows one.
LEMMA ShownMoves ==
  ASSUME TypeOK, [Next]_vars, NEW p \in Pushes
  PROVE  \/ commitStatus'[p] = commitStatus[p]
         \/ commitStatus'[p] # "result"
         \/ \E w \in Workers : SetCommitStatus(w) /\ worker[w].push = p
<1>1. commitStatus \in [Pushes -> {"none", "pending"} \cup Verdicts]
  BY DEF TypeOK
<1>2. ASSUME NEW q \in Pushes, WebhookStep(q)
      PROVE  \/ commitStatus' = commitStatus
             \/ commitStatus' = [commitStatus EXCEPT ![q] = "pending"]
             \/ commitStatus' = [commitStatus EXCEPT ![q] = "error"]
  BY <1>2 DEF WebhookStep, RefuseAnalysis, CreateAnalysis, SetPending, PutRun,
     WebhookFails, Redeliver, githubVars
<1>3. ASSUME NEW w \in Workers, WorkerStep(w), commitStatus' # commitStatus
      PROVE  \/ commitStatus' = [commitStatus EXCEPT ![worker[w].push] = "pending"]
             \/ /\ SetCommitStatus(w)
                /\ commitStatus' = [commitStatus EXCEPT ![worker[w].push] =
                                      worker[w].verdict]
  BY <1>3 DEF WorkerStep, WorkerProgress, ReceiveRun, FetchPull,
     PutProcessing, Drop, Analyze, Report, CreateReview, SaveState,
     SetCommitStatus, AckRun, WorkerFails, githubVars
<1>4. ASSUME StalerStep
      PROVE  \/ commitStatus' = commitStatus
             \/ commitStatus' = [commitStatus EXCEPT ![head] = "error"]
  BY <1>4 DEF StalerStep, FindStale, SetTimeoutStatus, ForceStale,
     StalerFails, githubVars
<1>5. CASE \E q \in Pushes : WebhookStep(q)
  BY <1>1, <1>2, <1>5
<1>6. CASE \E w \in Workers : WorkerStep(w)
  BY <1>1, <1>3, <1>6
<1>7. CASE StalerStep
  BY <1>1, <1>4, <1>7
<1>8. CASE \/ Push \/ (\E q \in Pushes : RestartAnalysis(q))
          \/ ReviewLockExpires \/ UNCHANGED vars
  BY <1>8 DEF Push, RestartAnalysis, ReviewLockExpires, vars, githubVars
<1>9. QED
  BY <1>5, <1>6, <1>7, <1>8 DEF Next

\* A message is put by the webhook handler that has made the row, or for a row
\* the reanalyzer has found.
LEMMA QueueMoves ==
  ASSUME TypeOK, [Next]_vars, NEW p \in Pushes, queue'[p] > 0
  PROVE  queue[p] > 0 \/ PutRun(p) \/ RestartAnalysis(p)
<1>1. queue \in [Pushes -> 0..MaxCopies]
  BY DEF TypeOK
<1>2. ASSUME NEW q \in Pushes, WebhookStep(q) \/ RestartAnalysis(q)
      PROVE  \/ queue' = queue
             \/ /\ PutRun(q) \/ RestartAnalysis(q)
                /\ queue' = [queue EXCEPT ![q] = @ + 1]
  BY <1>2 DEF WebhookStep, RefuseAnalysis, CreateAnalysis, SetPending, PutRun,
     WebhookFails, Redeliver, Send, RestartAnalysis
<1>3. ASSUME NEW w \in Workers, WorkerStep(w), queue' # queue
      PROVE  queue' = [queue EXCEPT ![worker[w].push] = IF @ = 0 THEN 0 ELSE @ - 1]
  BY <1>3 DEF WorkerStep, WorkerProgress, ReceiveRun, FetchPull,
     PutProcessing, Drop, Analyze, Report, CreateReview, SaveState,
     SetCommitStatus, AckRun, WorkerFails
<1>4. CASE \E q \in Pushes : WebhookStep(q) \/ RestartAnalysis(q)
  BY <1>1, <1>2, <1>4
<1>5. CASE \E w \in Workers : WorkerStep(w)
  <2>1. PICK w \in Workers : WorkerStep(w)
    BY <1>5
  <2>2. queue[p] \in Nat
    BY <1>1, PullAnalysisAssumption
  <2>3. CASE queue' # queue /\ worker[w].push = p
    BY <1>1, <1>3, <2>1, <2>2, <2>3
  <2>4. CASE queue' # queue /\ worker[w].push # p
    BY <1>1, <1>3, <2>1, <2>4
  <2>5. QED
    BY <2>3, <2>4
<1>6. CASE Push \/ ReviewLockExpires \/ StalerStep \/ UNCHANGED vars
  BY <1>6 DEF Push, ReviewLockExpires, StalerStep, FindStale,
     SetTimeoutStatus, ForceStale, StalerFails, vars
<1>7. QED
  BY <1>4, <1>5, <1>6 DEF Next

\* A step is one of a worker, or leaves the workers alone.
LEMMA StepWorkers ==
  ASSUME TypeOK, [Next]_vars
  PROVE  \/ worker' = worker
         \/ \E w \in Workers :
              /\ WorkerStep(w)
              /\ \A v \in Workers \ {w} : worker'[v] = worker[v]
              /\ \/ worker'[w] = IdleWorker
                 \/ /\ worker'[w].pc # "idle"
                    /\ worker[w].pc # "idle"
                    /\ worker'[w].push = worker[w].push
                 \/ /\ worker'[w].pc = "fetch_pull"
                    /\ worker[w].pc = "idle"
                    /\ worker'[w].push \in Pushes
                    /\ ReceiveRun(w, worker'[w].push)
<1>1. worker \in [Workers -> WorkerType]
  BY DEF TypeOK, WorkerType
<1>2. CASE \E w \in Workers : WorkerStep(w)
  BY <1>1, <1>2, WorkerMoves
<1>3. CASE ~\E w \in Workers : WorkerStep(w)
  BY <1>3 DEF Next, vars, Push, WebhookStep, RefuseAnalysis, CreateAnalysis,
     SetPending, PutRun, WebhookFails, Redeliver, ReviewLockExpires,
     StalerStep, FindStale, SetTimeoutStatus, ForceStale, StalerFails,
     RestartAnalysis
<1>4. QED
  BY <1>2, <1>3

(***************************************************************************)
(* Rows before messages                                                    *)
(***************************************************************************)

LEMMA StepEveryRunHasRow ==
  ASSUME TypeOK, EveryRunHasRow, [Next]_vars
  PROVE  EveryRunHasRow'
<1>1. ASSUME NEW p \in Pushes, queue'[p] > 0
      PROVE  HasRow(p)'
  <2>1. queue[p] > 0 \/ PutRun(p) \/ RestartAnalysis(p)
    BY <1>1, QueueMoves
  <2>2. HasRow(p)
    BY <2>1 DEF EveryRunHasRow, PutRun, RestartAnalysis
  <2>3. QED
    BY <2>2, RowsStay
<1>2. ASSUME NEW p \in Pushes, delivery'[p] \in {"set_pending", "put"}
      PROVE  HasRow(p)'
  <2>1. delivery \in [Pushes -> {"none", "create", "set_pending", "put",
                                 "answered"}]
    BY DEF TypeOK
  <2>2. ASSUME NEW q \in Pushes, WebhookStep(q)
        PROVE  \/ delivery[p] \in {"set_pending", "put"}
               \/ CreateAnalysis(p)
    BY <1>2, <2>1, <2>2 DEF WebhookStep, RefuseAnalysis, CreateAnalysis,
       SetPending, PutRun, WebhookFails, Redeliver
  <2>3. CASE Push
    BY <1>2, <2>1, <2>3, RowsStay DEF Push, EveryRunHasRow
  <2>4. CASE ~Push /\ ~\E q \in Pushes : WebhookStep(q)
    <3>1. delivery' = delivery
      BY <2>4 DEF Next, vars, WorkerStep, WorkerProgress, ReceiveRun,
         FetchPull, PutProcessing, Drop, Analyze, Report, CreateReview,
         SaveState, SetCommitStatus, AckRun, WorkerFails, ReviewLockExpires,
         StalerStep, FindStale, SetTimeoutStatus, ForceStale, StalerFails,
         RestartAnalysis
    <3>2. QED
      BY <1>2, <3>1, RowsStay DEF EveryRunHasRow
  <2>5. CASE CreateAnalysis(p)
    <3>1. status \in [Pushes -> {"none"} \cup Unfinished \cup Settled]
      BY DEF TypeOK
    <3>2. QED
      BY <2>5, <3>1 DEF CreateAnalysis, SetStatus, HasRow
  <2>6. QED
    BY <2>2, <2>3, <2>4, <2>5, RowsStay DEF EveryRunHasRow
<1>3. ASSUME NEW w \in Workers, worker'[w].pc # "idle"
      PROVE  worker'[w].push \in Pushes /\ status'[worker'[w].push] # "none"
  <2>1. \E p \in Pushes : worker'[w].push = p /\ HasRow(p)
    <3>1. CASE worker'[w] = worker[w]
      BY <1>3, <3>1 DEF EveryRunHasRow
    <3>2. CASE worker'[w] # worker[w]
      <4>1. PICK v \in Workers :
              /\ WorkerStep(v)
              /\ \A u \in Workers \ {v} : worker'[u] = worker[u]
              /\ \/ worker'[v] = IdleWorker
                 \/ /\ worker'[v].pc # "idle"
                    /\ worker[v].pc # "idle"
                    /\ worker'[v].push = worker[v].push
                 \/ /\ worker'[v].pc = "fetch_pull"
                    /\ worker[v].pc = "idle"
                    /\ worker'[v].push \in Pushes
                    /\ ReceiveRun(v, worker'[v].push)
        BY <3>2, StepWorkers
      <4>2. v = w
        BY <3>2, <4>1
      <4>3. CASE worker[w].pc # "idle" /\ worker'[w].push = worker[w].push
        BY <4>3 DEF EveryRunHasRow
      <4>4. CASE worker'[w].push \in Pushes /\ ReceiveRun(w, worker'[w].push)
        BY <4>4 DEF EveryRunHasRow, ReceiveRun
      <4>5. QED
        BY <1>3, <4>1, <4>2, <4>3, <4>4 DEF IdleWorker
    <3>3. QED
      BY <3>1, <3>2
  <2>2. PICK p \in Pushes : worker'[w].push = p /\ HasRow(p)
    BY <2>1
  <2>3. status'[p] # "none"
    BY <2>2, RowsStay DEF HasRow
  <2>4. QED
    BY <2>2, <2>3
<1>4. ASSUME NEW p \in staler'.todo
      PROVE  status'[p] # "none"
  <2>1. staler' \in StalerType /\ staler \in StalerType
    BY StepTypeOK DEF TypeOK, StalerType
  <2>2. p \in Pushes
    BY <2>1 DEF StalerType
  <2>3. p \in staler.todo \/ status[p] \in Unfinished
    <3>1. CASE FindStale
      BY <1>4, <3>1 DEF FindStale, IdleStaler
    <3>2. CASE ~FindStale
      <4>1. staler'.todo \subseteq staler.todo
        BY <2>1, <3>2 DEF StalerType, Next, vars, Push, WebhookStep,
           RefuseAnalysis, CreateAnalysis, SetPending, PutRun, WebhookFails,
           Redeliver, WorkerStep, WorkerProgress, ReceiveRun, FetchPull,
           PutProcessing, Drop, Analyze, Report, CreateReview, SaveState,
           SetCommitStatus, AckRun, WorkerFails, ReviewLockExpires,
           StalerStep, SetTimeoutStatus, ForceStale, StalerFails,
           RestartAnalysis, IdleStaler
      <4>2. QED
        BY <1>4, <4>1
    <3>3. QED
      BY <3>1, <3>2
  <2>4. HasRow(p)
    BY <2>3 DEF EveryRunHasRow, HasRow, Unfinished
  <2>5. QED
    BY <2>2, <2>4, RowsStay DEF HasRow
<1>5. staler'.push # NoPush => staler'.push \in staler'.todo
  <2>1. staler \in StalerType
    BY DEF TypeOK, StalerType
  <2>2. QED
    BY <2>1, PushesAreNat DEF EveryRunHasRow, StalerType, Next, vars, Push,
       WebhookStep, RefuseAnalysis, CreateAnalysis, SetPending, PutRun,
       WebhookFails, Redeliver, WorkerStep, WorkerProgress, ReceiveRun,
       FetchPull, PutProcessing, Drop, Analyze, Report, CreateReview,
       SaveState, SetCommitStatus, AckRun, WorkerFails, ReviewLockExpires,
       StalerStep, FindStale, SetTimeoutStatus, ForceStale, StalerFails,
       RestartAnalysis, IdleStaler
<1>6. QED
  BY <1>1, <1>2, <1>3, <1>4, <1>5 DEF EveryRunHasRow, HasRow

(***************************************************************************)
(* Runs and reports have their locks                                       *)
(***************************************************************************)

LEMMA StepAloneWithRun ==
  ASSUME TypeOK, LocksLast, AloneWithRun, [Next]_vars
  PROVE  AloneWithRun'
<1>1. ASSUME NEW u \in Workers,
             \A v \in Workers \ {u} : worker'[v] = worker[v],
             \/ worker'[u] = IdleWorker
             \/ /\ worker'[u].pc # "idle"
                /\ worker[u].pc # "idle"
                /\ worker'[u].push = worker[u].push
             \/ /\ worker'[u].pc = "fetch_pull"
                /\ worker[u].pc = "idle"
                /\ worker'[u].push \in Pushes
                /\ ReceiveRun(u, worker'[u].push)
      PROVE  AloneWithRun'
  <2>1. CASE worker'[u] = IdleWorker
    BY <1>1, <2>1 DEF AloneWithRun, IdleWorker
  <2>2. CASE /\ worker'[u].pc # "idle"
             /\ worker[u].pc # "idle"
             /\ worker'[u].push = worker[u].push
    BY <1>1, <2>2 DEF AloneWithRun
  <2>3. CASE /\ worker'[u].pc = "fetch_pull"
             /\ worker'[u].push \in Pushes
             /\ ReceiveRun(u, worker'[u].push)
    <3>1. \A v \in Workers : worker[v].push # worker'[u].push
      BY <2>3 DEF ReceiveRun
    <3>2. QED
      BY <1>1, <2>3, <3>1, PushesAreNat DEF AloneWithRun
  <2>4. QED
    BY <1>1, <2>1, <2>2, <2>3
<1>2. CASE worker' = worker
  BY <1>2 DEF AloneWithRun
<1>3. QED
  BY <1>1, <1>2, StepWorkers

\* Where a worker comes from that is about to write
LEMMA WorkerEnters ==
  ASSUME TypeOK, [Next]_vars, NEW w \in Workers
  PROVE  /\ worker'[w].pc = "put_processing" =>
              /\ worker'[w].push = worker[w].push
              /\ \/ worker[w].pc = "put_processing"
                 \/ FetchPull(w) /\ status[worker[w].push] = "sent_to_queue"
         /\ worker'[w].pc = "create_review" =>
              \/ worker[w].pc = "create_review"
              \/ Report(w) /\ comments = 0 /\ reviewLock' = {w}
         /\ worker'[w].pc = "set_status" =>
              /\ worker'[w].push = worker[w].push
              /\ worker[w].pc = "set_status" \/ SaveState(w)
<1>1. worker \in [Workers -> WorkerType] /\ comments \in Nat
  BY DEF TypeOK, WorkerType
<1>2. CASE worker'[w] = worker[w]
  BY <1>2
<1>3. CASE worker'[w] # worker[w]
  <2>1. WorkerStep(w)
    BY <1>3, StepWorkers
  <2>2. CASE \E p \in Pushes : ReceiveRun(w, p)
    BY <1>1, <2>2 DEF ReceiveRun, IdleWorker, WorkerType
  <2>3. CASE FetchPull(w)
    <3>1. Goto(w, "put_processing") \/ Goto(w, "analyze")
      BY <2>3 DEF FetchPull
    <3>2. CASE Goto(w, "analyze")
      BY <1>1, <3>2, GotoEffect
    <3>3. CASE ~Goto(w, "analyze")
      <4>1. Goto(w, "put_processing") /\ status[worker[w].push] = "sent_to_queue"
        BY <2>3, <3>3 DEF FetchPull
      <4>2. QED
        BY <1>1, <2>3, <4>1, GotoEffect
    <3>4. QED
      BY <3>2, <3>3
  <2>4. CASE PutProcessing(w) \/ Drop(w)
    BY <1>1, <2>4, GotoEffect DEF PutProcessing, Drop
  <2>5. CASE SaveState(w)
    BY <1>1, <2>5, GotoEffect DEF SaveState
  <2>6. CASE Report(w)
    <3>1. CASE comments > 0
      <4>0. comments # 0
        BY <1>1, <3>1
      <4>1. Conclude(w, "result", FALSE)
        BY <2>6, <4>0 DEF Report
      <4>2. "result" \in Verdicts /\ FALSE \in BOOLEAN
        BY DEF Verdicts
      <4>3. worker'[w].pc = "save_state"
        BY <1>1, <4>1, <4>2, ConcludeEffect
      <4>4. QED
        BY <4>3
    <3>2. CASE comments = 0
      BY <1>1, <2>6, <3>2, GotoEffect DEF Report
    <3>3. QED
      BY <1>1, <3>1, <3>2
  <2>7. CASE Analyze(w) \/ CreateReview(w)
    <3>1. \E verdict \in Verdicts, retry \in BOOLEAN : Conclude(w, verdict, retry)
      BY <2>7 DEF Analyze, CreateReview, Verdicts
    <3>2. QED
      BY <1>1, <3>1, ConcludeEffect
  <2>8. CASE SetCommitStatus(w)
    BY <1>1, <2>8 DEF SetCommitStatus, IdleWorker, WorkerType
  <2>9. CASE AckRun(w) \/ WorkerFails(w)
    BY <1>1, <2>9 DEF AckRun, WorkerFails, IdleWorker, WorkerType
  <2>10. QED
    BY <2>1, <2>2, <2>3, <2>4, <2>5, <2>6, <2>7, <2>8, <2>9
       DEF WorkerStep, WorkerProgress
<1>4. QED
  BY <1>2, <1>3

LEMMA CommentMoves ==
  ASSUME [Next]_vars, comments' # comments
  PROVE  \E w \in Workers : CreateReview(w) /\ comments' = comments + 1
BY DEF Next, vars, githubVars, Push, WebhookStep, RefuseAnalysis,
   CreateAnalysis, SetPending, PutRun, WebhookFails, Redeliver, WorkerStep,
   WorkerProgress, ReceiveRun, FetchPull, PutProcessing, Drop, Analyze, Report,
   CreateReview, SaveState, SetCommitStatus, AckRun, WorkerFails,
   ReviewLockExpires, StalerStep, FindStale, SetTimeoutStatus, ForceStale,
   StalerFails, RestartAnalysis

LEMMA ReviewEnds ==
  ASSUME TypeOK, NEW w \in Workers, CreateReview(w) \/ WorkerFails(w)
  PROVE  worker'[w].pc # "create_review"
<1>1. worker \in [Workers -> WorkerType]
  BY DEF TypeOK, WorkerType
<1>2. CASE CreateReview(w)
  <2>1. \E verdict \in Verdicts, retry \in BOOLEAN : Conclude(w, verdict, retry)
    BY <1>2 DEF CreateReview, Verdicts
  <2>2. QED
    BY <1>1, <2>1, ConcludeEffect
<1>3. CASE WorkerFails(w)
  BY <1>1, <1>3 DEF WorkerFails, IdleWorker
<1>4. QED
  BY <1>2, <1>3

LEMMA OutlivedStays ==
  ASSUME [Next]_vars, outlived
  PROVE  outlived'
BY ReviewLockMoves DEF reviewVars, ReviewLockExpires

\* A reporter keeps the lock until its review is created, or outlives it.
LEMMA StepAloneWithReview ==
  ASSUME TypeOK, AloneWithReview, CommentedOnce, [Next]_vars
  PROVE  AloneWithReview' /\ CommentedOnce'
<1>1. comments \in Nat
  BY DEF TypeOK
<1>2. CASE outlived'
  BY <1>2 DEF AloneWithReview, CommentedOnce
<1>3. CASE ~outlived'
  <2>1. ~outlived
    BY <1>3, OutlivedStays
  <2>2. \A w \in Workers :
          worker[w].pc = "create_review" => comments = 0 /\ reviewLock = {w}
    BY <2>1 DEF AloneWithReview
  <2>3. ASSUME NEW w \in Workers, worker'[w].pc = "create_review"
        PROVE  comments' = 0 /\ reviewLock' = {w}
    <3>1. CASE worker[w].pc = "create_review"
      <4>1. comments = 0 /\ reviewLock = {w}
        BY <2>2, <3>1
      <4>2. ~CreateReview(w) /\ ~WorkerFails(w)
        BY <2>3, ReviewEnds
      <4>3. ~ReviewLockExpires
        BY <1>3, <3>1, <4>1 DEF ReviewLockExpires
      <4>4. reviewLock' = {w}
        BY <4>1, <4>2, <4>3, ReviewLockMoves DEF reviewVars
      <4>5. ASSUME NEW v \in Workers, CreateReview(v)
            PROVE  v = w
        BY <2>2, <4>1, <4>5 DEF CreateReview
      <4>6. comments' = comments
        BY <4>2, <4>5, CommentMoves
      <4>7. QED
        BY <4>1, <4>4, <4>6
    <3>2. CASE Report(w) /\ comments = 0 /\ reviewLock' = {w}
      BY <3>2 DEF Report, githubVars
    <3>3. QED
      BY <2>3, <3>1, <3>2, WorkerEnters
  <2>4. comments' <= 1
    <3>1. CASE comments' = comments
      BY <2>1, <3>1 DEF CommentedOnce
    <3>2. CASE comments' # comments
      <4>1. PICK u \in Workers : CreateReview(u) /\ comments' = comments + 1
        BY <3>2, CommentMoves
      <4>2. comments = 0
        BY <2>2, <4>1 DEF CreateReview
      <4>3. QED
        BY <4>1, <4>2
    <3>3. QED
      BY <3>1, <3>2
  <2>5. QED
    BY <2>3, <2>4 DEF AloneWithReview, CommentedOnce
<1>4. QED
  BY <1>2, <1>3

(***************************************************************************)
(* Results before what shows them                                          *)
(***************************************************************************)

LEMMA StaysUnsaved ==
  ASSUME TypeOK, [Next]_vars, NEW p \in Pushes, p \in unsaved
  PROVE  \/ p \in unsaved'
         \/ \E w \in Workers : /\ SaveState(w)
                                /\ worker[w].push = p
                                /\ status'[p] = "processed"
BY UnsavedMoves DEF TypeOK, SetStatus

LEMMA StepNoResultYet ==
  ASSUME TypeOK, EveryRunHasRow, AloneWithRun, NoResultYet, [Next]_vars
  PROVE  NoResultYet'
<1> SUFFICES ASSUME NEW w \in Workers, worker'[w].pc = "put_processing"
             PROVE  status'[worker'[w].push] # "processed"
  BY DEF NoResultYet
<1>1. /\ worker'[w].push = worker[w].push
      /\ \/ worker[w].pc = "put_processing"
         \/ FetchPull(w) /\ status[worker[w].push] = "sent_to_queue"
  BY WorkerEnters
<1>2. worker[w].pc # "idle"
  BY <1>1 DEF FetchPull
<1>3. PICK p \in Pushes : p = worker[w].push
  BY <1>2 DEF EveryRunHasRow
<1>4. status[p] # "processed"
  BY <1>1, <1>3 DEF NoResultYet
<1>5. ASSUME NEW v \in Workers, SaveState(v), worker[v].push = p
      PROVE  FALSE
  BY <1>1, <1>2, <1>3, <1>5 DEF AloneWithRun, SaveState, FetchPull
<1>6. status'[p] # "processed"
  BY <1>4, <1>5, StatusMoves
<1>7. QED
  BY <1>1, <1>3, <1>6

LEMMA StepNotShownYet ==
  ASSUME TypeOK, EveryRunHasRow, AloneWithRun, NotShownYet, LinkShowsResult,
         [Next]_vars
  PROVE  NotShownYet'
<1> SUFFICES ASSUME NEW w \in Workers, worker'[w].pc = "put_processing"
             PROVE  \/ commitStatus'[worker'[w].push] # "result"
                    \/ worker'[w].push \in unsaved'
  BY DEF NotShownYet
<1>1. /\ worker'[w].push = worker[w].push
      /\ \/ worker[w].pc = "put_processing"
         \/ FetchPull(w) /\ status[worker[w].push] = "sent_to_queue"
  BY WorkerEnters
<1>2. worker[w].pc # "idle"
  BY <1>1 DEF FetchPull
<1>3. PICK p \in Pushes : p = worker[w].push
  BY <1>2 DEF EveryRunHasRow
<1>4. commitStatus[p] # "result" \/ p \in unsaved
  BY <1>1, <1>3 DEF NotShownYet, LinkShowsResult, Settled
<1>5. ASSUME NEW v \in Workers, SetCommitStatus(v) \/ SaveState(v),
             worker[v].push = p
      PROVE  FALSE
  BY <1>1, <1>2, <1>3, <1>5
  DEF AloneWithRun, SetCommitStatus, SaveState, FetchPull
<1>6. commitStatus'[p] # "result" \/ p \in unsaved'
  BY <1>4, <1>5, ShownMoves, StaysUnsaved
<1>7. QED
  BY <1>1, <1>3, <1>6

\* A result, or its loss, is only taken back by a worker that calls the analysis
\* running.
LEMMA ResultOrUnsavedStays ==
  ASSUME TypeOK, [Next]_vars, NEW p \in Pushes,
         status[p] \in Settled \/ p \in unsaved,
         \A w \in Workers : ~(PutProcessing(w) /\ worker[w].push = p)
  PROVE  status'[p] \in Settled \/ p \in unsaved'
<1>1. CASE p \in unsaved
  BY <1>1, StaysUnsaved DEF Settled
<1>2. CASE status[p] \in Settled
  <2>1. ~CreateAnalysis(p)
    BY <1>2 DEF CreateAnalysis, HasRow, Settled
  <2>2. QED
    BY <1>2, <2>1, StatusMoves DEF Settled
<1>3. QED
  BY <1>1, <1>2

LEMMA StepStateIsSaved ==
  ASSUME TypeOK, EveryRunHasRow, AloneWithRun, StateIsSaved, [Next]_vars
  PROVE  StateIsSaved'
<1> SUFFICES ASSUME NEW w \in Workers, worker'[w].pc = "set_status"
             PROVE  \/ status'[worker'[w].push] \in Settled
                    \/ worker'[w].push \in unsaved'
  BY DEF StateIsSaved
<1>1. /\ worker'[w].push = worker[w].push
      /\ worker[w].pc = "set_status" \/ SaveState(w)
  BY WorkerEnters
<1>2. worker[w].pc \in {"set_status", "save_state"}
  BY <1>1 DEF SaveState
<1>3. PICK p \in Pushes : p = worker[w].push
  BY <1>2 DEF EveryRunHasRow
<1>4. CASE SaveState(w)
  <2>1. status \in [Pushes -> {"none"} \cup Unfinished \cup Settled]
    BY DEF TypeOK
  <2>2. status'[p] \in Settled \/ p \in unsaved'
    BY <1>3, <1>4, <2>1 DEF SaveState, SetStatus, Settled
  <2>3. QED
    BY <1>1, <1>3, <2>2
<1>5. CASE worker[w].pc = "set_status"
  <2>1. status[p] \in Settled \/ p \in unsaved
    BY <1>3, <1>5 DEF StateIsSaved
  <2>2. ASSUME NEW v \in Workers, PutProcessing(v), worker[v].push = p
        PROVE  FALSE
    BY <1>2, <1>3, <1>5, <2>2 DEF AloneWithRun, PutProcessing
  <2>3. status'[p] \in Settled \/ p \in unsaved'
    BY <2>1, <2>2, ResultOrUnsavedStays
  <2>4. QED
    BY <1>1, <1>3, <2>3
<1>6. QED
  BY <1>1, <1>4, <1>5

LEMMA StepLinkShowsResult ==
  ASSUME TypeOK, NotShownYet, StateIsSaved, LinkShowsResult, [Next]_vars
  PROVE  LinkShowsResult'
<1> SUFFICES ASSUME NEW p \in Pushes, commitStatus'[p] = "result"
             PROVE  status'[p] \in Settled \/ p \in unsaved'
  BY DEF LinkShowsResult
<1>1. CASE p \in unsaved
  BY <1>1, StaysUnsaved DEF Settled
<1>2. CASE commitStatus[p] = "result" /\ p \notin unsaved
  <2>1. status[p] \in Settled
    BY <1>2 DEF LinkShowsResult
  <2>2. ASSUME NEW v \in Workers, PutProcessing(v), worker[v].push = p
        PROVE  FALSE
    BY <1>2, <2>2 DEF NotShownYet, PutProcessing
  <2>3. QED
    BY <2>1, <2>2, ResultOrUnsavedStays
<1>3. CASE commitStatus[p] # "result"
  <2>1. PICK w \in Workers : SetCommitStatus(w) /\ worker[w].push = p
    BY <1>3, ShownMoves
  <2>2. /\ status[p] \in Settled \/ p \in unsaved
        /\ UNCHANGED <<status, unsaved>>
    BY <2>1 DEF SetCommitStatus, StateIsSaved
  <2>3. QED
    BY <2>2
<1>4. QED
  BY <1>1, <1>2, <1>3

(***************************************************************************)
(* The theorems                                                            *)
(***************************************************************************)

LEMMA InitPullInv == Init => PullInv
<1> SUFFICES ASSUME Init PROVE PullInv
  OBVIOUS
<1>1. \A w \in Workers : worker[w].pc = "idle" /\ worker[w].push = NoPush
  BY DEF Init, IdleWorker
<1>2. EveryRunHasRow
  BY <1>1 DEF Init, EveryRunHasRow, IdleStaler
<1>3. AloneWithRun /\ AloneWithReview /\ NoResultYet /\ NotShownYet /\ StateIsSaved
  BY <1>1 DEF AloneWithRun, AloneWithReview, NoResultYet, NotShownYet,
     StateIsSaved
<1>4. CommentedOnce /\ LinkShowsResult
  BY DEF Init, CommentedOnce, LinkShowsResult
<1>5. QED
  BY <1>2, <1>3, <1>4 DEF PullInv

LEMMA StepPullInv == TypeOK /\ PullInv /\ [Next]_vars => PullInv'
<1> SUFFICES ASSUME TypeOK, PullInv, [Next]_vars PROVE PullInv'
  OBVIOUS
<1>1. EveryRunHasRow'
  BY StepEveryRunHasRow DEF PullInv
<1>2. AloneWithReview' /\ CommentedOnce'
  BY StepAloneWithReview DEF PullInv
<1>3. LocksLast => (AloneWithRun /\ NoResultYet /\ NotShownYet /\ StateIsSaved
                    /\ LinkShowsResult)'
  BY StepAloneWithRun, StepNoResultYet, StepNotShownYet, StepStateIsSaved,
     StepLinkShowsResult DEF PullInv
<1>4. QED
  BY <1>1, <1>2, <1>3 DEF PullInv

\* For any number of pushes, workers and copies of messages: rows come before
\* messages, the lock of the repository keeps reports apart until it expires, and
\* the locks of messages the runs of an analysis.
THEOREM PullInvariant == Spec => [](TypeOK /\ PullInv)
<1>1. Init => TypeOK /\ PullInv
  BY InitTypeOK, InitPullInv
<1>2. TypeOK /\ PullInv /\ [Next]_vars => (TypeOK /\ PullInv)'
  BY StepTypeOK, StepPullInv
<1>3. QED
  BY <1>1, <1>2, PTL DEF Spec

\* A commit that GitHub shows as passed or failed has a result in the table, or
\* the status API has refused it, if the locks of messages last.
THEOREM LinkIsTrue ==
  ASSUME LocksLast
  PROVE  Spec => []LinkShowsResult
<1>1. TypeOK /\ PullInv => LinkShowsResult
  BY DEF PullInv
<1>2. QED
  BY <1>1, PullInvariant, PTL

\* An issue has one comment, unless a reporter has outlived its lock; the locks of
\* messages may expire.
THEOREM OneComment == Spec => []CommentedOnce
<1>1. TypeOK /\ PullInv => CommentedOnce
  BY DEF PullInv
<1>2. QED
  BY <1>1, PullInvariant, PTL

\* If the locks of messages last, only the staler replaces a result, and only one
\* of a row that was unfinished when it was read.
THEOREM ResultsStay ==
  ASSUME LocksLast
  PROVE  Spec => ResultStays
<1> DEFINE Stays(p) ==
      /\ HasRow(p) => HasRow(p)'
      /\ status[p] \in Settled => status'[p] # "sent_to_queue"
      /\ status[p] = "processed" /\ status'[p] # "processed"
         => status'[p] = "forced_stale" /\ p \in staler.todo
<1>1. ASSUME TypeOK, PullInv, [Next]_vars
      PROVE  \A p \in Pushes : Stays(p)
  <2> SUFFICES ASSUME NEW p \in Pushes PROVE Stays(p)
    OBVIOUS
  <2>1. HasRow(p) => HasRow(p)'
    BY <1>1, RowsStay
  <2>2. HasRow(p) => ~CreateAnalysis(p)
    BY DEF CreateAnalysis
  <2>3. status[p] \in Settled => status'[p] # "sent_to_queue"
    BY <1>1, <2>2, StatusMoves DEF HasRow, Settled
  <2>4. ASSUME status[p] = "processed", status'[p] # "processed"
        PROVE  status'[p] = "forced_stale" /\ p \in staler.todo
    <3>1. ASSUME NEW w \in Workers, PutProcessing(w), worker[w].push = p
          PROVE  FALSE
      BY <1>1, <2>4, <3>1 DEF PullInv, NoResultYet, PutProcessing
    <3>2. ForceStale(p) /\ status'[p] = "forced_stale"
      BY <1>1, <2>2, <2>4, <3>1, StatusMoves DEF HasRow
    <3>3. p \in staler.todo
      BY <1>1, <3>2, PushesAreNat DEF ForceStale, PullInv, EveryRunHasRow
    <3>4. QED
      BY <3>2, <3>3
  <2>5. QED
    BY <2>1, <2>3, <2>4
<1>2. TypeOK /\ PullInv /\ [Next]_vars => [\A p \in Pushes : Stays(p)]_vars
  BY <1>1
<1>3. QED
  BY <1>2, PullInvariant, PTL DEF Spec, ResultStays

(***************************************************************************)
(* Refinement of PullAnalysisAbs                                           *)
(***************************************************************************)

LEMMA ShownStays ==
  ASSUME UNCHANGED commitStatus
  PROVE  UNCHANGED Shown
BY DEF Shown

LEMMA ShownAfter ==
  ASSUME TypeOK, NEW p \in Pushes, NEW s \in {"pending"} \cup Verdicts,
         commitStatus' = [commitStatus EXCEPT ![p] = s]
  PROVE  /\ s = "result" => Shown' = Shown \cup {p}
         /\ s # "result" => Shown' = Shown \ {p}
BY DEF TypeOK, Shown

LEMMA HiddenAfter ==
  ASSUME TypeOK, NEW p \in Pushes,
         \E s \in {"pending", "error"} :
           commitStatus' = [commitStatus EXCEPT ![p] = s]
  PROVE  Shown' = Shown \ {p}
BY ShownAfter DEF Verdicts

LEMMA InitAbs == Init => Abs!Init
BY DEF Init, Abs!Init, Shown, IdleStaler

LEMMA WebhookAbs ==
  ASSUME TypeOK, NEW p \in Pushes, WebhookStep(p)
  PROVE  [Abs!Next]_(Abs!vars)
<1> USE DEF githubVars, reviewVars
<1>1. CASE CreateAnalysis(p)
  <2>1. Abs!Accept(p)
    BY <1>1, ShownStays
    DEF CreateAnalysis, SetStatus, HasRow, Abs!Accept, Abs!Move
  <2>2. QED
    BY <2>1 DEF Abs!Next
<1>2. ASSUME NEW s \in {"pending", "error"}, RefuseAnalysis(p) \/ SetPending(p),
             commitStatus' = [commitStatus EXCEPT ![p] = s]
      PROVE  Abs!Next
  <2>1. Abs!Hide(p)
    BY <1>2, HiddenAfter DEF RefuseAnalysis, SetPending, Abs!Hide
  <2>2. QED
    BY <2>1 DEF Abs!Next
<1>3. CASE UNCHANGED <<status, commitStatus, comments, staler, unsaved, outlived>>
  BY <1>3, ShownStays DEF Abs!vars
<1>4. QED
  BY <1>1, <1>2, <1>3
  DEF WebhookStep, RefuseAnalysis, SetPending, PutRun, WebhookFails, Redeliver

\* The push a worker works on has a row.
LEMMA WorkerHasRow ==
  ASSUME PullInv, NEW w \in Workers, worker[w].pc # "idle"
  PROVE  worker[w].push \in Pushes /\ status[worker[w].push] # "none"
BY DEF PullInv, EveryRunHasRow, HasRow

\* A row in which a worker has found its analysis waiting may have been given
\* up since.
LEMMA PutProcessingAbs ==
  ASSUME TypeOK, PullInv, LocksLast,
         NEW w \in Workers, PutProcessing(w)
  PROVE  [Abs!Next]_(Abs!vars)
<1> DEFINE p == worker[w].push
<1>1. /\ p \in Pushes
      /\ status[p] \in Unfinished \cup {"forced_stale"}
      /\ p \notin Shown \/ p \in unsaved
  BY WorkerHasRow
  DEF PutProcessing, PullInv, NoResultYet, NotShownYet, Shown, TypeOK, Settled
<1>2. UNCHANGED <<Shown, comments, staler, unsaved, outlived>>
  BY ShownStays DEF PutProcessing, githubVars, reviewVars
<1>3. CASE UNCHANGED status
  BY <1>2, <1>3 DEF Abs!vars
<1>4. CASE SetStatus(p, "processing") /\ status[p] = "processing"
  <2>1. UNCHANGED status
    BY <1>4 DEF SetStatus, TypeOK
  <2>2. QED
    BY <1>2, <2>1 DEF Abs!vars
<1>5. CASE SetStatus(p, "processing") /\ status[p] # "processing"
  <2>1. Abs!Begin(p)
    BY <1>1, <1>2, <1>5 DEF SetStatus, Abs!Begin, Abs!Move, Unfinished
  <2>2. QED
    BY <1>1, <2>1 DEF Abs!Next
<1>6. QED
  BY <1>3, <1>4, <1>5 DEF PutProcessing

LEMMA SaveStateAbs ==
  ASSUME TypeOK, PullInv, NEW w \in Workers, SaveState(w)
  PROVE  [Abs!Next]_(Abs!vars)
<1>1. PICK p \in Pushes : p = worker[w].push
  BY WorkerHasRow DEF SaveState
<1>2. status[p] \in Unfinished \cup Settled
  BY <1>1, WorkerHasRow DEF SaveState, TypeOK
<1>3. UNCHANGED <<Shown, comments, staler, outlived>>
  BY ShownStays DEF SaveState, githubVars, reviewVars
<1>4. CASE SetStatus(p, "processed") /\ unsaved' = unsaved \ {p}
  <2>1. Abs!Finish(p)
    BY <1>2, <1>3, <1>4
    DEF SetStatus, Abs!Finish, Abs!Move, Abs!Ended, Unfinished, Settled
  <2>2. QED
    BY <2>1 DEF Abs!Next
<1>5. CASE status[p] \in Settled /\ UNCHANGED <<status, unsaved>>
  BY <1>3, <1>5 DEF Abs!vars
<1>6. CASE status[p] \notin Settled /\ unsaved' = unsaved \cup {p} /\ status' = status
  <2>1. Abs!Refuse(p)
    BY <1>2, <1>3, <1>6 DEF Abs!Refuse, Unfinished
  <2>2. QED
    BY <2>1 DEF Abs!Next
<1>7. QED
  BY <1>1, <1>4, <1>5, <1>6 DEF SaveState

LEMMA CreateReviewAbs ==
  ASSUME PullInv, NEW w \in Workers, CreateReview(w)
  PROVE  [Abs!Next]_(Abs!vars)
<1>1. comments = 0 \/ outlived
  BY DEF CreateReview, PullInv, AloneWithReview
<1>2. UNCHANGED <<status, Shown, staler, unsaved, outlived>>
  BY ShownStays DEF CreateReview
<1>3. CASE UNCHANGED comments
  BY <1>2, <1>3 DEF Abs!vars
<1>4. CASE comments' = comments + 1
  <2>1. Abs!Comment
    BY <1>1, <1>2, <1>4 DEF Abs!Comment
  <2>2. QED
    BY <2>1 DEF Abs!Next
<1>5. QED
  BY <1>3, <1>4 DEF CreateReview

LEMMA SetCommitStatusAbs ==
  ASSUME TypeOK, PullInv, LocksLast,
         NEW w \in Workers, SetCommitStatus(w)
  PROVE  [Abs!Next]_(Abs!vars)
<1> DEFINE p == worker[w].push
<1>1. /\ p \in Pushes /\ worker[w].verdict \in Verdicts
      /\ status[p] \in Settled \/ p \in unsaved
  BY WorkerHasRow DEF SetCommitStatus, PullInv, StateIsSaved, TypeOK
<1>2. UNCHANGED <<status, comments, staler, unsaved, outlived>>
  BY DEF SetCommitStatus, reviewVars
<1>3. CASE UNCHANGED commitStatus
  BY <1>2, <1>3, ShownStays DEF Abs!vars
<1>4. CASE commitStatus' = [commitStatus EXCEPT ![p] = worker[w].verdict]
  <2>1. Abs!Show(p) \/ Abs!Hide(p)
    BY <1>1, <1>2, <1>4, ShownAfter
    DEF Abs!Show, Abs!Hide, Abs!Ended, Settled
  <2>2. QED
    BY <1>1, <2>1 DEF Abs!Next
<1>5. QED
  BY <1>3, <1>4 DEF SetCommitStatus

LEMMA WorkerAbs ==
  ASSUME TypeOK, PullInv, LocksLast,
         NEW w \in Workers, WorkerStep(w)
  PROVE  [Abs!Next]_(Abs!vars)
<1>1. CASE FetchPull(w)
  <2>1. UNCHANGED <<status, comments, staler, unsaved, outlived>>
    BY <1>1 DEF FetchPull, reviewVars
  <2>2. CASE UNCHANGED commitStatus
    BY <2>1, <2>2, ShownStays DEF Abs!vars
  <2>3. CASE commitStatus' = [commitStatus EXCEPT ![worker[w].push] = "pending"]
    <3>1. PICK p \in Pushes : p = worker[w].push
      BY <1>1, WorkerHasRow DEF FetchPull
    <3>2. commitStatus' = [commitStatus EXCEPT ![p] = "pending"]
      BY <2>3, <3>1
    <3>3. Shown' = Shown \ {p}
      BY <3>2, HiddenAfter
    <3>4. Abs!Hide(p)
      BY <2>1, <3>3 DEF Abs!Hide
    <3>5. QED
      BY <3>4 DEF Abs!Next
  <2>4. QED
    BY <1>1, <2>2, <2>3 DEF FetchPull
<1>2. CASE UNCHANGED <<status, commitStatus, comments, staler, unsaved, outlived>>
  BY <1>2, ShownStays DEF Abs!vars
<1>3. QED
  BY <1>1, <1>2, PutProcessingAbs, SaveStateAbs, CreateReviewAbs,
     SetCommitStatusAbs
  DEF WorkerStep, WorkerProgress, ReceiveRun, Drop, Analyze, Report, AckRun,
      WorkerFails, githubVars, reviewVars

\* What the staler overwrites it has read while it was unfinished.
LEMMA StalerAbs ==
  ASSUME TypeOK, PullInv, StalerStep
  PROVE  [Abs!Next]_(Abs!vars)
<1> USE DEF reviewVars
<1>1. CASE FindStale
  <2>1. PICK S \in SUBSET {p \in Pushes : status[p] \in Unfinished} :
          staler' = [IdleStaler EXCEPT !.todo = S]
    BY <1>1 DEF FindStale
  <2>2. Abs!FindOverdue(S)
    BY <1>1, <2>1, ShownStays
    DEF FindStale, Abs!FindOverdue, Unfinished, IdleStaler, githubVars
  <2>3. QED
    BY <2>2 DEF Abs!Next
<1>2. ASSUME NEW p \in Pushes, SetTimeoutStatus(p)
      PROVE  [Abs!Next]_(Abs!vars)
  <2>1. /\ UNCHANGED <<status, comments, unsaved, outlived>>
        /\ staler'.todo = staler.todo
    BY <1>2 DEF SetTimeoutStatus, TypeOK
  <2>2. CASE UNCHANGED commitStatus
    BY <2>1, <2>2, ShownStays DEF Abs!vars
  <2>3. CASE commitStatus' = [commitStatus EXCEPT ![head] = "error"]
    <3>1. CASE head \in Pushes
      <4>1. PICK q \in Pushes : q = head
        BY <3>1
      <4>2. commitStatus' = [commitStatus EXCEPT ![q] = "error"]
        BY <2>3, <4>1
      <4>3. Shown' = Shown \ {q}
        BY <4>2, HiddenAfter
      <4>4. Abs!Hide(q)
        BY <2>1, <4>3 DEF Abs!Hide
      <4>5. QED
        BY <4>4 DEF Abs!Next
    <3>2. CASE head \notin Pushes
      <4>1. UNCHANGED commitStatus
        BY <2>3, <3>2 DEF TypeOK
      <4>2. QED
        BY <2>2, <4>1
    <3>3. QED
      BY <3>1, <3>2
  <2>4. QED
    BY <1>2, <2>2, <2>3 DEF SetTimeoutStatus
<1>3. ASSUME NEW p \in Pushes, ForceStale(p)
      PROVE  Abs!Next
  <2>1. p \in staler.todo /\ status[p] \in Unfinished \cup Settled
    BY <1>3, PushesAreNat
    DEF ForceStale, PullInv, EveryRunHasRow, HasRow, TypeOK
  <2>2. Abs!GiveUp(p)
    BY <1>3, <2>1, ShownStays
    DEF ForceStale, SetStatus, Abs!GiveUp, Abs!Move, Abs!Ended, Unfinished,
        Settled, IdleStaler, githubVars
  <2>3. QED
    BY <2>2 DEF Abs!Next
<1>4. CASE StalerFails
  <2>1. PICK p \in Pushes : p = staler.push
    BY <1>4 DEF StalerFails, TypeOK
  <2>2. Abs!Skip(p)
    BY <1>4, <2>1, ShownStays DEF StalerFails, Abs!Skip, IdleStaler, githubVars
  <2>3. QED
    BY <2>2 DEF Abs!Next
<1>5. QED
  BY <1>1, <1>2, <1>3, <1>4 DEF StalerStep

LEMMA StepAbs ==
  ASSUME TypeOK, PullInv, LocksLast, [Next]_vars
  PROVE  [Abs!Next]_(Abs!vars)
<1>1. CASE Push \/ (\E p \in Pushes : RestartAnalysis(p)) \/ UNCHANGED vars
  <2>1. UNCHANGED <<status, commitStatus, comments, staler, unsaved, outlived>>
    BY <1>1 DEF Push, RestartAnalysis, vars, githubVars, reviewVars
  <2>2. QED
    BY <2>1, ShownStays DEF Abs!vars
<1>2. CASE ReviewLockExpires
  <2>1. /\ UNCHANGED <<status, commitStatus, comments, staler, unsaved>>
        /\ outlived' \in {outlived, TRUE}
    BY <1>2 DEF ReviewLockExpires, githubVars, TypeOK
  <2>2. CASE outlived' = outlived
    BY <2>1, <2>2, ShownStays DEF Abs!vars
  <2>3. CASE outlived' = TRUE
    BY <2>1, <2>3, ShownStays DEF Abs!Outlive, Abs!Next
  <2>4. QED
    BY <2>1, <2>2, <2>3
<1>3. QED
  BY <1>1, <1>2, WebhookAbs, WorkerAbs, StalerAbs DEF Next

\* If the locks of messages last, an analysis is shown as passed only when it has
\* ended or its result was refused, is given up only if it was seen overdue, and
\* comments its issue once, unless a reporter outlives its lock: whatever webhook,
\* repeated runs and crons do to its row.
THEOREM Implementation ==
  ASSUME LocksLast
  PROVE  Spec => RefinesPull
<1>1. TypeOK /\ PullInv /\ [Next]_vars => [Abs!Next]_(Abs!vars)
  BY StepAbs
<1>2. QED
  BY <1>1, InitAbs, PullInvariant, PTL DEF Spec, RefinesPull, Abs!Spec

=============================================================================
