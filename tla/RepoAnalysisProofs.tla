------------------------- MODULE RepoAnalysisProofs -------------------------
(***************************************************************************)
(* Proofs about RepoAnalysis, for all values of its constants.             *)
(***************************************************************************)
EXTENDS RepoAnalysis, SequenceTheorems, TLAPS

(***************************************************************************)
(* Type correctness                                                        *)
(***************************************************************************)

LauncherType == [pc : {"idle", "create_db_entries", "put_run", "ack"},
                 guid : Guids \cup {NoGuid}, fresh : BOOLEAN]
WorkerType == [pc : {"idle", "get_state", "put_processing", "analyze", "ack"},
               guid : Guids \cup {NoGuid}]

\* UpdateByAnalysisGUID changes the status of the rows of one GUID only.
LEMMA SetStatusEffect ==
  ASSUME analyses \in Seq(Analyses), NEW g, NEW s \in Statuses, SetStatus(g, s)
  PROVE  /\ analyses' \in Seq(Analyses)
         /\ DOMAIN analyses' = DOMAIN analyses
         /\ \A i \in DOMAIN analyses :
              /\ analyses'[i].guid = analyses[i].guid
              /\ analyses'[i].commit = analyses[i].commit
              /\ i \in RowsOf(g) => analyses'[i].status = s
              /\ i \notin RowsOf(g) => analyses'[i] = analyses[i]
<1>1. DOMAIN analyses = 1..Len(analyses) /\ Len(analyses) \in Nat
  OBVIOUS
<1>2. DOMAIN analyses' = DOMAIN analyses
  BY DEF SetStatus
<1>3. ASSUME NEW i \in DOMAIN analyses
      PROVE  /\ analyses'[i] \in Analyses
             /\ analyses'[i].guid = analyses[i].guid
             /\ analyses'[i].commit = analyses[i].commit
             /\ i \in RowsOf(g) => analyses'[i].status = s
             /\ i \notin RowsOf(g) => analyses'[i] = analyses[i]
  <2>1. analyses[i] \in Analyses
    OBVIOUS
  <2>2. analyses'[i] = IF i \in RowsOf(g) THEN [analyses[i] EXCEPT !.status = s]
                                          ELSE analyses[i]
    BY DEF SetStatus
  <2>3. QED
    BY <2>1, <2>2 DEF Analyses
<1>4. analyses' = [i \in 1..Len(analyses) |-> analyses'[i]]
  BY <1>1 DEF SetStatus
<1>5. analyses' \in Seq(Analyses)
  BY <1>1, <1>3, <1>4, IsASeq
<1>6. QED
  BY <1>2, <1>3, <1>5

\* A put never exceeds the bound, and only adds.
LEMMA SendEffect ==
  ASSUME NEW Q \in [Guids -> 0..MaxCopies], NEW R, NEW g \in Guids,
         Q[g] < MaxCopies, R = [Q EXCEPT ![g] = @ + 1]
  PROVE  /\ R \in [Guids -> 0..MaxCopies]
         /\ R[g] > 0
         /\ \A h \in Guids : Q[h] > 0 => R[h] > 0
         /\ \A h \in Guids : h # g => R[h] = Q[h]
BY RepoAnalysisAssumption

LEMMA InitTypeOK == Init => TypeOK
<1> SUFFICES ASSUME Init PROVE TypeOK
  OBVIOUS
<1>1. launcher \in [Launchers -> LauncherType]
  BY DEF Init, IdleLauncher, LauncherType
<1>2. worker \in [Workers -> WorkerType]
  BY DEF Init, IdleWorker, WorkerType
<1>3. launchQueue \in [Guids -> 0..MaxCopies]
      /\ runQueue \in [Guids -> 0..MaxCopies]
  BY RepoAnalysisAssumption DEF Init
<1>4. analyses \in Seq(Analyses)
  BY DEF Init
<1>5. /\ connecting \in BOOLEAN
      /\ authed \in BOOLEAN
      /\ isEmpty \in BOOLEAN
      /\ commitOf \in [Guids -> Commits \cup {NoCommit}]
      /\ unsaved = {}
  BY DEF Init
<1>6. pending \in {NotPending} \cup {PendingOn(c) : c \in Commits}
  BY DEF Init
<1>7. QED
  BY <1>1, <1>2, <1>3, <1>4, <1>5, <1>6 DEF TypeOK, LauncherType, WorkerType

\* The launcher's transaction appends one row for its GUID or none.
LEMMA CreateDBEntriesEffect ==
  ASSUME TypeOK, LaunchersHoldMessages, NEW l \in Launchers, CreateDBEntries(l)
  PROVE  LET g == launcher[l].guid
             c == commitOf[g] IN
         /\ g \in Guids /\ c \in Commits
         /\ isEmpty' = FALSE
         /\ pending' \in {NotPending, PendingOn(c)}
         /\ \/ RowsOf(g) # {} /\ analyses' = analyses /\ pending' = PendingOn(c)
            \/ /\ RowsOf(g) = {}
               /\ pending' = NotPending
               /\ analyses' = Append(analyses, [guid |-> g, commit |-> c,
                                                status |-> "sent_to_queue"])
         /\ launcher' \in [Launchers -> LauncherType]
         /\ launcher'[l].pc = "put_run" /\ launcher'[l].guid = g
         /\ \A k \in Launchers \ {l} : /\ launcher'[k].pc = launcher[k].pc
                                       /\ launcher'[k].guid = launcher[k].guid
<1>1. /\ launcher[l].guid \in Guids
      /\ commitOf[launcher[l].guid] # NoCommit
  BY DEF LaunchersHoldMessages, CreateDBEntries
<1>2. commitOf[launcher[l].guid] \in Commits
  BY <1>1 DEF TypeOK
<1>3. \A k \in Launchers : launcher[k] \in LauncherType
  BY DEF TypeOK, LauncherType
<1>4. launcher' = [k \in Launchers |->
                    [launcher[k] EXCEPT !.pc = IF k = l THEN "put_run" ELSE @,
                                        !.fresh = FALSE]]
  BY DEF CreateDBEntries
<1>5. /\ launcher' \in [Launchers -> LauncherType]
      /\ launcher'[l].pc = "put_run" /\ launcher'[l].guid = launcher[l].guid
      /\ \A k \in Launchers \ {l} : /\ launcher'[k].pc = launcher[k].pc
                                    /\ launcher'[k].guid = launcher[k].guid
  BY <1>3, <1>4 DEF LauncherType
<1>6. QED
  BY <1>1, <1>2, <1>5 DEF CreateDBEntries

\* A new row belongs to its GUID, and the others stay.
LEMMA AppendEffect ==
  ASSUME analyses \in Seq(Analyses), NEW g \in Guids, NEW c \in Commits,
         analyses' = Append(analyses, [guid |-> g, commit |-> c,
                                       status |-> "sent_to_queue"])
  PROVE  /\ analyses' \in Seq(Analyses)
         /\ DOMAIN analyses' = DOMAIN analyses \cup {Len(analyses) + 1}
         /\ Len(analyses) + 1 \notin DOMAIN analyses
         /\ \A i \in DOMAIN analyses : analyses'[i] = analyses[i]
         /\ analyses'[Len(analyses) + 1] =
              [guid |-> g, commit |-> c, status |-> "sent_to_queue"]
<1>1. [guid |-> g, commit |-> c, status |-> "sent_to_queue"] \in Analyses
  BY DEF Analyses, Statuses
<1>2. QED
  BY <1>1

\* Requests and the creator
LEMMA ApiTypeOK ==
  ASSUME TypeOK,
         \/ \E g \in Guids : RequestStep(g)
         \/ CreatorSkips
         \/ UnlinkProvider
  PROVE  TypeOK'
<1>1. CASE CreatorSkips \/ UnlinkProvider
  BY <1>1 DEF CreatorSkips, UnlinkProvider, TypeOK, tableVars
<1>2. ASSUME NEW g \in Guids, RequestStep(g)
      PROVE  TypeOK'
  <2>1. /\ launchQueue' \in [Guids -> 0..MaxCopies]
        /\ connecting' \in BOOLEAN
    BY <1>2, SendEffect DEF TypeOK, RequestStep, CreatorPuts,
       HandlePushWebhook, Redeliver, Send
  <2>2. commitOf' \in [Guids -> Commits \cup {NoCommit}]
    <3>1. CASE CreatorPuts(g)
      <4>1. pending.commit \in Commits
        BY <3>1 DEF TypeOK, CreatorPuts, NotPending, PendingOn
      <4>2. QED
        BY <3>1, <4>1 DEF TypeOK, CreatorPuts
    <3>2. CASE \E c \in Commits : HandlePushWebhook(g, c)
      BY <3>2 DEF TypeOK, HandlePushWebhook
    <3>3. CASE Redeliver(g)
      BY <3>3 DEF TypeOK, Redeliver
    <3>4. QED
      BY <1>2, <3>1, <3>2, <3>3 DEF RequestStep
  <2>3. UNCHANGED <<authed, isEmpty, pending, analyses, unsaved, runQueue,
                    launcher, worker>>
    BY <1>2 DEF RequestStep, CreatorPuts, HandlePushWebhook, Redeliver,
       tableVars
  <2>4. QED
    BY <2>1, <2>2, <2>3 DEF TypeOK
<1>3. QED
  BY <1>1, <1>2

LEMMA LauncherTypeOK ==
  ASSUME TypeOK, LaunchersHoldMessages, NEW l \in Launchers, LauncherStep(l)
  PROVE  TypeOK'
<1>1. ASSUME NEW g \in Guids, ReceiveLaunch(l, g)
      PROVE  TypeOK'
  BY <1>1 DEF ReceiveLaunch, TypeOK, tableVars
<1>2. CASE CreateDBEntries(l)
  <2>1. launcher' \in [Launchers -> LauncherType] /\ isEmpty' \in BOOLEAN
    BY <1>2, CreateDBEntriesEffect
  <2>2. pending' \in {NotPending} \cup {PendingOn(c) : c \in Commits}
    BY <1>2, CreateDBEntriesEffect
  <2>3. analyses' \in Seq(Analyses)
    BY <1>2, CreateDBEntriesEffect, AppendEffect DEF TypeOK
  <2>4. UNCHANGED <<connecting, authed, unsaved, commitOf, launchQueue,
                    runQueue, worker>>
    BY <1>2 DEF CreateDBEntries
  <2>5. QED
    BY <2>1, <2>2, <2>3, <2>4 DEF TypeOK, LauncherType
<1>3. CASE PutAnalysisIntoQueue(l)
  <2>1. launcher[l].guid \in Guids
    BY <1>3 DEF PutAnalysisIntoQueue, LaunchersHoldMessages
  <2>2. runQueue' \in [Guids -> 0..MaxCopies]
    BY <1>3, <2>1, SendEffect DEF PutAnalysisIntoQueue, Send, TypeOK
  <2>3. QED
    BY <1>3, <2>2 DEF PutAnalysisIntoQueue, TypeOK, tableVars
<1>4. CASE AckLaunch(l)
  <2>1. launcher[l].guid \in Guids /\ launchQueue[launcher[l].guid] > 0
    BY <1>4 DEF AckLaunch, LaunchersHoldMessages
  <2>2. launchQueue' \in [Guids -> 0..MaxCopies]
    BY <1>4, <2>1, RepoAnalysisAssumption DEF AckLaunch, TypeOK
  <2>3. launcher' \in [Launchers -> LauncherType]
    BY <1>4 DEF AckLaunch, TypeOK, IdleLauncher, LauncherType
  <2>4. QED
    BY <1>4, <2>2, <2>3 DEF AckLaunch, TypeOK, LauncherType, tableVars
<1>5. CASE LauncherFails(l)
  BY <1>5 DEF LauncherFails, TypeOK, IdleLauncher, tableVars
<1>6. QED
  BY <1>1, <1>2, <1>3, <1>4, <1>5 DEF LauncherStep, LauncherProgress

\* The worker saves a final status; or the status API refuses it, and a run
\* that is acknowledged all the same leaves its GUID unsaved.
LEMMA ProcessEffect ==
  ASSUME TypeOK, NEW w \in Workers, Process(w)
  PROVE  /\ \/ \E s \in Final : /\ SetStatus(worker[w].guid, s)
                                /\ unsaved' = unsaved \ {worker[w].guid}
            \/ /\ UNCHANGED analyses
               /\ \/ unsaved' = unsaved
                  \/ /\ unsaved' = unsaved \cup {worker[w].guid}
                     /\ \E i \in RowsOf(worker[w].guid) :
                          analyses[i].status \notin Final
               /\ worker'[w].pc = "ack" =>
                    \/ worker[w].guid \in unsaved'
                    \/ \A i \in RowsOf(worker[w].guid) :
                         analyses[i].status \in Final
         /\ \/ worker' = [worker EXCEPT ![w] = IdleWorker]
            \/ worker' = [worker EXCEPT ![w].pc = "ack"]
<1>1. PICK o \in Outcomes :
        /\ SaveResult(worker[w].guid, o) \/ ResultRefused(worker[w].guid, o)
        /\ worker' = [worker EXCEPT ![w] = IF o.retry THEN IdleWorker
                                           ELSE [@ EXCEPT !.pc = "ack"]]
  BY DEF Process
<1>2. o.status \in Final
  BY DEF Outcomes, Final, Complete
<1>3. \/ o.retry /\ worker' = [worker EXCEPT ![w] = IdleWorker]
      \/ ~o.retry /\ worker' = [worker EXCEPT ![w].pc = "ack"]
  BY <1>1
<1>4. o.retry => worker'[w].pc # "ack"
  BY <1>1 DEF IdleWorker, TypeOK
<1>5. CASE SaveResult(worker[w].guid, o)
  BY <1>2, <1>3, <1>5 DEF SaveResult
<1>6. CASE ResultRefused(worker[w].guid, o)
  <2>1. /\ UNCHANGED analyses
        /\ \/ /\ unsaved' = unsaved
              /\ \/ o.retry
                 \/ \A i \in RowsOf(worker[w].guid) :
                      analyses[i].status \in Final
           \/ /\ unsaved' = unsaved \cup {worker[w].guid}
              /\ \E i \in RowsOf(worker[w].guid) :
                   analyses[i].status \notin Final
    BY <1>6 DEF ResultRefused
  <2>2. QED
    BY <1>3, <1>4, <2>1
<1>7. QED
  BY <1>1, <1>5, <1>6

LEMMA WorkerTypeOK ==
  ASSUME TypeOK, WorkersHoldMessages, NEW w \in Workers, WorkerStep(w)
  PROVE  TypeOK'
<1>1. ASSUME NEW g \in Guids, ReceiveRun(w, g)
      PROVE  TypeOK'
  BY <1>1 DEF ReceiveRun, TypeOK, tableVars
<1>2. CASE GetState(w)
  <2>1. PICK pc \in {"put_processing", "analyze"} :
          worker' = [worker EXCEPT ![w].pc = pc]
    BY <1>2 DEF GetState
  <2>2. worker \in [Workers -> WorkerType]
    BY DEF TypeOK, WorkerType
  <2>3. worker' \in [Workers -> WorkerType]
    BY <2>1, <2>2 DEF WorkerType
  <2>4. QED
    BY <1>2, <2>3 DEF GetState, TypeOK, WorkerType, tableVars
<1>3. CASE PutProcessing(w)
  <2>1. analyses' \in Seq(Analyses)
    BY <1>3, SetStatusEffect DEF PutProcessing, TypeOK, Statuses
  <2>2. QED
    BY <1>3, <2>1 DEF PutProcessing, TypeOK
<1>4. CASE Process(w)
  <2>1. analyses' \in Seq(Analyses)
    BY <1>4, ProcessEffect, SetStatusEffect DEF TypeOK, Statuses
  <2>2. worker' \in [Workers -> WorkerType]
    <3>1. IdleWorker \in WorkerType /\ worker \in [Workers -> WorkerType]
      BY DEF TypeOK, WorkerType, IdleWorker
    <3>2. [worker EXCEPT ![w].pc = "ack"] \in [Workers -> WorkerType]
      BY <3>1 DEF WorkerType
    <3>3. QED
      BY <1>4, <3>1, <3>2, ProcessEffect
  <2>3. worker[w].guid \in Guids \cup {NoGuid}
    BY DEF TypeOK
  <2>4. unsaved' \subseteq Guids \cup {NoGuid}
    BY <1>4, <2>3, ProcessEffect DEF TypeOK
  <2>5. QED
    BY <1>4, <2>1, <2>2, <2>4 DEF Process, TypeOK, WorkerType
<1>5. CASE AckRun(w)
  <2>1. worker[w].guid \in Guids /\ runQueue[worker[w].guid] > 0
    BY <1>5 DEF AckRun, WorkersHoldMessages
  <2>2. runQueue' \in [Guids -> 0..MaxCopies]
    BY <1>5, <2>1, RepoAnalysisAssumption DEF AckRun, TypeOK
  <2>3. QED
    BY <1>5, <2>2 DEF AckRun, TypeOK, IdleWorker, tableVars
<1>6. CASE WorkerFails(w)
  BY <1>6 DEF WorkerFails, TypeOK, IdleWorker, tableVars
<1>7. QED
  BY <1>1, <1>2, <1>3, <1>4, <1>5, <1>6 DEF WorkerStep, WorkerProgress

LEMMA StepTypeOK ==
  TypeOK /\ LaunchersHoldMessages /\ WorkersHoldMessages /\ [Next]_vars => TypeOK'
<1> SUFFICES ASSUME TypeOK, LaunchersHoldMessages, WorkersHoldMessages,
                    [Next]_vars
             PROVE  TypeOK'
  OBVIOUS
<1>1. CASE UNCHANGED vars
  BY <1>1 DEF vars, tableVars, TypeOK
<1>2. CASE Next
  BY <1>2, ApiTypeOK, LauncherTypeOK, WorkerTypeOK DEF Next
<1>3. QED
  BY <1>1, <1>2

(***************************************************************************)
(* Handlers hold their messages                                            *)
(***************************************************************************)

\* The commit of a GUID never changes, only a handler's acknowledgement takes
\* a message out of a queue.
LEMMA StepQueues ==
  ASSUME TypeOK, LaunchersHoldMessages, WorkersHoldMessages, [Next]_vars
  PROVE  /\ \A g \in Guids : commitOf[g] # NoCommit => commitOf'[g] = commitOf[g]
         /\ \A g \in Guids :
              launchQueue[g] > 0 /\ ~(launchQueue'[g] > 0)
              => \E l \in Launchers : AckLaunch(l) /\ launcher[l].guid = g
         /\ \A g \in Guids :
              runQueue[g] > 0 /\ ~(runQueue'[g] > 0)
              => \E w \in Workers : AckRun(w) /\ worker[w].guid = g
<1>1. ASSUME NEW g \in Guids, RequestStep(g)
      PROVE  /\ \A h \in Guids : commitOf[h] # NoCommit => commitOf'[h] = commitOf[h]
             /\ \A h \in Guids : launchQueue[h] > 0 => launchQueue'[h] > 0
             /\ runQueue' = runQueue
  <2>1. runQueue' = runQueue
    BY <1>1 DEF RequestStep, CreatorPuts, HandlePushWebhook, Redeliver
  <2>2. \A h \in Guids : launchQueue[h] > 0 => launchQueue'[h] > 0
    BY <1>1, SendEffect DEF TypeOK, RequestStep, CreatorPuts,
       HandlePushWebhook, Redeliver, Send
  <2>3. \A h \in Guids : commitOf[h] # NoCommit => commitOf'[h] = commitOf[h]
    BY <1>1 DEF TypeOK, RequestStep, CreatorPuts, HandlePushWebhook, Redeliver
  <2>4. QED
    BY <2>1, <2>2, <2>3
<1>2. CASE CreatorSkips \/ UnlinkProvider \/ UNCHANGED vars
  BY <1>2 DEF CreatorSkips, UnlinkProvider, vars, tableVars
<1>3. ASSUME NEW l \in Launchers, LauncherStep(l)
      PROVE  /\ commitOf' = commitOf
             /\ \A g \in Guids :
                  runQueue[g] > 0 => runQueue'[g] > 0
             /\ \A g \in Guids :
                  launchQueue[g] > 0 /\ ~(launchQueue'[g] > 0)
                  => AckLaunch(l) /\ launcher[l].guid = g
  <2>1. CASE PutAnalysisIntoQueue(l)
    <3>1. launcher[l].guid \in Guids
      BY <2>1 DEF PutAnalysisIntoQueue, LaunchersHoldMessages
    <3>2. \A g \in Guids : runQueue[g] > 0 => runQueue'[g] > 0
      BY <2>1, <3>1, SendEffect DEF TypeOK, PutAnalysisIntoQueue, Send
    <3>3. QED
      BY <2>1, <3>2 DEF PutAnalysisIntoQueue
  <2>2. CASE AckLaunch(l)
    BY <2>2 DEF AckLaunch, TypeOK, LaunchersHoldMessages
  <2>3. CASE \/ \E g \in Guids : ReceiveLaunch(l, g)
             \/ CreateDBEntries(l) \/ LauncherFails(l)
    BY <2>3 DEF ReceiveLaunch, CreateDBEntries, LauncherFails
  <2>4. QED
    BY <1>3, <2>1, <2>2, <2>3 DEF LauncherStep, LauncherProgress
<1>4. ASSUME NEW w \in Workers, WorkerStep(w)
      PROVE  /\ commitOf' = commitOf
             /\ launchQueue' = launchQueue
             /\ \A g \in Guids :
                  runQueue[g] > 0 /\ ~(runQueue'[g] > 0)
                  => AckRun(w) /\ worker[w].guid = g
  <2>1. CASE AckRun(w)
    BY <2>1 DEF AckRun, TypeOK, WorkersHoldMessages
  <2>2. CASE \/ \E g \in Guids : ReceiveRun(w, g)
             \/ GetState(w) \/ PutProcessing(w) \/ Process(w) \/ WorkerFails(w)
    BY <2>2 DEF ReceiveRun, GetState, PutProcessing, Process, WorkerFails
  <2>3. QED
    BY <1>4, <2>1, <2>2 DEF WorkerStep, WorkerProgress
<1>5. QED
  BY <1>1, <1>2, <1>3, <1>4 DEF Next

\* What a step does to launchers: one of them moves.
LEMMA StepLaunchers ==
  ASSUME TypeOK, LaunchersHoldMessages, WorkersHoldMessages, [Next]_vars
  PROVE  \/ launcher' = launcher
         \/ \E l \in Launchers :
              /\ LauncherStep(l)
              /\ \A k \in Launchers \ {l} : /\ launcher'[k].pc = launcher[k].pc
                                            /\ launcher'[k].guid = launcher[k].guid
<1>1. CASE \/ \E g \in Guids : RequestStep(g)
           \/ CreatorSkips \/ UnlinkProvider \/ UNCHANGED vars
  BY <1>1 DEF RequestStep, CreatorPuts, HandlePushWebhook, Redeliver,
     CreatorSkips, UnlinkProvider, vars
<1>2. CASE \E w \in Workers : WorkerStep(w)
  BY <1>2 DEF WorkerStep, WorkerProgress, ReceiveRun, GetState, PutProcessing,
     Process, AckRun, WorkerFails
<1>3. ASSUME NEW l \in Launchers, LauncherStep(l)
      PROVE  \A k \in Launchers \ {l} : /\ launcher'[k].pc = launcher[k].pc
                                        /\ launcher'[k].guid = launcher[k].guid
  <2>1. CASE CreateDBEntries(l)
    BY <2>1, CreateDBEntriesEffect
  <2>2. CASE \/ \E g \in Guids : ReceiveLaunch(l, g)
             \/ PutAnalysisIntoQueue(l) \/ AckLaunch(l) \/ LauncherFails(l)
    BY <2>2 DEF ReceiveLaunch, PutAnalysisIntoQueue, AckLaunch, LauncherFails,
       TypeOK
  <2>3. QED
    BY <1>3, <2>1, <2>2 DEF LauncherStep, LauncherProgress
<1>4. QED
  BY <1>1, <1>2, <1>3 DEF Next

LEMMA LauncherMoves ==
  ASSUME TypeOK, LaunchersHoldMessages, NEW l \in Launchers, LauncherStep(l)
  PROVE  \/ launcher'[l].pc = "idle"
         \/ \E g \in Guids :
              /\ ReceiveLaunch(l, g)
              /\ launcher'[l].guid = g /\ launcher'[l].pc = "create_db_entries"
         \/ /\ CreateDBEntries(l)
            /\ launcher'[l].guid = launcher[l].guid
            /\ launcher'[l].pc = "put_run"
         \/ /\ PutAnalysisIntoQueue(l)
            /\ launcher'[l].guid = launcher[l].guid
            /\ launcher'[l].pc = "ack"
<1>1. CASE CreateDBEntries(l)
  BY <1>1, CreateDBEntriesEffect
<1>2. ASSUME NEW g \in Guids, ReceiveLaunch(l, g)
      PROVE  launcher'[l].guid = g /\ launcher'[l].pc = "create_db_entries"
  BY <1>2 DEF ReceiveLaunch, TypeOK
<1>3. CASE PutAnalysisIntoQueue(l)
  BY <1>3 DEF PutAnalysisIntoQueue, TypeOK
<1>4. CASE AckLaunch(l) \/ LauncherFails(l)
  BY <1>4 DEF AckLaunch, LauncherFails, IdleLauncher, TypeOK
<1>5. QED
  BY <1>1, <1>2, <1>3, <1>4 DEF LauncherStep, LauncherProgress

LEMMA StepLaunchersHold ==
  ASSUME TypeOK, LaunchersHoldMessages, WorkersHoldMessages, [Next]_vars
  PROVE  LaunchersHoldMessages'
<1>1. TypeOK'
  BY StepTypeOK
<1>2. ASSUME NEW g \in Guids, launchQueue'[g] > 0
      PROVE  commitOf'[g] # NoCommit
  <2>1. CASE launchQueue[g] > 0
    BY <2>1, StepQueues DEF LaunchersHoldMessages
  <2>2. CASE ~(launchQueue[g] > 0)
    <3>1. ASSUME NEW h \in Guids, RequestStep(h)
          PROVE  commitOf'[g] # NoCommit
      <4>1. CASE g = h
        <5>1. CASE CreatorPuts(h)
          <6>1. pending.commit \in Commits
            BY <5>1 DEF TypeOK, CreatorPuts, NotPending, PendingOn
          <6>2. QED
            BY <4>1, <5>1, <6>1, RepoAnalysisAssumption
               DEF TypeOK, CreatorPuts
        <5>2. CASE \E c \in Commits : HandlePushWebhook(h, c)
          BY <4>1, <5>2, RepoAnalysisAssumption DEF TypeOK, HandlePushWebhook
        <5>3. CASE Redeliver(h)
          BY <4>1, <5>3 DEF Redeliver
        <5>4. QED
          BY <3>1, <5>1, <5>2, <5>3 DEF RequestStep
      <4>2. CASE g # h
        <5>1. launchQueue'[g] = launchQueue[g]
          BY <3>1, <4>2, SendEffect DEF TypeOK, RequestStep, CreatorPuts,
             HandlePushWebhook, Redeliver, Send
        <5>2. QED
          BY <1>2, <2>2, <5>1
      <4>3. QED
        BY <4>1, <4>2
    <3>2. ASSUME NEW l \in Launchers, AckLaunch(l)
          PROVE  FALSE
      <4>1. launchQueue'[g] \in {launchQueue[g], launchQueue[g] - 1}
        BY <3>2 DEF AckLaunch, TypeOK, LaunchersHoldMessages
      <4>2. QED
        BY <1>2, <2>2, <4>1 DEF TypeOK
    <3>3. CASE \/ \E l \in Launchers : LauncherStep(l) /\ ~AckLaunch(l)
               \/ \E w \in Workers : WorkerStep(w)
               \/ CreatorSkips \/ UnlinkProvider \/ UNCHANGED vars
      <4>1. launchQueue' = launchQueue
        BY <3>3 DEF LauncherStep, LauncherProgress, ReceiveLaunch,
           CreateDBEntries, PutAnalysisIntoQueue, LauncherFails, WorkerStep,
           WorkerProgress, ReceiveRun, GetState, PutProcessing, Process,
           AckRun, WorkerFails, CreatorSkips, UnlinkProvider, vars
      <4>2. QED
        BY <1>2, <2>2, <4>1
    <3>4. QED
      BY <3>1, <3>2, <3>3 DEF Next
  <2>3. QED
    BY <2>1, <2>2
<1>3. ASSUME NEW l \in Launchers, launcher'[l].pc # "idle"
      PROVE  /\ launcher'[l].guid \in Guids
             /\ launchQueue'[launcher'[l].guid] > 0
             /\ \A k \in Launchers :
                  launcher'[k].pc # "idle" /\ launcher'[k].guid = launcher'[l].guid
                  => k = l
  <2>1. CASE launcher' = launcher
    <3>1. ~\E k \in Launchers : AckLaunch(k)
      BY <2>1 DEF AckLaunch, IdleLauncher, TypeOK
    <3>2. QED
      BY <1>3, <2>1, <3>1, StepQueues DEF LaunchersHoldMessages
  <2>2. ASSUME NEW m \in Launchers, LauncherStep(m),
               \A k \in Launchers \ {m} : /\ launcher'[k].pc = launcher[k].pc
                                          /\ launcher'[k].guid = launcher[k].guid
        PROVE  /\ launcher'[l].guid \in Guids
               /\ launchQueue'[launcher'[l].guid] > 0
               /\ \A k \in Launchers :
                    launcher'[k].pc # "idle" /\ launcher'[k].guid = launcher'[l].guid
                    => k = l
    <3>1. CASE \E g \in Guids : /\ ReceiveLaunch(m, g)
                                /\ launcher'[m].guid = g
      <4>1. PICK g \in Guids : /\ ReceiveLaunch(m, g)
                               /\ launcher'[m].guid = g
        BY <3>1
      <4>2. \A k \in Launchers : launcher[k].pc # "idle" => launcher[k].guid # g
        BY <4>1 DEF ReceiveLaunch
      <4>3. launchQueue' = launchQueue /\ launchQueue[g] > 0
        BY <4>1 DEF ReceiveLaunch
      <4>4. QED
        BY <1>3, <2>2, <4>1, <4>2, <4>3 DEF LaunchersHoldMessages
    <3>2. CASE launcher'[m].pc = "idle"
      <4>1. l # m /\ launcher[l].pc # "idle"
        BY <1>3, <2>2, <3>2
      <4>2. ~(AckLaunch(m) /\ launcher[m].guid = launcher[l].guid)
        BY <4>1 DEF AckLaunch, LaunchersHoldMessages
      <4>3. \A k \in Launchers : AckLaunch(k) => k = m
        BY <2>2, <3>2, <4>1 DEF AckLaunch, IdleLauncher, TypeOK
      <4>4. launchQueue'[launcher[l].guid] > 0
        BY <4>1, <4>2, <4>3, StepQueues DEF LaunchersHoldMessages
      <4>5. QED
        BY <1>3, <2>2, <3>2, <4>1, <4>4 DEF LaunchersHoldMessages
    <3>3. CASE /\ CreateDBEntries(m) \/ PutAnalysisIntoQueue(m)
               /\ launcher'[m].guid = launcher[m].guid
      <4>1. launcher[m].pc # "idle" /\ launchQueue' = launchQueue
        BY <3>3 DEF CreateDBEntries, PutAnalysisIntoQueue
      <4>2. QED
        BY <1>3, <2>2, <3>3, <4>1 DEF LaunchersHoldMessages
    <3>4. QED
      BY <2>2, <3>1, <3>2, <3>3, LauncherMoves
  <2>3. QED
    BY <2>1, <2>2, StepLaunchers
<1>4. QED
  BY <1>2, <1>3 DEF LaunchersHoldMessages

\* What a step does to workers
LEMMA StepWorkers ==
  ASSUME TypeOK, [Next]_vars
  PROVE  \/ worker' = worker
         \/ \E w \in Workers :
              /\ WorkerStep(w)
              /\ \A v \in Workers \ {w} : worker'[v] = worker[v]
<1>1. CASE \/ \E g \in Guids : RequestStep(g)
           \/ CreatorSkips \/ UnlinkProvider \/ UNCHANGED vars
           \/ \E l \in Launchers : LauncherStep(l)
  BY <1>1 DEF RequestStep, CreatorPuts, HandlePushWebhook, Redeliver,
     CreatorSkips, UnlinkProvider, vars, LauncherStep, LauncherProgress,
     ReceiveLaunch, CreateDBEntries, PutAnalysisIntoQueue, AckLaunch,
     LauncherFails
<1>2. ASSUME NEW w \in Workers, WorkerStep(w)
      PROVE  \A v \in Workers \ {w} : worker'[v] = worker[v]
  <2>1. CASE Process(w)
    BY <2>1, ProcessEffect DEF TypeOK
  <2>2. CASE \/ \E g \in Guids : ReceiveRun(w, g)
             \/ GetState(w) \/ PutProcessing(w) \/ AckRun(w) \/ WorkerFails(w)
    BY <2>2 DEF ReceiveRun, GetState, PutProcessing, AckRun, WorkerFails, TypeOK
  <2>3. QED
    BY <1>2, <2>1, <2>2 DEF WorkerStep, WorkerProgress
<1>3. QED
  BY <1>1, <1>2 DEF Next

LEMMA WorkerMoves ==
  ASSUME TypeOK, NEW w \in Workers, WorkerStep(w)
  PROVE  \/ worker'[w].pc = "idle"
         \/ \E g \in Guids :
              /\ ReceiveRun(w, g)
              /\ worker'[w].guid = g /\ worker'[w].pc = "get_state"
         \/ /\ GetState(w)
            /\ worker'[w].guid = worker[w].guid
            /\ worker'[w].pc \in {"put_processing", "analyze"}
         \/ /\ PutProcessing(w)
            /\ worker'[w].guid = worker[w].guid /\ worker'[w].pc = "analyze"
         \/ /\ Process(w)
            /\ worker'[w].guid = worker[w].guid /\ worker'[w].pc = "ack"
<1>1. ASSUME NEW g \in Guids, ReceiveRun(w, g)
      PROVE  worker'[w].guid = g /\ worker'[w].pc = "get_state"
  BY <1>1 DEF ReceiveRun, TypeOK
<1>2. CASE GetState(w)
  BY <1>2 DEF GetState, TypeOK
<1>3. CASE PutProcessing(w)
  BY <1>3 DEF PutProcessing, TypeOK
<1>4. CASE Process(w)
  BY <1>4, ProcessEffect DEF TypeOK, IdleWorker
<1>5. CASE AckRun(w) \/ WorkerFails(w)
  BY <1>5 DEF AckRun, WorkerFails, TypeOK, IdleWorker
<1>6. QED
  BY <1>1, <1>2, <1>3, <1>4, <1>5 DEF WorkerStep, WorkerProgress

LEMMA StepWorkersHold ==
  ASSUME TypeOK, LaunchersHoldMessages, WorkersHoldMessages, [Next]_vars
  PROVE  WorkersHoldMessages'
<1>1. SUFFICES ASSUME NEW w \in Workers, worker'[w].pc # "idle"
               PROVE  /\ worker'[w].guid \in Guids
                      /\ runQueue'[worker'[w].guid] > 0
                      /\ \A v \in Workers :
                           worker'[v].pc # "idle" /\ worker'[v].guid = worker'[w].guid
                           => v = w
  BY DEF WorkersHoldMessages
<1>2. CASE worker' = worker
  <2>1. ~\E v \in Workers : AckRun(v)
    BY <1>2 DEF AckRun, IdleWorker, TypeOK
  <2>2. QED
    BY <1>1, <1>2, <2>1, StepQueues DEF WorkersHoldMessages
<1>3. ASSUME NEW u \in Workers, WorkerStep(u),
             \A v \in Workers \ {u} : worker'[v] = worker[v]
      PROVE  /\ worker'[w].guid \in Guids
             /\ runQueue'[worker'[w].guid] > 0
             /\ \A v \in Workers :
                  worker'[v].pc # "idle" /\ worker'[v].guid = worker'[w].guid
                  => v = w
  <2>1. CASE \E g \in Guids : ReceiveRun(u, g) /\ worker'[u].guid = g
    <3>1. PICK g \in Guids : ReceiveRun(u, g) /\ worker'[u].guid = g
      BY <2>1
    <3>2. /\ \A v \in Workers : worker[v].pc # "idle" => worker[v].guid # g
          /\ runQueue' = runQueue /\ runQueue[g] > 0
      BY <3>1 DEF ReceiveRun
    <3>3. QED
      BY <1>1, <1>3, <3>1, <3>2 DEF WorkersHoldMessages
  <2>2. CASE worker'[u].pc = "idle"
    <3>1. w # u /\ worker[w].pc # "idle"
      BY <1>1, <1>3, <2>2
    <3>2. ~(AckRun(u) /\ worker[u].guid = worker[w].guid)
      BY <3>1 DEF AckRun, WorkersHoldMessages
    <3>3. \A v \in Workers : AckRun(v) => v = u
      BY <1>3, <2>2 DEF AckRun, IdleWorker, TypeOK
    <3>4. runQueue'[worker[w].guid] > 0
      BY <3>1, <3>2, <3>3, StepQueues DEF WorkersHoldMessages
    <3>5. QED
      BY <1>1, <1>3, <2>2, <3>1, <3>4 DEF WorkersHoldMessages
  <2>3. CASE /\ GetState(u) \/ PutProcessing(u) \/ Process(u)
             /\ worker'[u].guid = worker[u].guid
    <3>1. worker[u].pc # "idle" /\ runQueue' = runQueue
      BY <2>3 DEF GetState, PutProcessing, Process
    <3>2. QED
      BY <1>1, <1>3, <2>3, <3>1 DEF WorkersHoldMessages
  <2>4. QED
    BY <1>3, <2>1, <2>2, <2>3, WorkerMoves
<1>4. QED
  BY <1>2, <1>3, StepWorkers

\* The locks: two handlers never hold the same message, so acknowledgements
\* never take out a message that is not there.
THEOREM TypeCorrect ==
  Spec => [](TypeOK /\ LaunchersHoldMessages /\ WorkersHoldMessages)
<1>1. Init => TypeOK /\ LaunchersHoldMessages /\ WorkersHoldMessages
  BY InitTypeOK
     DEF Init, LaunchersHoldMessages, WorkersHoldMessages, IdleLauncher,
         IdleWorker
<1>2. TypeOK /\ LaunchersHoldMessages /\ WorkersHoldMessages /\ [Next]_vars
      => (TypeOK /\ LaunchersHoldMessages /\ WorkersHoldMessages)'
  BY StepTypeOK, StepLaunchersHold, StepWorkersHold
<1>3. QED
  BY <1>1, <1>2, PTL DEF Spec

(***************************************************************************)
(* Rows and messages                                                       *)
(***************************************************************************)

\* What a step does to the rows: nothing, one row appended by a launcher for a
\* GUID without row, or a status saved by a worker.
LEMMA StepRows ==
  ASSUME TypeOK, LaunchersHoldMessages, [Next]_vars
  PROVE  \/ analyses' = analyses
         \/ \E l \in Launchers :
              /\ CreateDBEntries(l)
              /\ RowsOf(launcher[l].guid) = {}
              /\ launcher[l].guid \in Guids
              /\ commitOf[launcher[l].guid] \in Commits
              /\ analyses' = Append(analyses,
                   [guid |-> launcher[l].guid,
                    commit |-> commitOf[launcher[l].guid],
                    status |-> "sent_to_queue"])
         \/ \E w \in Workers :
              PutProcessing(w) /\ SetStatus(worker[w].guid, "processing")
         \/ \E w \in Workers, s \in Final :
              Process(w) /\ SetStatus(worker[w].guid, s)
<1>1. CASE \/ \E g \in Guids : RequestStep(g)
           \/ CreatorSkips \/ UnlinkProvider \/ UNCHANGED vars
  BY <1>1 DEF RequestStep, CreatorPuts, HandlePushWebhook, Redeliver,
     CreatorSkips, UnlinkProvider, vars, tableVars
<1>2. ASSUME NEW l \in Launchers, LauncherStep(l)
      PROVE  \/ analyses' = analyses
             \/ /\ CreateDBEntries(l)
                /\ RowsOf(launcher[l].guid) = {}
                /\ launcher[l].guid \in Guids
                /\ commitOf[launcher[l].guid] \in Commits
                /\ analyses' = Append(analyses,
                     [guid |-> launcher[l].guid,
                      commit |-> commitOf[launcher[l].guid],
                      status |-> "sent_to_queue"])
  <2>1. CASE CreateDBEntries(l)
    BY <2>1, CreateDBEntriesEffect
  <2>2. CASE \/ \E g \in Guids : ReceiveLaunch(l, g)
             \/ PutAnalysisIntoQueue(l) \/ AckLaunch(l) \/ LauncherFails(l)
    BY <2>2 DEF ReceiveLaunch, PutAnalysisIntoQueue, AckLaunch, LauncherFails,
       tableVars
  <2>3. QED
    BY <1>2, <2>1, <2>2 DEF LauncherStep, LauncherProgress
<1>3. ASSUME NEW w \in Workers, WorkerStep(w)
      PROVE  \/ analyses' = analyses
             \/ PutProcessing(w) /\ SetStatus(worker[w].guid, "processing")
             \/ \E s \in Final : Process(w) /\ SetStatus(worker[w].guid, s)
  <2>1. CASE PutProcessing(w)
    BY <2>1 DEF PutProcessing
  <2>2. CASE Process(w)
    BY <2>2, ProcessEffect
  <2>3. CASE \/ \E g \in Guids : ReceiveRun(w, g)
             \/ GetState(w) \/ AckRun(w) \/ WorkerFails(w)
    BY <2>3 DEF ReceiveRun, GetState, AckRun, WorkerFails, tableVars
  <2>4. QED
    BY <1>3, <2>1, <2>2, <2>3 DEF WorkerStep, WorkerProgress
<1>4. QED
  BY <1>1, <1>2, <1>3 DEF Next

\* Rows keep their GUID and commit; a new one is the launcher's.
LEMMA RowsKept ==
  ASSUME TypeOK, LaunchersHoldMessages, [Next]_vars
  PROVE  /\ \A i \in DOMAIN analyses :
              /\ i \in DOMAIN analyses'
              /\ analyses'[i].guid = analyses[i].guid
              /\ analyses'[i].commit = analyses[i].commit
         /\ \A i \in DOMAIN analyses' \ DOMAIN analyses :
              /\ i = Len(analyses) + 1
              /\ analyses'[i].status = "sent_to_queue"
              /\ \E l \in Launchers :
                   /\ CreateDBEntries(l)
                   /\ analyses'[i].guid = launcher[l].guid
                   /\ launcher[l].guid \in Guids
                   /\ RowsOf(launcher[l].guid) = {}
                   /\ commitOf[launcher[l].guid] \in Commits
                   /\ analyses'[i].commit = commitOf[launcher[l].guid]
<1>1. analyses \in Seq(Analyses)
  BY DEF TypeOK
<1>2. CASE analyses' = analyses
  BY <1>2
<1>3. ASSUME NEW l \in Launchers,
             CreateDBEntries(l),
             RowsOf(launcher[l].guid) = {},
             launcher[l].guid \in Guids,
             commitOf[launcher[l].guid] \in Commits,
             analyses' = Append(analyses,
               [guid |-> launcher[l].guid,
                commit |-> commitOf[launcher[l].guid],
                status |-> "sent_to_queue"])
      PROVE  /\ \A i \in DOMAIN analyses :
                  /\ i \in DOMAIN analyses'
                  /\ analyses'[i].guid = analyses[i].guid
                  /\ analyses'[i].commit = analyses[i].commit
             /\ \A i \in DOMAIN analyses' \ DOMAIN analyses :
                  /\ i = Len(analyses) + 1
                  /\ analyses'[i].status = "sent_to_queue"
                  /\ analyses'[i].guid = launcher[l].guid
                  /\ analyses'[i].commit = commitOf[launcher[l].guid]
  BY <1>1, <1>3, AppendEffect
<1>4. ASSUME NEW g, NEW s \in Statuses, SetStatus(g, s)
      PROVE  /\ DOMAIN analyses' = DOMAIN analyses
             /\ \A i \in DOMAIN analyses :
                  /\ analyses'[i].guid = analyses[i].guid
                  /\ analyses'[i].commit = analyses[i].commit
  BY <1>1, <1>4, SetStatusEffect
<1>5. "processing" \in Statuses /\ Final \subseteq Statuses
  BY DEF Statuses
<1>6. CASE \E l \in Launchers :
              /\ CreateDBEntries(l)
              /\ RowsOf(launcher[l].guid) = {}
              /\ launcher[l].guid \in Guids
              /\ commitOf[launcher[l].guid] \in Commits
              /\ analyses' = Append(analyses,
                   [guid |-> launcher[l].guid,
                    commit |-> commitOf[launcher[l].guid],
                    status |-> "sent_to_queue"])
  BY <1>3, <1>6
<1>7. CASE \/ \E w \in Workers : SetStatus(worker[w].guid, "processing")
           \/ \E w \in Workers, s \in Final : SetStatus(worker[w].guid, s)
  BY <1>4, <1>5, <1>7
<1>8. QED
  BY <1>2, <1>6, <1>7, StepRows

LEMMA RowsOfKept ==
  ASSUME TypeOK, LaunchersHoldMessages, [Next]_vars, NEW g
  PROVE  /\ RowsOf(g) \subseteq RowsOf(g)'
         /\ RowsOf(g) # {} => RowsOf(g)' # {}
BY RowsKept DEF RowsOf

LEMMA StepRowsMatch ==
  ASSUME TypeOK, LaunchersHoldMessages, WorkersHoldMessages, RowsMatchGuids,
         [Next]_vars
  PROVE  RowsMatchGuids'
<1>1. ASSUME NEW i \in DOMAIN analyses'
      PROVE  commitOf'[analyses'[i].guid] = analyses'[i].commit
  <2>1. CASE i \in DOMAIN analyses
    <3>1. analyses[i].guid \in Guids /\ analyses[i].commit \in Commits
      <4>1. analyses[i] \in Analyses
        BY <2>1 DEF TypeOK
      <4>2. QED
        BY <4>1 DEF Analyses
    <3>2. commitOf[analyses[i].guid] # NoCommit
      BY <2>1, <3>1, RepoAnalysisAssumption DEF RowsMatchGuids
    <3>3. QED
      BY <2>1, <3>1, <3>2, RowsKept, StepQueues DEF RowsMatchGuids
  <2>2. CASE i \notin DOMAIN analyses
    <3>1. PICK l \in Launchers :
            /\ CreateDBEntries(l)
            /\ analyses'[i].guid = launcher[l].guid
            /\ analyses'[i].commit = commitOf[launcher[l].guid]
      BY <1>1, <2>2, RowsKept
    <3>2. QED
      BY <3>1 DEF CreateDBEntries
  <2>3. QED
    BY <2>1, <2>2
<1>2. ASSUME NEW i \in DOMAIN analyses', NEW j \in DOMAIN analyses',
             analyses'[i].guid = analyses'[j].guid
      PROVE  i = j
  <2>1. CASE i \in DOMAIN analyses /\ j \in DOMAIN analyses
    BY <1>2, <2>1, RowsKept DEF RowsMatchGuids
  <2>2. CASE i \notin DOMAIN analyses /\ j \notin DOMAIN analyses
    BY <1>2, <2>2, RowsKept
  <2>3. ASSUME NEW m \in DOMAIN analyses, NEW n \in DOMAIN analyses' \ DOMAIN analyses
        PROVE  analyses'[m].guid # analyses'[n].guid
    BY <2>3, RowsKept DEF RowsOf
  <2>4. QED
    BY <1>2, <2>1, <2>2, <2>3
<1>3. QED
  BY <1>1, <1>2 DEF RowsMatchGuids

\* A run message is new only if a launcher that has its row puts it.
LEMMA NewRunMessage ==
  ASSUME TypeOK, LaunchersHoldMessages, WorkersHoldMessages, [Next]_vars,
         NEW g \in Guids, ~(runQueue[g] > 0), runQueue'[g] > 0
  PROVE  \E l \in Launchers : launcher[l].pc = "put_run" /\ launcher[l].guid = g
<1>1. CASE \E l \in Launchers : PutAnalysisIntoQueue(l)
  <2>1. PICK l \in Launchers : PutAnalysisIntoQueue(l)
    BY <1>1
  <2>2. launcher[l].guid \in Guids /\ launcher[l].pc = "put_run"
    BY <2>1 DEF PutAnalysisIntoQueue, LaunchersHoldMessages
  <2>3. launcher[l].guid # g => runQueue'[g] = runQueue[g]
    BY <2>1, <2>2, SendEffect DEF TypeOK, PutAnalysisIntoQueue, Send
  <2>4. QED
    BY <2>2, <2>3
<1>2. ASSUME NEW w \in Workers, AckRun(w)
      PROVE  FALSE
  <2>1. runQueue'[g] \in {runQueue[g], runQueue[g] - 1}
    BY <1>2 DEF AckRun, TypeOK, WorkersHoldMessages
  <2>2. QED
    BY <2>1 DEF TypeOK
<1>3. CASE \/ \E h \in Guids : RequestStep(h)
           \/ CreatorSkips \/ UnlinkProvider \/ UNCHANGED vars
           \/ \E l \in Launchers : LauncherStep(l) /\ ~PutAnalysisIntoQueue(l)
           \/ \E w \in Workers : WorkerStep(w) /\ ~AckRun(w)
  <2>1. runQueue' = runQueue
    BY <1>3 DEF RequestStep, CreatorPuts, HandlePushWebhook, Redeliver,
       CreatorSkips, UnlinkProvider, vars, LauncherStep, LauncherProgress,
       ReceiveLaunch, CreateDBEntries, AckLaunch, LauncherFails, WorkerStep,
       WorkerProgress, ReceiveRun, GetState, PutProcessing, Process, WorkerFails
  <2>2. QED
    BY <2>1
<1>4. QED
  BY <1>1, <1>2, <1>3 DEF Next

LEMMA StepRunsHaveRows ==
  ASSUME TypeOK, LaunchersHoldMessages, WorkersHoldMessages, RunsHaveRows,
         [Next]_vars
  PROVE  RunsHaveRows'
<1>1. ASSUME NEW g \in Guids, runQueue'[g] > 0
      PROVE  RowsOf(g)' # {}
  <2>1. CASE runQueue[g] > 0
    BY <2>1, RowsOfKept DEF RunsHaveRows
  <2>2. CASE ~(runQueue[g] > 0)
    BY <1>1, <2>2, NewRunMessage, RowsOfKept DEF RunsHaveRows
  <2>3. QED
    BY <2>1, <2>2
<1>2. ASSUME NEW l \in Launchers, launcher'[l].pc \in {"put_run", "ack"},
             NEW g \in Guids, g = launcher'[l].guid
      PROVE  RowsOf(g)' # {}
  <2>1. CASE launcher'[l].pc = launcher[l].pc /\ g = launcher[l].guid
    BY <1>2, <2>1, RowsOfKept DEF RunsHaveRows
  <2>2. CASE LauncherStep(l)
    <3>1. CASE CreateDBEntries(l) /\ g = launcher[l].guid
      <4>1. CASE RowsOf(g) # {}
        BY <4>1, RowsOfKept
      <4>2. CASE RowsOf(g) = {}
        <5>1. /\ Len(analyses) + 1 \in DOMAIN analyses'
              /\ analyses'[Len(analyses) + 1].guid = g
          <6>1. analyses \in Seq(Analyses)
            BY DEF TypeOK
          <6>2. PICK c \in Commits :
                  analyses' = Append(analyses, [guid |-> g, commit |-> c,
                                                status |-> "sent_to_queue"])
            BY <3>1, <4>2, CreateDBEntriesEffect
          <6>3. QED
            BY <6>1, <6>2, AppendEffect
        <5>2. QED
          BY <5>1 DEF RowsOf
      <4>3. QED
        BY <4>1, <4>2
    <3>2. CASE PutAnalysisIntoQueue(l) /\ g = launcher[l].guid
      <4>1. RowsOf(g) # {}
        BY <3>2 DEF RunsHaveRows, PutAnalysisIntoQueue
      <4>2. QED
        BY <4>1, RowsOfKept
    <3>3. QED
      BY <1>2, <2>2, <3>1, <3>2, LauncherMoves
  <2>3. QED
    BY <1>2, <2>1, <2>2, StepLaunchers
<1>3. \A l \in Launchers :
        launcher'[l].pc \in {"put_run", "ack"} => launcher'[l].guid \in Guids
  BY StepLaunchersHold DEF LaunchersHoldMessages
<1>4. QED
  BY <1>1, <1>2, <1>3 DEF RunsHaveRows, RowsOf

(***************************************************************************)
(* Statuses                                                                *)
(***************************************************************************)

\* A status changes only by a worker that holds the analysis.
LEMMA RowStatus ==
  ASSUME TypeOK, LaunchersHoldMessages, [Next]_vars, NEW i \in DOMAIN analyses
  PROVE  \/ analyses'[i].status = analyses[i].status
         \/ \E w \in Workers :
              /\ PutProcessing(w)
              /\ worker[w].guid = analyses[i].guid
         \/ \E w \in Workers :
              /\ Process(w)
              /\ worker[w].guid = analyses[i].guid
              /\ analyses'[i].status \in Final
<1>1. analyses \in Seq(Analyses)
  BY DEF TypeOK
<1>2. ASSUME NEW g, NEW s \in Statuses, SetStatus(g, s)
      PROVE  \/ analyses'[i].status = analyses[i].status
             \/ g = analyses[i].guid /\ analyses'[i].status = s
  BY <1>1, <1>2, SetStatusEffect DEF RowsOf
<1>3. "processing" \in Statuses /\ Final \subseteq Statuses
  BY DEF Statuses
<1>4. CASE \E l \in Launchers :
             /\ launcher[l].guid \in Guids
             /\ commitOf[launcher[l].guid] \in Commits
             /\ analyses' = Append(analyses,
                  [guid |-> launcher[l].guid,
                   commit |-> commitOf[launcher[l].guid],
                   status |-> "sent_to_queue"])
  BY <1>1, <1>4, AppendEffect
<1>5. ASSUME NEW w \in Workers, PutProcessing(w),
             SetStatus(worker[w].guid, "processing")
      PROVE  \/ analyses'[i].status = analyses[i].status
             \/ worker[w].guid = analyses[i].guid
  BY <1>2, <1>3, <1>5
<1>6. ASSUME NEW w \in Workers, NEW s \in Final, Process(w),
             SetStatus(worker[w].guid, s)
      PROVE  \/ analyses'[i].status = analyses[i].status
             \/ worker[w].guid = analyses[i].guid /\ analyses'[i].status \in Final
  BY <1>2, <1>3, <1>6
<1>7. QED
  BY <1>4, <1>5, <1>6, StepRows

\* A final status stays final: "processing" is only written over a status that
\* is still sent_to_queue.
LEMMA StepFinal ==
  ASSUME TypeOK, LaunchersHoldMessages, ProcessingIsNext, [Next]_vars,
         NEW i \in DOMAIN analyses, analyses[i].status \in Final
  PROVE  analyses'[i].status \in Final
<1>1. ASSUME NEW w \in Workers, PutProcessing(w),
             worker[w].guid = analyses[i].guid
      PROVE  FALSE
  <2>1. analyses[i].status = "sent_to_queue"
    BY <1>1 DEF ProcessingIsNext, PutProcessing, RowsOf
  <2>2. QED
    BY <2>1 DEF Final, Complete
<1>2. QED
  BY <1>1, RowStatus

\* A worker that does not move keeps its analysis to itself.
LEMMA StepProcessingIsNext ==
  ASSUME TypeOK, LaunchersHoldMessages, WorkersHoldMessages, RowsMatchGuids,
         ProcessingIsNext, [Next]_vars
  PROVE  ProcessingIsNext'
<1>1. SUFFICES ASSUME NEW w \in Workers, worker'[w].pc = "put_processing",
                      NEW i \in DOMAIN analyses',
                      analyses'[i].guid = worker'[w].guid
               PROVE  analyses'[i].status = "sent_to_queue"
  BY DEF ProcessingIsNext, RowsOf
<1>2. CASE i \notin DOMAIN analyses
  BY <1>1, <1>2, RowsKept
<1>3. CASE i \in DOMAIN analyses /\ worker'[w] = worker[w]
  <2>1. analyses[i].guid = worker[w].guid
    BY <1>1, <1>3, RowsKept
  <2>2. analyses[i].status = "sent_to_queue"
    BY <1>1, <1>3, <2>1 DEF ProcessingIsNext, RowsOf
  <2>3. ASSUME NEW v \in Workers, PutProcessing(v) \/ Process(v),
               worker[v].guid = analyses[i].guid
        PROVE  FALSE
    <3>1. v = w
      BY <1>1, <1>3, <2>1, <2>3
         DEF WorkersHoldMessages, PutProcessing, Process
    <3>2. CASE PutProcessing(v)
      BY <1>1, <3>1, <3>2 DEF PutProcessing, TypeOK
    <3>3. CASE Process(v)
      BY <1>1, <1>3, <3>1, <3>3 DEF Process
    <3>4. QED
      BY <2>3, <3>2, <3>3
  <2>4. QED
    BY <1>3, <2>2, <2>3, RowStatus
<1>4. CASE i \in DOMAIN analyses /\ WorkerStep(w)
  <2>1. GetState(w) /\ worker'[w].guid = worker[w].guid
    BY <1>1, <1>4, WorkerMoves
  <2>2. analyses' = analyses
    BY <2>1 DEF GetState, tableVars
  <2>3. \E j \in RowsOf(worker[w].guid) : analyses[j].status = "sent_to_queue"
    BY <1>1, <2>1 DEF GetState, TypeOK
  <2>4. QED
    BY <1>1, <1>4, <2>1, <2>2, <2>3 DEF RowsMatchGuids, RowsOf
<1>5. QED
  BY <1>2, <1>3, <1>4, StepWorkers

\* An action property: neither a repeated run of the worker nor a repeated
\* launch takes a final status back, and rows are never dropped.
LEMMA StepFinalStaysFinal ==
  ASSUME TypeOK, LaunchersHoldMessages, ProcessingIsNext, [Next]_vars
  PROVE  \A i \in DOMAIN analyses :
           /\ i \in DOMAIN analyses'
           /\ analyses'[i].guid = analyses[i].guid
           /\ analyses[i].status \in Final => analyses'[i].status \in Final
BY StepFinal, RowsKept

(***************************************************************************)
(* No analysis is lost                                                     *)
(***************************************************************************)

\* A GUID that has a row gets no other one.
LEMMA NoSecondRow ==
  ASSUME TypeOK, LaunchersHoldMessages, [Next]_vars, NEW g \in Guids,
         RowsOf(g) # {}, NEW i \in DOMAIN analyses', analyses'[i].guid = g
  PROVE  i \in DOMAIN analyses /\ analyses[i].guid = g
BY RowsKept

\* Only a worker's result changes what is unsaved.
LEMMA UnsavedMoves ==
  ASSUME TypeOK, [Next]_vars, unsaved' # unsaved
  PROVE  \E w \in Workers : Process(w)
BY DEF Next, RequestStep, CreatorPuts, HandlePushWebhook, Redeliver,
   CreatorSkips, UnlinkProvider, vars, tableVars, LauncherStep,
   LauncherProgress, ReceiveLaunch, CreateDBEntries, PutAnalysisIntoQueue,
   AckLaunch, LauncherFails, WorkerStep, WorkerProgress, ReceiveRun, GetState,
   PutProcessing, AckRun, WorkerFails

\* An analysis is unsaved until its status is final.
LEMMA StaysUnsaved ==
  ASSUME TypeOK, [Next]_vars, NEW i \in DOMAIN analyses,
         analyses[i].guid \in unsaved, analyses'[i].status \notin Final
  PROVE  analyses[i].guid \in unsaved'
<1>1. CASE unsaved' = unsaved
  BY <1>1
<1>2. ASSUME NEW w \in Workers, Process(w)
      PROVE  analyses[i].guid \in unsaved'
  <2>1. CASE unsaved \subseteq unsaved'
    BY <2>1
  <2>2. ASSUME NEW s \in Final, SetStatus(worker[w].guid, s),
               unsaved' = unsaved \ {worker[w].guid}
        PROVE  analyses[i].guid \in unsaved'
    <3>1. analyses \in Seq(Analyses) /\ s \in Statuses
      BY DEF TypeOK, Statuses
    <3>2. i \in RowsOf(worker[w].guid) => analyses'[i].status = s
      BY <2>2, <3>1, SetStatusEffect
    <3>3. QED
      BY <2>2, <3>2 DEF RowsOf
  <2>3. QED
    BY <1>2, <2>1, <2>2, ProcessEffect
<1>3. QED
  BY <1>1, <1>2, UnsavedMoves

LEMMA StepDurable ==
  ASSUME TypeOK, LaunchersHoldMessages, WorkersHoldMessages, RunsHaveRows,
         ProcessingIsNext, ResultIsDurable, [Next]_vars
  PROVE  ResultIsDurable'
<1>1. SUFFICES ASSUME NEW w \in Workers, worker'[w].pc = "ack",
                      worker'[w].guid \notin unsaved',
                      NEW i \in DOMAIN analyses',
                      analyses'[i].guid = worker'[w].guid
               PROVE  analyses'[i].status \in Final
  BY DEF ResultIsDurable, RowsOf
<1>2. CASE worker'[w] = worker[w]
  <2>1. worker[w].guid \in Guids /\ RowsOf(worker[w].guid) # {}
    BY <1>1, <1>2 DEF WorkersHoldMessages, RunsHaveRows
  <2>2. i \in DOMAIN analyses /\ analyses[i].guid = worker[w].guid
    BY <1>1, <1>2, <2>1, NoSecondRow
  <2>3. CASE worker[w].guid \in unsaved
    BY <1>1, <1>2, <2>2, <2>3, StaysUnsaved
  <2>4. CASE worker[w].guid \notin unsaved
    BY <1>1, <1>2, <2>2, <2>4, StepFinal DEF ResultIsDurable, RowsOf
  <2>5. QED
    BY <2>3, <2>4
<1>3. CASE WorkerStep(w)
  <2>1. Process(w) /\ worker'[w].guid = worker[w].guid
    BY <1>1, <1>3, WorkerMoves
  <2>2. ASSUME NEW s \in Final, SetStatus(worker[w].guid, s)
        PROVE  analyses'[i].status \in Final
    <3>1. analyses \in Seq(Analyses) /\ s \in Statuses
      BY DEF TypeOK, Statuses
    <3>2. QED
      BY <1>1, <2>1, <2>2, <3>1, SetStatusEffect DEF RowsOf
  <2>3. CASE /\ UNCHANGED analyses
             /\ \A j \in RowsOf(worker[w].guid) : analyses[j].status \in Final
    BY <1>1, <2>1, <2>3 DEF RowsOf
  <2>4. QED
    BY <1>1, <2>1, <2>2, <2>3, ProcessEffect
<1>4. QED
  BY <1>2, <1>3, StepWorkers

\* The last run message of an analysis leaves the queue with a final status,
\* or with one that was refused.
LEMMA AckedRunIsFinal ==
  ASSUME TypeOK, LaunchersHoldMessages, WorkersHoldMessages, ResultIsDurable,
         ProcessingIsNext, [Next]_vars, NEW i \in DOMAIN analyses,
         analyses'[i].status \notin Final, analyses[i].guid \notin unsaved,
         runQueue[analyses[i].guid] > 0
  PROVE  runQueue'[analyses[i].guid] > 0
<1>1. analyses[i].guid \in Guids /\ analyses[i].status \notin Final
  <2>1. analyses[i] \in Analyses
    BY DEF TypeOK
  <2>2. QED
    BY <2>1, StepFinal DEF Analyses
<1>2. ASSUME NEW w \in Workers, AckRun(w), worker[w].guid = analyses[i].guid
      PROVE  FALSE
  BY <1>1, <1>2 DEF ResultIsDurable, RowsOf, AckRun
<1>3. QED
  BY <1>1, <1>2, StepQueues

LEMMA StepLaunchedIsQueued ==
  ASSUME TypeOK, LaunchersHoldMessages, WorkersHoldMessages, RunsHaveRows,
         ProcessingIsNext, ResultIsDurable, LaunchedIsQueued, [Next]_vars
  PROVE  LaunchedIsQueued'
<1>1. SUFFICES ASSUME NEW l \in Launchers, launcher'[l].pc = "ack",
                      launcher'[l].guid \notin unsaved',
                      NEW i \in DOMAIN analyses',
                      analyses'[i].guid = launcher'[l].guid,
                      analyses'[i].status \notin Final
               PROVE  runQueue'[launcher'[l].guid] > 0
  BY DEF LaunchedIsQueued, RowsOf
<1>2. CASE launcher'[l].pc = launcher[l].pc /\ launcher'[l].guid = launcher[l].guid
  <2>1. launcher[l].guid \in Guids /\ RowsOf(launcher[l].guid) # {}
    BY <1>1, <1>2 DEF LaunchersHoldMessages, RunsHaveRows
  <2>2. i \in DOMAIN analyses /\ analyses[i].guid = launcher[l].guid
    BY <1>1, <1>2, <2>1, NoSecondRow
  <2>3. analyses[i].status \notin Final /\ analyses[i].guid \notin unsaved
    BY <1>1, <1>2, <2>2, StepFinal, StaysUnsaved
  <2>4. runQueue[analyses[i].guid] > 0
    BY <1>1, <1>2, <2>2, <2>3 DEF LaunchedIsQueued, RowsOf
  <2>5. QED
    BY <1>1, <1>2, <2>2, <2>3, <2>4, AckedRunIsFinal
<1>3. CASE LauncherStep(l)
  <2>1. PutAnalysisIntoQueue(l) /\ launcher'[l].guid = launcher[l].guid
    BY <1>1, <1>3, LauncherMoves
  <2>2. launcher[l].guid \in Guids
    BY <2>1 DEF PutAnalysisIntoQueue, LaunchersHoldMessages
  <2>3. QED
    BY <2>1, <2>2, SendEffect DEF PutAnalysisIntoQueue, Send, TypeOK
<1>4. QED
  BY <1>2, <1>3, StepLaunchers

LEMMA StepUnfinished ==
  ASSUME TypeOK, LaunchersHoldMessages, WorkersHoldMessages, ProcessingIsNext,
         ResultIsDurable, LaunchedIsQueued, UnfinishedIsQueued, [Next]_vars
  PROVE  UnfinishedIsQueued'
<1>1. TypeOK'
  BY StepTypeOK
<1>2. SUFFICES ASSUME NEW i \in DOMAIN analyses',
                      analyses'[i].status \notin Final,
                      analyses'[i].guid \notin unsaved'
               PROVE  launchQueue'[analyses'[i].guid]
                        + runQueue'[analyses'[i].guid] > 0
  BY DEF UnfinishedIsQueued
<1> DEFINE g == analyses'[i].guid
<1>3. g \in Guids /\ launchQueue'[g] \in Nat /\ runQueue'[g] \in Nat
  <2>1. analyses'[i] \in Analyses
    BY <1>1, <1>2 DEF TypeOK
  <2>2. g \in Guids
    BY <2>1 DEF Analyses
  <2>3. QED
    BY <1>1, <2>2, RepoAnalysisAssumption DEF TypeOK
<1>4. CASE i \notin DOMAIN analyses
  <2>1. PICK l \in Launchers : CreateDBEntries(l) /\ g = launcher[l].guid
    BY <1>2, <1>4, RowsKept
  <2>2. launchQueue' = launchQueue /\ launchQueue[g] > 0
    BY <2>1 DEF CreateDBEntries, LaunchersHoldMessages
  <2>3. QED
    BY <1>3, <2>2
<1>5. CASE i \in DOMAIN analyses
  <2>1. /\ g = analyses[i].guid
        /\ analyses[i].status \notin Final
        /\ g \notin unsaved
    BY <1>2, <1>5, RowsKept, StepFinal, StaysUnsaved
  <2>2. CASE runQueue[g] > 0
    BY <1>2, <1>3, <1>5, <2>1, <2>2, AckedRunIsFinal
  <2>3. CASE launchQueue[g] > 0 /\ ~(runQueue[g] > 0)
    <3>1. ASSUME NEW l \in Launchers, AckLaunch(l), launcher[l].guid = g
          PROVE  FALSE
      BY <1>5, <2>1, <2>3, <3>1 DEF LaunchedIsQueued, RowsOf, AckLaunch
    <3>2. launchQueue'[g] > 0
      BY <1>3, <2>3, <3>1, StepQueues
    <3>3. QED
      BY <1>3, <3>2
  <2>4. runQueue[g] > 0 \/ launchQueue[g] > 0
    <3>1. launchQueue[g] + runQueue[g] > 0
      BY <1>5, <2>1 DEF UnfinishedIsQueued
    <3>2. launchQueue[g] \in Nat /\ runQueue[g] \in Nat
      BY <1>3, RepoAnalysisAssumption DEF TypeOK
    <3>3. QED
      BY <3>1, <3>2
  <2>5. QED
    BY <2>2, <2>3, <2>4
<1>6. QED
  BY <1>4, <1>5

LEMMA StepPendingIsLaunched ==
  ASSUME TypeOK, LaunchersHoldMessages, WorkersHoldMessages, RowsMatchGuids,
         RunsHaveRows, PendingIsLaunched, [Next]_vars, pending'.has
  PROVE  \/ connecting'
         \/ \E g \in Guids : launchQueue'[g] > 0 /\ commitOf'[g] = pending'.commit
         \/ \E i \in DOMAIN analyses' : analyses'[i].commit = pending'.commit
<1>1. CASE \E l \in Launchers : CreateDBEntries(l)
  <2>1. PICK l \in Launchers : CreateDBEntries(l)
    BY <1>1
  <2>2. /\ RowsOf(launcher[l].guid) # {}
        /\ analyses' = analyses
        /\ pending' = PendingOn(commitOf[launcher[l].guid])
    <3>1. pending' # NotPending
      BY DEF NotPending
    <3>2. QED
      BY <2>1, <3>1, CreateDBEntriesEffect
  <2>3. PICK i \in DOMAIN analyses : analyses[i].guid = launcher[l].guid
    BY <2>2 DEF RowsOf
  <2>4. analyses[i].commit = pending'.commit
    BY <2>2, <2>3 DEF RowsMatchGuids, PendingOn
  <2>5. QED
    BY <2>2, <2>4
<1>2. CASE pending' = pending
  <2>1. CASE \E i \in DOMAIN analyses : analyses[i].commit = pending.commit
    BY <1>2, <2>1, RowsKept
  <2>2. ASSUME NEW g \in Guids, launchQueue[g] > 0, commitOf[g] = pending.commit
        PROVE  \/ launchQueue'[g] > 0 /\ commitOf'[g] = pending'.commit
               \/ \E i \in DOMAIN analyses : analyses[i].commit = pending.commit
    <3>1. commitOf'[g] = commitOf[g]
      BY <2>2, StepQueues DEF LaunchersHoldMessages
    <3>2. CASE \E l \in Launchers : AckLaunch(l) /\ launcher[l].guid = g
      <4>1. RowsOf(g) # {}
        BY <3>2 DEF AckLaunch, RunsHaveRows
      <4>2. QED
        BY <2>2, <4>1 DEF RowsOf, RowsMatchGuids
    <3>3. QED
      BY <1>2, <2>2, <3>1, <3>2, StepQueues
  <2>3. CASE connecting
    <3>1. ASSUME NEW g \in Guids, CreatorPuts(g)
          PROVE  launchQueue'[g] > 0 /\ commitOf'[g] = pending'.commit
      BY <1>2, <3>1, SendEffect DEF CreatorPuts, Send, TypeOK
    <3>2. ~CreatorSkips
      BY <1>2 DEF CreatorSkips
    <3>3. CASE \/ \E g \in Guids : Redeliver(g) \/ \E c \in Commits : HandlePushWebhook(g, c)
               \/ UnlinkProvider \/ UNCHANGED vars
               \/ \E l \in Launchers : LauncherStep(l)
               \/ \E w \in Workers : WorkerStep(w)
      <4>1. connecting' = connecting
        BY <3>3 DEF Redeliver, HandlePushWebhook, UnlinkProvider, vars,
           LauncherStep, LauncherProgress, ReceiveLaunch, CreateDBEntries,
           PutAnalysisIntoQueue, AckLaunch, LauncherFails, WorkerStep,
           WorkerProgress, ReceiveRun, GetState, PutProcessing, Process,
           AckRun, WorkerFails
      <4>2. QED
        BY <2>3, <4>1
    <3>4. QED
      BY <3>1, <3>2, <3>3 DEF Next, RequestStep
  <2>4. QED
    BY <1>2, <2>1, <2>2, <2>3, RowsKept DEF PendingIsLaunched
<1>3. pending' = pending \/ \E l \in Launchers : CreateDBEntries(l)
  BY DEF Next, RequestStep, CreatorPuts, HandlePushWebhook, Redeliver,
     CreatorSkips, UnlinkProvider, vars, tableVars, LauncherStep,
     LauncherProgress, ReceiveLaunch, PutAnalysisIntoQueue, AckLaunch,
     LauncherFails, WorkerStep, WorkerProgress, ReceiveRun, GetState,
     PutProcessing, Process, AckRun, WorkerFails
<1>4. QED
  BY <1>1, <1>2, <1>3

(***************************************************************************)
(* The inductive invariant                                                 *)
(***************************************************************************)

LEMMA InitAnalysisInv == Init => AnalysisInv
<1> SUFFICES ASSUME Init PROVE AnalysisInv
  OBVIOUS
<1>1. DOMAIN analyses = {}
  BY DEF Init
<1>2. LaunchersHoldMessages /\ WorkersHoldMessages
  BY DEF Init, LaunchersHoldMessages, WorkersHoldMessages, IdleLauncher,
     IdleWorker
<1>3. RunsHaveRows /\ ProcessingIsNext /\ ResultIsDurable /\ LaunchedIsQueued
  BY DEF Init, RunsHaveRows, ProcessingIsNext, ResultIsDurable,
     LaunchedIsQueued, IdleLauncher, IdleWorker
<1>4. RowsMatchGuids /\ UnfinishedIsQueued
  BY <1>1 DEF RowsMatchGuids, UnfinishedIsQueued
<1>5. PendingIsLaunched
  BY DEF Init, PendingIsLaunched
<1>6. QED
  BY <1>2, <1>3, <1>4, <1>5 DEF AnalysisInv

LEMMA StepAnalysisInv ==
  TypeOK /\ AnalysisInv /\ [Next]_vars => (TypeOK /\ AnalysisInv)'
<1> SUFFICES ASSUME TypeOK, AnalysisInv, [Next]_vars
             PROVE  (TypeOK /\ AnalysisInv)'
  OBVIOUS
<1> USE DEF AnalysisInv
<1>1. TypeOK' /\ LaunchersHoldMessages' /\ WorkersHoldMessages'
  BY StepTypeOK, StepLaunchersHold, StepWorkersHold
<1>2. RowsMatchGuids' /\ RunsHaveRows'
  BY StepRowsMatch, StepRunsHaveRows
<1>3. ProcessingIsNext'
  BY StepProcessingIsNext
<1>4. PendingIsLaunched'
  BY StepPendingIsLaunched DEF PendingIsLaunched
<1>5. ResultIsDurable' /\ LaunchedIsQueued' /\ UnfinishedIsQueued'
  BY StepDurable, StepLaunchedIsQueued, StepUnfinished
<1>6. QED
  BY <1>1, <1>2, <1>3, <1>4, <1>5

\* The protocol of both queues, the rows and their handlers
THEOREM AnalysisInvariant == Spec => [](TypeOK /\ AnalysisInv)
<1>1. Init => TypeOK /\ AnalysisInv
  BY InitTypeOK, InitAnalysisInv
<1>2. TypeOK /\ AnalysisInv /\ [Next]_vars => (TypeOK /\ AnalysisInv)'
  BY StepAnalysisInv
<1>3. QED
  BY <1>1, <1>2, PTL DEF Spec

\* An analysis without a final status has a message in one of the queues, unless
\* the status API refused its status to a worker that only warned of it: crashes,
\* repeated runs and lost races of launcher and worker never strand one.
THEOREM NoLostAnalysis == Spec => []UnfinishedIsQueued
<1>1. TypeOK /\ AnalysisInv => UnfinishedIsQueued
  BY DEF AnalysisInv
<1>2. QED
  BY <1>1, AnalysisInvariant, PTL

\* Pending changes of a connected repository whose launches are all handled
\* have an analysis.
THEOREM PendingAnalyzed == Spec => []PendingIsAnalyzed
<1>1. TypeOK /\ AnalysisInv => PendingIsAnalyzed
  <2>1. SUFFICES ASSUME TypeOK, AnalysisInv, ~connecting, pending.has,
                        \A g \in Guids : launchQueue[g] = 0
                 PROVE  \E i \in DOMAIN analyses :
                          analyses[i].commit = pending.commit
    BY DEF PendingIsAnalyzed
  <2>2. ASSUME NEW g \in Guids
        PROVE  ~(launchQueue[g] > 0)
    <3>1. launchQueue[g] = 0
      BY <2>1
    <3>2. QED
      BY <3>1
  <2>3. QED
    BY <2>1, <2>2 DEF AnalysisInv, PendingIsLaunched
<1>2. QED
  BY <1>1, AnalysisInvariant, PTL

\* Final statuses stay final and rows stay, whether the status API answers or
\* not.
THEOREM FinalIsFinal == Spec => FinalStaysFinal
<1>1. TypeOK /\ AnalysisInv /\ [Next]_vars
      => [\A i \in DOMAIN analyses :
            /\ i \in DOMAIN analyses'
            /\ analyses'[i].guid = analyses[i].guid
            /\ analyses[i].status \in Final => analyses'[i].status \in Final]_vars
  BY StepFinalStaysFinal DEF AnalysisInv
<1>2. QED
  BY <1>1, AnalysisInvariant, PTL DEF Spec, FinalStaysFinal

(***************************************************************************)
(* The page of the report                                                  *)
(***************************************************************************)

\* A repository that has commits does not become empty.
LEMMA StaysFilled ==
  ASSUME TypeOK, LaunchersHoldMessages, ~isEmpty, [Next]_vars
  PROVE  ~isEmpty'
<1>1. CASE \/ \E g \in Guids : RequestStep(g)
           \/ CreatorSkips \/ UnlinkProvider \/ UNCHANGED vars
  BY <1>1 DEF RequestStep, CreatorPuts, HandlePushWebhook, Redeliver,
     CreatorSkips, UnlinkProvider, vars, tableVars
<1>2. ASSUME NEW l \in Launchers, LauncherStep(l)
      PROVE  ~isEmpty'
  <2>1. CASE CreateDBEntries(l)
    BY <2>1, CreateDBEntriesEffect
  <2>2. CASE \/ \E g \in Guids : ReceiveLaunch(l, g)
             \/ PutAnalysisIntoQueue(l) \/ AckLaunch(l) \/ LauncherFails(l)
    BY <2>2 DEF ReceiveLaunch, PutAnalysisIntoQueue, AckLaunch, LauncherFails,
       tableVars
  <2>3. QED
    BY <1>2, <2>1, <2>2 DEF LauncherStep, LauncherProgress
<1>3. CASE \E w \in Workers : WorkerStep(w)
  BY <1>3 DEF WorkerStep, WorkerProgress, ReceiveRun, GetState, PutProcessing,
     Process, AckRun, WorkerFails, tableVars
<1>4. QED
  BY <1>1, <1>2, <1>3 DEF Next

\* A step adds one row at most, and a new row is not complete.
LEMMA RowsGrow ==
  ASSUME TypeOK, LaunchersHoldMessages, WorkersHoldMessages, [Next]_vars
  PROVE  /\ DOMAIN analyses = 1..Len(analyses) /\ Len(analyses) \in Nat
         /\ DOMAIN analyses' = 1..Len(analyses') /\ Len(analyses') \in Nat
         /\ \/ Len(analyses') = Len(analyses)
            \/ /\ Len(analyses') = Len(analyses) + 1
               /\ analyses'[Len(analyses')].status = "sent_to_queue"
<1> DEFINE n == Len(analyses)
           m == Len(analyses')
<1>1. analyses \in Seq(Analyses) /\ analyses' \in Seq(Analyses)
  BY StepTypeOK DEF TypeOK
<1>2. DOMAIN analyses = 1..n /\ n \in Nat
  BY <1>1
<1>3. DOMAIN analyses' = 1..m /\ m \in Nat
  BY <1>1
<1>4. 1..n \subseteq 1..m
  BY <1>2, <1>3, RowsKept
<1>5. \A i \in DOMAIN analyses' \ DOMAIN analyses :
        i = n + 1 /\ analyses'[i].status = "sent_to_queue"
  BY RowsKept
<1> HIDE DEF n, m
<1>6. m = n \/ m \in (1..m) \ (1..n)
  BY <1>2, <1>3, <1>4
<1>7. m = n \/ (m = n + 1 /\ analyses'[m].status = "sent_to_queue")
  <2>1. m = n \/ m \in DOMAIN analyses' \ DOMAIN analyses
    BY <1>2, <1>3, <1>6, Zenon
  <2>2. QED
    BY <1>5, <2>1, Zenon
<1>8. QED
  BY <1>2, <1>3, <1>7, Zenon DEF n, m

\* What is shown is complete until it is not found, and only a newer row can
\* take its place.
LEMMA StepReport ==
  ASSUME TypeOK, LaunchersHoldMessages, WorkersHoldMessages, ProcessingIsNext,
         [Next]_vars, IsComplete(Shown), analyses'[Shown].status # "not_found"
  PROVE  Shown' >= Shown
<1> DEFINE n == Len(analyses)
           m == Len(analyses')
           i == Shown
<1>1. ~isEmpty /\ ~isEmpty' /\ i \in DOMAIN analyses
  <2>1. i \in DOMAIN analyses /\ DOMAIN analyses = 1..n
    BY RowsGrow DEF IsComplete
  <2>2. ~isEmpty
    BY <2>1 DEF Shown
  <2>3. QED
    BY <2>1, <2>2, StaysFilled
<1>2. /\ n \in Nat /\ m \in Nat /\ DOMAIN analyses = 1..n
      /\ m = n \/ (m = n + 1 /\ analyses'[m].status = "sent_to_queue")
  BY RowsGrow
<1>3. i \in DOMAIN analyses' /\ analyses'[i].status \in Complete
  <2>1. analyses[i].status \in Final
    BY DEF IsComplete, Final
  <2>2. analyses'[i].status \in Final
    BY <1>1, <2>1, StepFinal
  <2>3. QED
    BY <1>1, <2>2, RowsKept DEF Final
<1>4. i = n \/ i = n - 1
  BY <1>1 DEF Shown
<1>5. /\ Shown' = m \/ Shown' = m - 1
      /\ i = m => Shown' = m
  <2> DEFINE done(k) == k \in DOMAIN analyses' /\ analyses'[k].status \in Complete
  <2>1. Shown' = IF ~done(m) /\ done(m - 1) THEN m - 1 ELSE m
    BY <1>1 DEF Shown, IsComplete
  <2>2. done(i)
    BY <1>3
  <2>3. QED
    BY <2>1, <2>2
<1>6. QED
  BY <1>2, <1>4, <1>5

\* The page of the report never goes back to an older complete report, but for
\* one that was shown and is not found any more.
THEOREM ReportOnlyForward == Spec => ReportMovesForward
<1>1. TypeOK /\ AnalysisInv /\ [Next]_vars
      => [IsComplete(Shown) =>
            Shown' >= Shown \/ analyses'[Shown].status = "not_found"]_vars
  BY StepReport DEF AnalysisInv
<1>2. QED
  BY <1>1, AnalysisInvariant, PTL DEF Spec, ReportMovesForward

(***************************************************************************)
(* Refinement of RepoAnalysisAbs                                           *)
(***************************************************************************)

LEMMA TheRow ==
  ASSUME NEW R, NEW A, NEW i \in R, \A j \in R : j = i
  PROVE  A[CHOOSE j \in R : TRUE] = A[i]
<1>1. (CHOOSE j \in R : TRUE) \in R
  OBVIOUS
<1>2. QED
  BY <1>1

\* The status of a GUID is that of its row.
LEMMA StatusOfRow ==
  ASSUME RowsMatchGuids, NEW g \in Guids
  PROVE  /\ RowsOf(g) = {} => Status[g] = "none"
         /\ \A i \in RowsOf(g) : Status[g] = analyses[i].status
<1>1. ASSUME NEW i \in RowsOf(g)
      PROVE  Status[g] = analyses[i].status
  <2>1. \A j \in RowsOf(g) : j = i
    BY DEF RowsMatchGuids, RowsOf
  <2>2. analyses[CHOOSE j \in RowsOf(g) : TRUE] = analyses[i]
    BY <2>1, TheRow
  <2>3. QED
    BY <2>2 DEF Status
<1>2. QED
  BY <1>1 DEF Status

LEMMA StatusOfNextRow ==
  ASSUME RowsMatchGuids', NEW g \in Guids
  PROVE  /\ RowsOf(g)' = {} => Status'[g] = "none"
         /\ \A i \in RowsOf(g)' : Status'[g] = analyses'[i].status
<1>1. ASSUME NEW i \in RowsOf(g)'
      PROVE  Status'[g] = analyses'[i].status
  <2>1. \A j \in RowsOf(g)' : j = i
    BY DEF RowsMatchGuids, RowsOf
  <2>2. analyses'[CHOOSE j \in RowsOf(g)' : TRUE] = analyses'[i]
    BY <2>1, TheRow
  <2>3. QED
    BY <2>2 DEF Status
<1>2. QED
  BY <1>1 DEF Status

LEMMA StatusStays ==
  ASSUME UNCHANGED analyses
  PROVE  UNCHANGED Status
BY DEF Status, RowsOf

LEMMA StatusSet ==
  ASSUME TypeOK, RowsMatchGuids, RowsMatchGuids', NEW g \in Guids,
         NEW s \in Statuses, RowsOf(g) # {}, SetStatus(g, s)
  PROVE  Status' = [Status EXCEPT ![g] = s]
<1>1. /\ DOMAIN analyses' = DOMAIN analyses
      /\ \A i \in DOMAIN analyses :
           /\ analyses'[i].guid = analyses[i].guid
           /\ i \in RowsOf(g) => analyses'[i].status = s
           /\ i \notin RowsOf(g) => analyses'[i] = analyses[i]
  BY SetStatusEffect DEF TypeOK
<1>2. ASSUME NEW h \in Guids
      PROVE  Status'[h] = IF h = g THEN s ELSE Status[h]
  <2>1. RowsOf(h)' = RowsOf(h)
    BY <1>1 DEF RowsOf
  <2>2. CASE RowsOf(h) = {}
    BY <2>1, <2>2, StatusOfRow, StatusOfNextRow
  <2>3. ASSUME NEW i \in RowsOf(h)
        PROVE  Status'[h] = IF h = g THEN s ELSE Status[h]
    <3>1. /\ Status'[h] = analyses'[i].status
          /\ Status[h] = analyses[i].status
      BY <2>1, <2>3, StatusOfRow, StatusOfNextRow
    <3>2. i \in DOMAIN analyses /\ (h # g => i \notin RowsOf(g))
      BY <2>3 DEF RowsOf
    <3>3. QED
      BY <1>1, <2>3, <3>1, <3>2
  <2>4. QED
    BY <2>2, <2>3
<1>3. QED
  BY <1>2 DEF Status

LEMMA StatusAppended ==
  ASSUME TypeOK, RowsMatchGuids, RowsMatchGuids', NEW g \in Guids,
         NEW c \in Commits, RowsOf(g) = {},
         analyses' = Append(analyses, [guid |-> g, commit |-> c,
                                       status |-> "sent_to_queue"])
  PROVE  Status' = [Status EXCEPT ![g] = "sent_to_queue"]
<1> DEFINE n == Len(analyses) + 1
<1>1. /\ DOMAIN analyses' = DOMAIN analyses \cup {n}
      /\ n \notin DOMAIN analyses
      /\ \A i \in DOMAIN analyses : analyses'[i] = analyses[i]
      /\ analyses'[n] = [guid |-> g, commit |-> c, status |-> "sent_to_queue"]
  BY AppendEffect DEF TypeOK
<1> HIDE DEF n
<1>2. ASSUME NEW h \in Guids
      PROVE  Status'[h] = IF h = g THEN "sent_to_queue" ELSE Status[h]
  <2>1. CASE h = g
    <3>1. n \in RowsOf(g)' /\ analyses'[n].status = "sent_to_queue"
      BY <1>1 DEF RowsOf
    <3>2. QED
      BY <2>1, <3>1, StatusOfNextRow
  <2>2. CASE h # g
    <3>1. RowsOf(h)' = RowsOf(h)
      BY <1>1, <2>2 DEF RowsOf
    <3>2. CASE RowsOf(h) = {}
      BY <2>2, <3>1, <3>2, StatusOfRow, StatusOfNextRow
    <3>3. ASSUME NEW i \in RowsOf(h)
          PROVE  Status'[h] = Status[h]
      <4>1. /\ Status'[h] = analyses'[i].status
            /\ Status[h] = analyses[i].status
        BY <3>1, <3>3, StatusOfRow, StatusOfNextRow
      <4>2. QED
        BY <1>1, <3>3, <4>1 DEF RowsOf
    <3>4. QED
      BY <2>2, <3>2, <3>3
  <2>3. QED
    BY <2>1, <2>2
<1>3. QED
  BY <1>2 DEF Status

LEMMA InitAbs == Init => Abs!Init
<1> SUFFICES ASSUME Init PROVE Abs!Init
  OBVIOUS
<1>1. \A g \in Guids : RowsOf(g) = {}
  <2>1. DOMAIN analyses = {}
    BY DEF Init
  <2>2. QED
    BY <2>1 DEF RowsOf
<1>2. Status = [g \in Guids |-> "none"]
  BY <1>1 DEF Status
<1>3. Owed = {}
  BY DEF Init, Owed
<1>4. QED
  BY <1>2, <1>3 DEF Init, Abs!Init

\* A message that is put makes its GUID owed, and no other one.
LEMMA SendOwes ==
  ASSUME TypeOK, NEW g \in Guids,
         \/ Send(launchQueue, g) /\ UNCHANGED runQueue
         \/ Send(runQueue, g) /\ UNCHANGED launchQueue
  PROVE  Owed' = Owed \cup {g}
<1>1. CASE Send(launchQueue, g) /\ UNCHANGED runQueue
  BY <1>1, SendEffect DEF Send, Owed, TypeOK
<1>2. CASE Send(runQueue, g) /\ UNCHANGED launchQueue
  BY <1>2, SendEffect DEF Send, Owed, TypeOK
<1>3. QED
  BY <1>1, <1>2

LEMMA OwedStays ==
  ASSUME UNCHANGED <<launchQueue, runQueue>>
  PROVE  UNCHANGED Owed
BY DEF Owed

LEMMA RequestAbs ==
  ASSUME TypeOK, NEW g \in Guids, RequestStep(g)
  PROVE  Abs!Next
<1>1. UNCHANGED <<Status, unsaved>> /\ Owed' = Owed \cup {g}
  BY StatusStays, SendOwes
  DEF RequestStep, CreatorPuts, HandlePushWebhook, Redeliver, tableVars
<1>2. CASE Redeliver(g)
  <2>1. Abs!AskAgain(g)
    BY <1>1, <1>2 DEF Redeliver, Abs!AskAgain
  <2>2. QED
    BY <2>1 DEF Abs!Next
<1>3. ASSUME NEW c \in Commits, HandlePushWebhook(g, c)
      PROVE  Abs!Next
  <2>1. Abs!Ask(g, c)
    BY <1>1, <1>3 DEF HandlePushWebhook, Abs!Ask
  <2>2. QED
    BY <2>1 DEF Abs!Next
<1>4. CASE CreatorPuts(g)
  <2>1. PICK c \in Commits : pending = PendingOn(c)
    BY <1>4 DEF CreatorPuts, TypeOK, NotPending
  <2>2. pending.commit = c
    BY <2>1 DEF PendingOn
  <2>3. Abs!Ask(g, c)
    BY <1>1, <1>4, <2>2 DEF CreatorPuts, Abs!Ask
  <2>4. QED
    BY <2>3 DEF Abs!Next
<1>5. QED
  BY <1>2, <1>3, <1>4 DEF RequestStep

\* The transaction accepts a GUID only if its commit has no other analysis.
LEMMA CreateDBEntriesAbs ==
  ASSUME TypeOK, AnalysisInv, RowsMatchGuids', NEW l \in Launchers,
         CreateDBEntries(l)
  PROVE  [Abs!Next]_(Abs!vars)
<1> USE DEF AnalysisInv
<1>1. PICK g \in Guids : /\ g = launcher[l].guid
                         /\ launchQueue[g] > 0
                         /\ commitOf[g] \in Commits
  <2>1. /\ launcher[l].guid \in Guids
        /\ launchQueue[launcher[l].guid] > 0
    BY DEF CreateDBEntries, LaunchersHoldMessages
  <2>2. commitOf[launcher[l].guid] \in Commits
    BY CreateDBEntriesEffect
  <2>3. QED
    BY <2>1, <2>2
<1>2. UNCHANGED <<commitOf, Owed, unsaved>>
  BY OwedStays DEF CreateDBEntries
<1>3. CASE UNCHANGED analyses
  BY <1>2, <1>3, StatusStays DEF Abs!vars
<1>4. CASE analyses' # analyses
  <2>1. /\ RowsOf(g) = {}
        /\ \A i \in DOMAIN analyses : analyses[i].commit # commitOf[g]
        /\ analyses' = Append(analyses, [guid |-> g, commit |-> commitOf[g],
                                         status |-> "sent_to_queue"])
    BY <1>1, <1>4 DEF CreateDBEntries
  <2>2. Status' = [Status EXCEPT ![g] = "sent_to_queue"] /\ Status[g] = "none"
    BY <1>1, <2>1, StatusAppended, StatusOfRow
  <2>3. ASSUME NEW h \in Guids, Status[h] # "none"
        PROVE  commitOf[h] # commitOf[g]
    <3>1. PICK i \in RowsOf(h) : TRUE
      BY <2>3, StatusOfRow
    <3>2. i \in DOMAIN analyses /\ commitOf[h] = analyses[i].commit
      BY <3>1 DEF RowsOf, RowsMatchGuids
    <3>3. QED
      BY <2>1, <3>2
  <2>4. g \in Owed
    BY <1>1 DEF Owed
  <2>5. Abs!Accept(g)
    BY <1>2, <2>2, <2>3, <2>4 DEF Abs!Accept, Abs!Move
  <2>6. QED
    BY <2>5 DEF Abs!Next
<1>5. QED
  BY <1>3, <1>4

\* A launch is forgotten only when its run is queued or over.
LEMMA AckLaunchAbs ==
  ASSUME TypeOK, AnalysisInv, NEW l \in Launchers, AckLaunch(l)
  PROVE  [Abs!Next]_(Abs!vars)
<1> USE DEF AnalysisInv
<1>1. PICK g \in Guids : g = launcher[l].guid
  BY DEF AckLaunch, LaunchersHoldMessages
<1>2. /\ launchQueue' = [launchQueue EXCEPT ![g] = @ - 1]
      /\ UNCHANGED <<commitOf, runQueue, Status, unsaved>>
  BY <1>1, StatusStays DEF AckLaunch, tableVars
<1>3. Owed' \in {Owed, Owed \ {g}}
  <2>1. ASSUME NEW h \in Guids, h # g
        PROVE  h \in Owed' <=> h \in Owed
    BY <1>2, <2>1 DEF Owed, TypeOK
  <2>2. g \in Owed
    BY <1>1 DEF AckLaunch, LaunchersHoldMessages, Owed
  <2>3. Owed \subseteq Guids /\ Owed' \subseteq Guids
    BY DEF Owed
  <2>4. QED
    BY <2>1, <2>2, <2>3
<1>4. CASE Owed' = Owed
  BY <1>2, <1>4 DEF Abs!vars
<1>5. CASE Owed' = Owed \ {g}
  <2>1. ~(runQueue[g] > 0)
    BY <1>2, <1>5 DEF Owed
  <2>2. PICK i \in RowsOf(g) : TRUE
    BY <1>1 DEF AckLaunch, RunsHaveRows
  <2>3. analyses[i].status \in Final \/ g \in unsaved
    BY <1>1, <2>1, <2>2 DEF AckLaunch, LaunchedIsQueued
  <2>4. Status[g] \in Abs!Final \/ g \in unsaved
    BY <2>2, <2>3, StatusOfRow DEF Final, Complete, Abs!Final
  <2>5. Abs!Settle(g)
    BY <1>2, <1>5, <2>4 DEF Abs!Settle
  <2>6. QED
    BY <2>5 DEF Abs!Next
<1>6. QED
  BY <1>3, <1>4, <1>5

LEMMA LauncherAbs ==
  ASSUME TypeOK, AnalysisInv, RowsMatchGuids', NEW l \in Launchers,
         LauncherStep(l)
  PROVE  [Abs!Next]_(Abs!vars)
<1>1. CASE PutAnalysisIntoQueue(l)
  <2>1. PICK g \in Guids : g = launcher[l].guid /\ launchQueue[g] > 0
    BY <1>1 DEF PutAnalysisIntoQueue, AnalysisInv, LaunchersHoldMessages
  <2>2. Owed' = Owed \cup {g} /\ g \in Owed
    BY <1>1, <2>1, SendOwes DEF PutAnalysisIntoQueue, Owed
  <2>3. QED
    BY <1>1, <2>2, StatusStays DEF PutAnalysisIntoQueue, tableVars, Abs!vars
<1>2. CASE (\E g \in Guids : ReceiveLaunch(l, g)) \/ LauncherFails(l)
  BY <1>2, StatusStays, OwedStays
  DEF ReceiveLaunch, LauncherFails, tableVars, Abs!vars
<1>3. QED
  BY <1>1, <1>2, CreateDBEntriesAbs, AckLaunchAbs
  DEF LauncherStep, LauncherProgress

\* A worker's message has a row, and is owed.
LEMMA WorkerHasRow ==
  ASSUME AnalysisInv, NEW w \in Workers, worker[w].pc # "idle"
  PROVE  \E g \in Guids : g = worker[w].guid /\ g \in Owed /\ RowsOf(g) # {}
BY DEF AnalysisInv, WorkersHoldMessages, RunsHaveRows, Owed

LEMMA PutProcessingAbs ==
  ASSUME TypeOK, AnalysisInv, RowsMatchGuids', NEW w \in Workers,
         PutProcessing(w)
  PROVE  [Abs!Next]_(Abs!vars)
<1> USE DEF AnalysisInv
<1>1. PICK g \in Guids : g = worker[w].guid /\ g \in Owed /\ RowsOf(g) # {}
  BY WorkerHasRow DEF PutProcessing
<1>2. UNCHANGED <<commitOf, Owed, unsaved>>
  BY OwedStays DEF PutProcessing
<1>3. CASE UNCHANGED analyses
  BY <1>2, <1>3, StatusStays DEF Abs!vars
<1>4. CASE SetStatus(g, "processing")
  <2>1. Status' = [Status EXCEPT ![g] = "processing"]
    BY <1>1, <1>4, StatusSet DEF Statuses
  <2>2. Status[g] = "sent_to_queue"
    BY <1>1, StatusOfRow DEF PutProcessing, ProcessingIsNext
  <2>3. Abs!Begin(g)
    BY <1>1, <1>2, <2>1, <2>2 DEF Abs!Begin, Abs!Move
  <2>4. QED
    BY <2>3 DEF Abs!Next
<1>5. QED
  BY <1>1, <1>3, <1>4 DEF PutProcessing

LEMMA ProcessAbs ==
  ASSUME TypeOK, AnalysisInv, RowsMatchGuids', NEW w \in Workers, Process(w)
  PROVE  [Abs!Next]_(Abs!vars)
<1> USE DEF AnalysisInv
<1>1. PICK g \in Guids : g = worker[w].guid /\ g \in Owed /\ RowsOf(g) # {}
  BY WorkerHasRow DEF Process
<1>2. UNCHANGED <<commitOf, Owed>>
  BY OwedStays DEF Process
<1>3. ASSUME NEW i \in RowsOf(g)
      PROVE  Status[g] \in Statuses /\ Status[g] = analyses[i].status
  <2>1. analyses[i] \in Analyses /\ Status[g] = analyses[i].status
    BY <1>3, StatusOfRow DEF TypeOK, RowsOf
  <2>2. QED
    BY <2>1 DEF Analyses
<1>4. ASSUME NEW s \in Final, SetStatus(g, s), unsaved' = unsaved \ {g}
      PROVE  Abs!Next
  <2>1. Status' = [Status EXCEPT ![g] = s]
    BY <1>1, <1>4, StatusSet DEF Statuses
  <2>2. Status[g] \in Statuses
    BY <1>1, <1>3
  <2>3. Abs!Finish(g, s)
    BY <1>1, <1>2, <1>4, <2>1, <2>2
    DEF Abs!Finish, Abs!Move, Abs!Final, Statuses, Final, Complete
  <2>4. s \in Abs!Final
    BY DEF Abs!Final, Final, Complete
  <2>5. QED
    BY <2>3, <2>4 DEF Abs!Next
<1>5. CASE UNCHANGED <<analyses, unsaved>>
  BY <1>2, <1>5, StatusStays DEF Abs!vars
<1>6. CASE /\ UNCHANGED analyses
           /\ unsaved' = unsaved \cup {g}
           /\ \E i \in RowsOf(g) : analyses[i].status \notin Final
  <2>1. Status[g] \in Statuses \ Final
    BY <1>3, <1>6
  <2>2. Status' = Status
    BY <1>6, StatusStays
  <2>3. Abs!Refuse(g)
    BY <1>1, <1>2, <1>6, <2>1, <2>2 DEF Abs!Refuse, Statuses
  <2>4. QED
    BY <2>3 DEF Abs!Next
<1>7. QED
  BY <1>1, <1>4, <1>5, <1>6, ProcessEffect

\* A run is forgotten only when its result is saved, or was refused.
LEMMA AckRunAbs ==
  ASSUME TypeOK, AnalysisInv, NEW w \in Workers, AckRun(w)
  PROVE  [Abs!Next]_(Abs!vars)
<1> USE DEF AnalysisInv
<1>1. PICK g \in Guids : g = worker[w].guid /\ g \in Owed /\ RowsOf(g) # {}
  BY WorkerHasRow DEF AckRun
<1>2. /\ runQueue' = [runQueue EXCEPT ![g] = @ - 1]
      /\ UNCHANGED <<commitOf, launchQueue, Status, unsaved>>
  BY <1>1, StatusStays DEF AckRun, tableVars
<1>3. Owed' \in {Owed, Owed \ {g}}
  <2>1. ASSUME NEW h \in Guids, h # g
        PROVE  h \in Owed' <=> h \in Owed
    BY <1>2, <2>1 DEF Owed, TypeOK
  <2>2. Owed \subseteq Guids /\ Owed' \subseteq Guids
    BY DEF Owed
  <2>3. QED
    BY <1>1, <2>1, <2>2
<1>4. CASE Owed' = Owed
  BY <1>2, <1>4 DEF Abs!vars
<1>5. CASE Owed' = Owed \ {g}
  <2>1. PICK i \in RowsOf(g) : TRUE
    BY <1>1
  <2>2. analyses[i].status \in Final \/ g \in unsaved
    BY <1>1, <2>1 DEF AckRun, ResultIsDurable
  <2>3. Status[g] \in Abs!Final \/ g \in unsaved
    BY <2>1, <2>2, StatusOfRow DEF Final, Complete, Abs!Final
  <2>4. Abs!Settle(g)
    BY <1>2, <1>5, <2>3 DEF Abs!Settle
  <2>5. QED
    BY <2>4 DEF Abs!Next
<1>6. QED
  BY <1>3, <1>4, <1>5

LEMMA WorkerAbs ==
  ASSUME TypeOK, AnalysisInv, RowsMatchGuids', NEW w \in Workers,
         WorkerStep(w)
  PROVE  [Abs!Next]_(Abs!vars)
<1>1. CASE \/ \E g \in Guids : ReceiveRun(w, g)
           \/ GetState(w)
           \/ WorkerFails(w)
  BY <1>1, StatusStays, OwedStays
  DEF ReceiveRun, GetState, WorkerFails, tableVars, Abs!vars
<1>2. QED
  BY <1>1, PutProcessingAbs, ProcessAbs, AckRunAbs
  DEF WorkerStep, WorkerProgress

LEMMA StepAbs ==
  ASSUME TypeOK, AnalysisInv, [Next]_vars
  PROVE  [Abs!Next]_(Abs!vars)
<1>1. RowsMatchGuids'
  BY StepAnalysisInv DEF AnalysisInv
<1>2. CASE CreatorSkips \/ UnlinkProvider \/ UNCHANGED vars
  BY <1>2, StatusStays, OwedStays
  DEF CreatorSkips, UnlinkProvider, vars, tableVars, Abs!vars
<1>3. QED
  BY <1>1, <1>2, RequestAbs, LauncherAbs, WorkerAbs DEF Next

\* Who asked for an analysis, by a push or by connecting, is owed one until it
\* has a final status, or the status API refused it; a commit is analyzed under
\* one GUID; and what is final stays so, however often messages are repeated and
\* handlers cut short.
THEOREM Implementation == Spec => RefinesAnalysis
<1>1. TypeOK /\ AnalysisInv /\ [Next]_vars => [Abs!Next]_(Abs!vars)
  BY StepAbs
<1>2. QED
  BY <1>1, InitAbs, AnalysisInvariant, PTL DEF Spec, RefinesAnalysis, Abs!Spec

=============================================================================
