------------------------- MODULE SubscriptionProofs -------------------------
(***************************************************************************)
(* Proofs about Subscription, for all values of its constants.             *)
(***************************************************************************)
EXTENDS Subscription, FiniteSetTheorems, TLAPS

ReqType == [pc : {"idle", "accept", "put", "finish"},
            msg : UpdateMsgs \cup {NoMsg},
            state : Done \cup UpdateNotDone,
            version : 0..MaxVersion]
JobType == [pc : {"idle", "process", "update_provider", "commit_update", "ack"},
            msg : Messages \cup {NoMsg},
            version : 0..MaxVersion]

(***************************************************************************)
(* Messages and their holders                                              *)
(***************************************************************************)

LEMMA HoldersAreFinite ==
  ASSUME NEW m
  PROVE  IsFiniteSet(Holders(m)) /\ Cardinality(Holders(m)) \in Nat
BY FS_Subset, FS_CardinalityType, SubscriptionAssumption DEF Holders

\* A message that is held is in the queue.
LEMMA HeldIsQueued ==
  ASSUME TypeOK, MessagesAreHeld, NEW c \in Consumers, NEW m \in Messages,
         job[c].msg = m
  PROVE  queue[m] > 0
<1>1. Holders(m) # {}
  BY DEF Holders
<1>2. Cardinality(Holders(m)) # 0
  BY <1>1, HoldersAreFinite, FS_EmptySet
<1>3. Cardinality(Holders(m)) <= queue[m] /\ queue[m] \in Nat
  BY SubscriptionAssumption DEF MessagesAreHeld, TypeOK
<1>4. QED
  BY <1>2, <1>3, HoldersAreFinite

\* Handlers that go on hold what they held.
LEMMA HoldersKept ==
  ASSUME NEW m, job \in [Consumers -> JobType], job' \in [Consumers -> JobType],
         \A c \in Consumers : job'[c].msg = job[c].msg
  PROVE  Holders(m)' = Holders(m)
BY DEF Holders

LEMMA StartJobHolders ==
  ASSUME TypeOK, MessagesAreHeld, NEW c \in Consumers, NEW m \in Messages,
         JobAt(c, "idle"), job' \in [Consumers -> JobType],
         job'[c].msg = m, \A k \in Consumers \ {c} : job'[k] = job[k],
         queue' = queue, Cardinality(Holders(m)) < queue[m]
  PROVE  \A n \in Messages : Cardinality(Holders(n)') <= queue'[n]
<1> SUFFICES ASSUME NEW n \in Messages
             PROVE  Cardinality(Holders(n)') <= queue'[n]
  OBVIOUS
<1>1. job[c].msg \notin Messages
  BY SubscriptionAssumption DEF MessagesAreHeld
<1>2. CASE n = m
  <2>1. Holders(n)' = Holders(n) \cup {c}
    BY <1>2 DEF Holders
  <2>2. c \notin Holders(n)
    BY <1>1 DEF Holders
  <2>3. Cardinality(Holders(n) \cup {c}) = Cardinality(Holders(n)) + 1
    BY <2>2, HoldersAreFinite, FS_AddElement
  <2>4. queue[n] \in Nat
    BY SubscriptionAssumption DEF TypeOK
  <2>5. QED
    BY <1>2, <2>1, <2>3, <2>4, HoldersAreFinite
<1>3. CASE n # m
  <2>1. Holders(n)' = Holders(n)
    BY <1>1, <1>3 DEF Holders
  <2>2. QED
    BY <2>1 DEF MessagesAreHeld
<1>4. QED
  BY <1>2, <1>3

LEMMA EndJobHolders ==
  ASSUME TypeOK, MessagesAreHeld, NEW c \in Consumers,
         job' = [job EXCEPT ![c] = NoJob],
         \/ queue' = queue
         \/ /\ job[c].msg \in Messages
            /\ queue' = [queue EXCEPT ![job[c].msg] = @ - 1]
  PROVE  \A n \in Messages : Cardinality(Holders(n)') <= queue'[n]
<1> SUFFICES ASSUME NEW n \in Messages
             PROVE  Cardinality(Holders(n)') <= queue'[n]
  OBVIOUS
<1>1. Holders(n)' = Holders(n) \ {c}
  BY SubscriptionAssumption DEF Holders, NoJob, TypeOK
<1>2. Cardinality(Holders(n) \ {c}) =
        IF c \in Holders(n) THEN Cardinality(Holders(n)) - 1
                            ELSE Cardinality(Holders(n))
  BY HoldersAreFinite, FS_RemoveElement
<1>3. /\ Cardinality(Holders(n)) <= queue[n]
      /\ queue[n] \in Nat
      /\ Cardinality(Holders(n)) \in Nat
  BY HoldersAreFinite, SubscriptionAssumption DEF TypeOK, MessagesAreHeld
<1>4. c \in Holders(n) <=> job[c].msg = n
  BY DEF Holders
<1>5. queue \in [Messages -> 0..MaxCopies]
  BY DEF TypeOK
<1>6. CASE queue' = queue
  BY <1>1, <1>2, <1>3, <1>6
<1>7. CASE /\ job[c].msg \in Messages
           /\ queue' = [queue EXCEPT ![job[c].msg] = @ - 1]
  <2>1. queue'[n] = IF job[c].msg = n THEN queue[n] - 1 ELSE queue[n]
    BY <1>5, <1>7
  <2>2. QED
    BY <1>1, <1>2, <1>3, <1>4, <2>1
<1>8. QED
  BY <1>6, <1>7

LEMMA EventsAreNoUpdates == Events \cap UpdateMsgs = {}
<1> SUFFICES ASSUME NEW e \in Events, e \in UpdateMsgs PROVE FALSE
  OBVIOUS
<1>1. DOMAIN e = {"sub", "seats"}
  BY DEF UpdateMsgs
<1>2. DOMAIN e = {"type", "plan"}
  BY DEF Events, Created, Cancelled
<1>3. "type" \notin {"sub", "seats"}
  OBVIOUS
<1>4. QED
  BY <1>1, <1>2, <1>3

(***************************************************************************)
(* Rows                                                                    *)
(***************************************************************************)

\* A row that is updated keeps its plan and whether it is deleted.
LEMMA RowUpdated ==
  ASSUME TypeOK, EventsMatchRows, NEW i \in DOMAIN subs, NEW row \in Sub,
         row.plan = subs[i].plan, row.deleted = subs[i].deleted,
         subs' = [subs EXCEPT ![i] = row], seen' = seen
  PROVE  /\ subs' \in Seq(Sub) /\ Len(subs') <= MaxSubs
         /\ DOMAIN subs' = DOMAIN subs
         /\ subs'[i] = row
         /\ \A j \in DOMAIN subs : j # i => subs'[j] = subs[j]
         /\ \A j : Live(j)' <=> Live(j)
         /\ EventsMatchRows'
<1>1. /\ subs' \in Seq(Sub) /\ Len(subs') <= MaxSubs
      /\ DOMAIN subs' = DOMAIN subs
      /\ subs'[i] = row
      /\ \A j \in DOMAIN subs : j # i => subs'[j] = subs[j]
  BY DEF TypeOK
<1>2. \A j \in DOMAIN subs : /\ subs'[j].plan = subs[j].plan
                             /\ subs'[j].deleted = subs[j].deleted
  BY <1>1
<1>3. \A p : RowsOf(p)' = RowsOf(p)
  BY <1>1, <1>2 DEF RowsOf
<1>4. EventsMatchRows'
  BY <1>2, <1>3 DEF EventsMatchRows, RowsOf
<1>5. \A j : Live(j)' <=> Live(j)
  BY <1>1, <1>2 DEF Live
<1>6. QED
  BY <1>1, <1>4, <1>5

\* The provider's subscription of a row exists.
LEMMA RowHasPlan ==
  ASSUME TypeOK, EventsMatchRows, EventsAreEmitted, NEW i \in DOMAIN subs
  PROVE  subs[i].plan \in Plans /\ plan[subs[i].plan].status # "none"
<1>0. subs[i] \in Sub
  BY DEF TypeOK
<1>1. subs[i].plan \in Plans
  BY <1>0 DEF Sub
<1>2. Created(subs[i].plan) \in seen
  BY <1>1 DEF EventsMatchRows, RowsOf
<1>3. Emitted(Created(subs[i].plan))
  BY <1>2 DEF EventsAreEmitted
<1>4. QED
  BY <1>1, <1>3 DEF Emitted, Created, Cancelled

(***************************************************************************)
(* Initial states                                                          *)
(***************************************************************************)

LEMMA InitInv == Init => TypeOK /\ SubInv
<1> SUFFICES ASSUME Init PROVE TypeOK /\ SubInv
  OBVIOUS
<1>1. TypeOK
  <2>1. req \in [Requests -> ReqType] /\ job \in [Consumers -> JobType]
    BY SubscriptionAssumption
    DEF Init, IdleRequest, NoJob, ReqType, JobType, Done
  <2>2. plan \in [Plans -> PlanStates]
        /\ \A p \in Plans : plan[p].status = "none"
    BY DEF Init, PlanStates
  <2>3. queue \in [Messages -> 0..MaxCopies]
    BY SubscriptionAssumption DEF Init
  <2>4. subs \in Seq(Sub) /\ Len(subs) <= MaxSubs
    BY SubscriptionAssumption DEF Init
  <2>5. QED
    BY <2>1, <2>2, <2>3, <2>4 DEF Init, TypeOK, ReqType, JobType
<1>2. \A c \in Consumers : job[c].msg = NoMsg /\ job[c].pc = "idle"
  BY DEF Init, NoJob
<1>3. EventsAreEmitted
  BY <1>2, SubscriptionAssumption DEF Init, EventsAreEmitted, Messages
<1>4. EventsMatchRows
  BY DEF Init, EventsMatchRows, RowsOf
<1>5. MessagesAreHeld
  <2>1. \A m \in Messages : Holders(m) = {}
    BY <1>2, SubscriptionAssumption DEF Holders
  <2>2. \A m \in Messages : Cardinality(Holders(m)) = 0 /\ queue[m] = 0
    BY <2>1, FS_EmptySet DEF Init
  <2>3. \A q \in Requests : req[q].pc = "idle"
    BY DEF Init, IdleRequest
  <2>4. QED
    BY <1>2, <2>2, <2>3 DEF MessagesAreHeld, JobAt
<1>6. UpdatesAreExclusive
  BY <1>2, SubscriptionAssumption DEF UpdatesAreExclusive, Messages
<1>7. VersionsLeaveRoom /\ SeatsInSync
  BY DEF Init, VersionsLeaveRoom, SeatsInSync, LiveRows
<1>8. HandledIsSeen /\ EventsNotLost
  BY <1>2 DEF Init, HandledIsSeen, EventsNotLost, JobAt
<1>9. QED
  BY <1>1, <1>3, <1>4, <1>5, <1>6, <1>7, <1>8 DEF SubInv

(***************************************************************************)
(* Steps                                                                   *)
(***************************************************************************)

LEMMA ProviderInv ==
  ASSUME TypeOK, SubInv, ProviderStep PROVE TypeOK' /\ SubInv'
<1> USE DEF SubInv
<1>0. PICK p \in Plans : CancelPlan(p) \/ \E s \in Seats : Subscribe(p, s)
  BY DEF ProviderStep
<1>1. UNCHANGED <<accepted, seen, dropped, subs, queue, req, job>>
  BY <1>0 DEF CancelPlan, Subscribe
<1>2. /\ plan' \in [Plans -> PlanStates]
      /\ \A r \in Plans : plan'[r].status = "none" \/ plan'[r].seats \in Seats
      /\ \A r \in Plans : plan[r].status # "none" =>
           plan'[r].status # "none" /\ plan'[r].seats = plan[r].seats
      /\ \A r \in Plans : plan[r].status = "cancelled" =>
           plan'[r].status = "cancelled"
  <2>1. plan \in [Plans -> PlanStates]
        /\ \A r \in Plans : plan[r].status = "none" \/ plan[r].seats \in Seats
    BY DEF TypeOK
  <2>2. CASE CancelPlan(p)
    BY <2>1, <2>2 DEF CancelPlan, PlanStates
  <2>3. CASE \E s \in Seats : Subscribe(p, s)
    BY <2>1, <2>3 DEF Subscribe, PlanStates
  <2>4. QED
    BY <1>0, <2>2, <2>3
<1>3. TypeOK'
  BY <1>1, <1>2 DEF TypeOK
<1>4. EventsAreEmitted'
  <2>1. \A e \in Events : Emitted(e) => Emitted(e)'
    BY <1>2 DEF Emitted, Events, Created, Cancelled
  <2>2. QED
    BY <1>1, <2>1 DEF EventsAreEmitted, TypeOK
<1>5. EventsMatchRows' /\ VersionsLeaveRoom'
  BY <1>1 DEF EventsMatchRows, VersionsLeaveRoom, RowsOf
<1>6. MessagesAreHeld'
  BY <1>1 DEF MessagesAreHeld, Holders, JobAt
<1>7. \A i \in DOMAIN subs : plan'[subs[i].plan].seats = plan[subs[i].plan].seats
  BY <1>2, RowHasPlan
<1>8. UpdatesAreExclusive'
  BY <1>1, <1>7 DEF UpdatesAreExclusive, JobAt, Live
<1>9. SeatsInSync'
  BY <1>1, <1>7 DEF SeatsInSync, LiveRows
<1>10. HandledIsSeen' /\ EventsNotLost'
  BY <1>1 DEF HandledIsSeen, EventsNotLost, JobAt
<1>11. QED
  BY <1>3, <1>4, <1>5, <1>6, <1>8, <1>9, <1>10

\* Putting a message disturbs no handler.
LEMMA PutMessage ==
  ASSUME TypeOK, MessagesAreHeld, NEW m \in Messages, queue[m] < MaxCopies,
         queue' = [queue EXCEPT ![m] = @ + 1], job' = job
  PROVE  /\ queue' \in [Messages -> 0..MaxCopies]
         /\ queue'[m] > 0
         /\ \A n \in Messages : queue'[n] >= queue[n]
         /\ \A n \in Messages : n # m => queue'[n] = queue[n]
         /\ \A n \in Messages : Cardinality(Holders(n)') <= queue'[n]
<1>1. /\ queue' \in [Messages -> 0..MaxCopies]
      /\ queue'[m] > 0
      /\ \A n \in Messages : queue'[n] >= queue[n]
      /\ \A n \in Messages : n # m => queue'[n] = queue[n]
  BY SubscriptionAssumption DEF TypeOK
<1>2. ASSUME NEW n \in Messages PROVE Cardinality(Holders(n)') <= queue'[n]
  <2>1. Holders(n)' = Holders(n)
    BY DEF Holders
  <2>2. Cardinality(Holders(n)) <= queue[n] /\ queue[n] \in Nat
    BY SubscriptionAssumption DEF MessagesAreHeld, TypeOK
  <2>3. queue'[n] \in Nat /\ queue'[n] >= queue[n]
    BY <1>1
  <2>4. QED
    BY <2>1, <2>2, <2>3, HoldersAreFinite
<1>3. QED
  BY <1>1, <1>2

LEMMA EventCreateInv ==
  ASSUME TypeOK, SubInv, NEW e \in Events, EventCreate(e)
  PROVE  TypeOK' /\ SubInv'
<1> USE DEF SubInv
<1>0. /\ UNCHANGED <<plan, seen, dropped, subs, req, job>>
      /\ accepted' = accepted \cup {e}
  BY DEF EventCreate
<1>1. e \in Messages
  BY DEF Messages
<1>2. /\ queue' \in [Messages -> 0..MaxCopies]
      /\ queue'[e] > 0
      /\ \A n \in Messages : queue'[n] >= queue[n]
      /\ \A n \in Messages : n # e => queue'[n] = queue[n]
      /\ \A n \in Messages : Cardinality(Holders(n)') <= queue'[n]
  BY <1>1, PutMessage DEF EventCreate
<1>3. TypeOK'
  BY <1>0, <1>2 DEF TypeOK
<1>4. EventsAreEmitted'
  <2>1. \A f \in Events : Emitted(f) => Emitted(f)'
    BY <1>0 DEF Emitted
  <2>2. \A f \in Events : queue'[f] > 0 => f \in accepted'
    BY <1>0, <1>2 DEF EventsAreEmitted, Messages
  <2>3. QED
    BY <1>0, <2>1, <2>2 DEF EventsAreEmitted, TypeOK, EventCreate
<1>5. EventsMatchRows' /\ VersionsLeaveRoom' /\ SeatsInSync'
  BY <1>0 DEF EventsMatchRows, VersionsLeaveRoom, RowsOf, SeatsInSync, LiveRows
<1>6. MessagesAreHeld'
  BY <1>0, <1>2 DEF MessagesAreHeld, JobAt
<1>7. UpdatesAreExclusive'
  BY <1>0 DEF UpdatesAreExclusive, JobAt, Live
<1>8. HandledIsSeen'
  BY <1>0 DEF HandledIsSeen, JobAt
<1>9. EventsNotLost'
  <2>1. queue \in [Messages -> Nat] /\ queue' \in [Messages -> Nat]
        /\ Events \subseteq Messages /\ accepted \subseteq Events
    BY <1>2, SubscriptionAssumption DEF TypeOK, Messages
  <2>2. QED
    BY <1>0, <1>2, <2>1 DEF EventsNotLost
<1>10. QED
  BY <1>3, <1>4, <1>5, <1>6, <1>7, <1>8, <1>9

\* Steps that change nothing but a request
LEMMA RequestOnlyInv ==
  ASSUME TypeOK, SubInv, UNCHANGED <<plan, accepted, seen, dropped, subs, queue, job>>,
         req' \in [Requests -> ReqType],
         \A q \in Requests : req'[q].pc # "idle" => req'[q].msg \in UpdateMsgs
  PROVE  TypeOK' /\ SubInv'
<1> USE DEF SubInv
<1>1. TypeOK'
  BY DEF TypeOK, ReqType
<1>2. EventsAreEmitted'
  BY DEF EventsAreEmitted, Emitted
<1>3. EventsMatchRows' /\ VersionsLeaveRoom' /\ SeatsInSync'
  BY DEF EventsMatchRows, VersionsLeaveRoom, RowsOf, SeatsInSync, LiveRows
<1>4. MessagesAreHeld'
  BY DEF MessagesAreHeld, JobAt, Holders
<1>5. UpdatesAreExclusive'
  BY DEF UpdatesAreExclusive, JobAt, Live
<1>6. HandledIsSeen' /\ EventsNotLost'
  BY DEF HandledIsSeen, EventsNotLost, JobAt
<1>7. QED
  BY <1>1, <1>2, <1>3, <1>4, <1>5, <1>6

LEMMA UpdateRequestInv ==
  ASSUME TypeOK, SubInv, NEW q \in Requests, NEW i \in DOMAIN subs,
         NEW s \in Seats, UpdateRequest(q, i, s)
  PROVE  TypeOK' /\ SubInv'
<1>1. subs[i] \in Sub /\ i \in 1..MaxSubs
  BY SubscriptionAssumption DEF TypeOK
<1>2. req \in [Requests -> ReqType]
  BY DEF TypeOK, ReqType
<1> DEFINE r == [pc |-> IF subs[i].state \in Done THEN "accept" ELSE "put",
                 msg |-> [sub |-> i, seats |-> s],
                 state |-> subs[i].state, version |-> subs[i].version]
<1>3. r.msg \in UpdateMsgs
  BY <1>1 DEF UpdateMsgs
<1>4. r \in ReqType
  BY <1>1, <1>3 DEF ReqType, Sub
<1>5. req' = [req EXCEPT ![q] = r]
  BY DEF UpdateRequest
<1>6. req' \in [Requests -> ReqType]
      /\ \A k \in Requests : req'[k].pc # "idle" => req'[k].msg \in UpdateMsgs
  BY <1>2, <1>3, <1>4, <1>5 DEF SubInv, MessagesAreHeld
<1>7. QED
  BY <1>6, RequestOnlyInv DEF UpdateRequest

LEMMA RequestFailsInv ==
  ASSUME TypeOK, SubInv, NEW q \in Requests, RequestFails(q)
  PROVE  TypeOK' /\ SubInv'
<1>1. req \in [Requests -> ReqType]
  BY DEF TypeOK, ReqType
<1>2. IdleRequest \in ReqType /\ IdleRequest.pc = "idle"
  BY SubscriptionAssumption DEF ReqType, IdleRequest, Done
<1>3. req' = [req EXCEPT ![q] = IdleRequest]
  BY DEF RequestFails
<1>4. req' \in [Requests -> ReqType]
      /\ \A k \in Requests : req'[k].pc # "idle" => req'[k].msg \in UpdateMsgs
  BY <1>1, <1>2, <1>3 DEF SubInv, MessagesAreHeld
<1>5. QED
  BY <1>4, RequestOnlyInv DEF RequestFails

LEMMA SendToUpdateQueueInv ==
  ASSUME TypeOK, SubInv, NEW q \in Requests, SendToUpdateQueue(q)
  PROVE  TypeOK' /\ SubInv'
<1> USE DEF SubInv
<1> DEFINE m == req[q].msg
<1>0. UNCHANGED <<plan, accepted, seen, dropped, subs, job>>
      /\ req' = [req EXCEPT ![q].pc = "finish"]
      /\ queue' = [queue EXCEPT ![m] = @ + 1]
      /\ queue[m] < MaxCopies
  BY DEF SendToUpdateQueue
<1>1. m \in UpdateMsgs /\ m \in Messages
  BY DEF MessagesAreHeld, SendToUpdateQueue, Messages
<1> HIDE DEF m
<1>2. /\ queue' \in [Messages -> 0..MaxCopies]
      /\ \A n \in Messages : queue'[n] >= queue[n]
      /\ \A n \in Messages : n # m => queue'[n] = queue[n]
      /\ \A n \in Messages : Cardinality(Holders(n)') <= queue'[n]
  BY <1>0, <1>1, PutMessage
<1>3. req' \in [Requests -> ReqType]
      /\ \A k \in Requests : req'[k].pc # "idle" => req'[k].msg \in UpdateMsgs
  <2>1. req \in [Requests -> ReqType] /\ req[q].pc # "idle"
    BY DEF TypeOK, ReqType, SendToUpdateQueue
  <2>2. QED
    BY <1>0, <2>1 DEF MessagesAreHeld, ReqType
<1>4. TypeOK'
  BY <1>0, <1>2, <1>3 DEF TypeOK, ReqType
<1>5. \A e \in Events : queue'[e] = queue[e]
  BY <1>1, <1>2, EventsAreNoUpdates DEF Messages
<1>6. EventsAreEmitted'
  BY <1>0, <1>5 DEF EventsAreEmitted, Emitted
<1>7. EventsMatchRows' /\ VersionsLeaveRoom' /\ SeatsInSync'
  BY <1>0 DEF EventsMatchRows, VersionsLeaveRoom, RowsOf, SeatsInSync, LiveRows
<1>8. MessagesAreHeld'
  BY <1>0, <1>2, <1>3 DEF MessagesAreHeld, JobAt
<1>9. UpdatesAreExclusive'
  BY <1>0 DEF UpdatesAreExclusive, JobAt, Live
<1>10. HandledIsSeen' /\ EventsNotLost'
  BY <1>0, <1>5 DEF HandledIsSeen, EventsNotLost, JobAt, TypeOK
<1>11. QED
  BY <1>4, <1>6, <1>7, <1>8, <1>9, <1>10

\* A request moves a row: the state Done is only left, and the version grows if
\* it is.
LEMMA RequestMovesRow ==
  ASSUME TypeOK, SubInv, NEW i \in DOMAIN subs, NEW row \in Sub,
         row.plan = subs[i].plan, row.deleted = subs[i].deleted,
         row.state \in UpdateNotDone, row.version < MaxVersion,
         subs' = [subs EXCEPT ![i] = row],
         UNCHANGED <<plan, accepted, seen, dropped, queue, job>>,
         req' \in [Requests -> ReqType],
         \A q \in Requests : req'[q].pc # "idle" => req'[q].msg \in UpdateMsgs
  PROVE  TypeOK' /\ SubInv'
<1> USE DEF SubInv
<1>1. /\ subs' \in Seq(Sub) /\ Len(subs') <= MaxSubs
      /\ DOMAIN subs' = DOMAIN subs
      /\ subs'[i] = row
      /\ \A j \in DOMAIN subs : j # i => subs'[j] = subs[j]
      /\ \A j : Live(j)' <=> Live(j)
      /\ EventsMatchRows'
  BY RowUpdated
<1>2. TypeOK'
  BY <1>1 DEF TypeOK, ReqType
<1>3. EventsAreEmitted'
  BY DEF EventsAreEmitted, Emitted
<1>4. VersionsLeaveRoom'
  BY <1>1 DEF VersionsLeaveRoom
<1>5. MessagesAreHeld'
  BY DEF MessagesAreHeld, JobAt, Holders
<1>6. UpdatesAreExclusive'
  BY <1>1 DEF UpdatesAreExclusive, JobAt
<1>7. SeatsInSync'
  <2>1. UpdateNotDone \cap Done = {}
    BY DEF UpdateNotDone, Done
  <2>2. \A j : j \in LiveRows' <=> j \in LiveRows
    BY <1>1 DEF LiveRows, Live
  <2>3. QED
    BY <1>1, <2>1, <2>2 DEF SeatsInSync, LiveRows
<1>8. HandledIsSeen' /\ EventsNotLost'
  BY DEF HandledIsSeen, EventsNotLost, JobAt
<1>9. QED
  BY <1>1, <1>2, <1>3, <1>4, <1>5, <1>6, <1>7, <1>8

LEMMA AcceptUpdateInv ==
  ASSUME TypeOK, SubInv, NEW q \in Requests, AcceptUpdate(q)
  PROVE  TypeOK' /\ SubInv'
<1> DEFINE i == req[q].msg.sub
           v == req[q].version
           row == [subs[i] EXCEPT !.state = "update/init", !.version = v + 1]
<1>1. i \in DOMAIN subs /\ subs[i] \in Sub
  BY DEF AcceptUpdate, Live, TypeOK
<1>2. req \in [Requests -> ReqType] /\ v \in 0..MaxVersion
  BY DEF TypeOK, ReqType
<1>3. v + 2 <= MaxVersion
  BY DEF AcceptUpdate
<1>4. row \in Sub /\ row.plan = subs[i].plan /\ row.deleted = subs[i].deleted
      /\ row.state = "update/init" /\ row.version = v + 1
  <2>1. v + 1 \in 0..MaxVersion
    BY <1>2, <1>3, SubscriptionAssumption
  <2>2. \A r \in Sub, n \in 0..MaxVersion :
          LET s == [r EXCEPT !.state = "update/init", !.version = n] IN
          /\ s \in Sub /\ s.plan = r.plan /\ s.deleted = r.deleted
          /\ s.state = "update/init" /\ s.version = n
    BY DEF Sub, UpdateNotDone
  <2>3. QED
    BY <1>1, <2>1, <2>2
<1>5. subs' = [subs EXCEPT ![i] = row]
  BY <1>1 DEF AcceptUpdate, Sub
<1>6. req' \in [Requests -> ReqType]
      /\ \A k \in Requests : req'[k].pc # "idle" => req'[k].msg \in UpdateMsgs
  <2>1. req' = [req EXCEPT ![q].pc = "put"] /\ req[q].pc = "accept"
    BY DEF AcceptUpdate
  <2>2. QED
    BY <1>2, <2>1 DEF SubInv, MessagesAreHeld, ReqType
<1>7. row.state \in UpdateNotDone /\ row.version < MaxVersion
  BY <1>2, <1>3, <1>4, SubscriptionAssumption DEF UpdateNotDone
<1>8. UNCHANGED <<plan, accepted, seen, dropped, queue, job>>
  BY DEF AcceptUpdate
<1> HIDE DEF row, i, v
<1>9. QED
  BY <1>1, <1>4, <1>5, <1>6, <1>7, <1>8, RequestMovesRow

LEMMA FinishQueueSendingInv ==
  ASSUME TypeOK, SubInv, NEW q \in Requests, FinishQueueSending(q)
  PROVE  TypeOK' /\ SubInv'
<1> DEFINE i == req[q].msg.sub
           row == [subs[i] EXCEPT !.state = "update/sent_to_queue"]
<1>1. UNCHANGED <<plan, accepted, seen, dropped, queue, job>>
  BY DEF FinishQueueSending
<1>2. req' \in [Requests -> ReqType]
      /\ \A k \in Requests : req'[k].pc # "idle" => req'[k].msg \in UpdateMsgs
  <2>1. req \in [Requests -> ReqType]
    BY DEF TypeOK, ReqType
  <2>2. IdleRequest \in ReqType /\ IdleRequest.pc = "idle"
    BY SubscriptionAssumption DEF ReqType, IdleRequest, Done
  <2>3. req' = [req EXCEPT ![q] = IdleRequest]
    BY DEF FinishQueueSending
  <2>4. QED
    BY <2>1, <2>2, <2>3 DEF SubInv, MessagesAreHeld
<1>3. CASE ~(Live(i) /\ subs[i].state = "update/init")
  <2>1. subs' = subs
    BY <1>3 DEF FinishQueueSending
  <2>2. QED
    BY <1>1, <1>2, <2>1, RequestOnlyInv
<1>4. CASE Live(i) /\ subs[i].state = "update/init"
  <2>1. i \in DOMAIN subs /\ subs[i] \in Sub
    BY <1>4 DEF Live, TypeOK
  <2>2. row \in Sub /\ row.plan = subs[i].plan /\ row.deleted = subs[i].deleted
        /\ row.state \in UpdateNotDone /\ row.version = subs[i].version
    BY <2>1 DEF Sub, UpdateNotDone
  <2>3. subs' = [subs EXCEPT ![i] = row]
    BY <1>4, <2>1 DEF FinishQueueSending, Sub
  <2>4. row.version < MaxVersion
    BY <1>4, <2>1, <2>2 DEF SubInv, VersionsLeaveRoom, UpdateNotDone
  <2> HIDE DEF row, i
  <2>5. QED
    BY <1>1, <1>2, <2>1, <2>2, <2>3, <2>4, RequestMovesRow
<1>5. QED
  BY <1>3, <1>4

LEMMA RequestInv ==
  ASSUME TypeOK, SubInv, NEW q \in Requests, RequestStep(q)
  PROVE  TypeOK' /\ SubInv'
BY UpdateRequestInv, AcceptUpdateInv, SendToUpdateQueueInv,
   FinishQueueSendingInv, RequestFailsInv DEF RequestStep

(***************************************************************************)
(* Steps of consumers                                                      *)
(***************************************************************************)

LEMMA ReceiveEventInv ==
  ASSUME TypeOK, SubInv, NEW c \in Consumers, NEW e \in Events,
         ReceiveEvent(c, e)
  PROVE  TypeOK' /\ SubInv'
<1> USE DEF SubInv
<1>0. /\ UNCHANGED <<plan, accepted, seen, subs, queue, req>>
      /\ JobAt(c, "idle")
      /\ Cardinality(Holders(e)) < queue[e]
      /\ dropped' \in {dropped, dropped \cup ({e} \ seen)}
  BY DEF ReceiveEvent
<1>1. e \in Messages /\ queue[e] \in Nat
  BY SubscriptionAssumption DEF Messages, TypeOK
<1>2. PICK pc \in {"process", "ack"} :
        /\ job' = [job EXCEPT ![c] = [pc |-> pc, msg |-> e, version |-> 0]]
        /\ pc = "ack" => e \in seen \cup dropped'
  BY DEF ReceiveEvent, StartJob
<1>3. job \in [Consumers -> JobType]
  BY DEF TypeOK, JobType
<1>4. [pc |-> pc, msg |-> e, version |-> 0] \in JobType
  BY <1>1, SubscriptionAssumption DEF JobType
<1>5. /\ job' \in [Consumers -> JobType]
      /\ job'[c] = [pc |-> pc, msg |-> e, version |-> 0]
      /\ \A k \in Consumers \ {c} : job'[k] = job[k]
  BY <1>2, <1>3, <1>4
<1>6. e # NoMsg /\ e \notin UpdateMsgs
  BY <1>1, SubscriptionAssumption, EventsAreNoUpdates
<1>7. TypeOK'
  BY <1>0, <1>5 DEF TypeOK, JobType
<1>8. EventsAreEmitted'
  <2>1. e \in accepted
    BY <1>0, <1>1, HoldersAreFinite DEF EventsAreEmitted
  <2>2. QED
    BY <1>0, <1>5, <2>1 DEF EventsAreEmitted, Emitted
<1>9. EventsMatchRows' /\ VersionsLeaveRoom' /\ SeatsInSync'
  BY <1>0 DEF EventsMatchRows, VersionsLeaveRoom, RowsOf, SeatsInSync, LiveRows
<1>10. MessagesAreHeld'
  <2>1. \A n \in Messages : Cardinality(Holders(n)') <= queue'[n]
    BY <1>0, <1>1, <1>5, StartJobHolders
  <2>2. QED
    BY <1>0, <1>5, <1>6, <2>1 DEF MessagesAreHeld, JobAt
<1>11. UpdatesAreExclusive'
  BY <1>0, <1>5, <1>6 DEF UpdatesAreExclusive, JobAt, Live
<1>12. HandledIsSeen' /\ EventsNotLost'
  BY <1>0, <1>2, <1>5 DEF HandledIsSeen, EventsNotLost, JobAt
<1>13. QED
  BY <1>7, <1>8, <1>9, <1>10, <1>11, <1>12

LEMMA ReceiveUpdateInv ==
  ASSUME TypeOK, SubInv, NEW c \in Consumers, NEW m \in UpdateMsgs,
         ReceiveUpdate(c, m)
  PROVE  TypeOK' /\ SubInv'
<1> USE DEF SubInv
<1>0. /\ UNCHANGED <<plan, accepted, seen, dropped, subs, queue, req>>
      /\ JobAt(c, "idle")
      /\ queue[m] > 0
      /\ \A k \in Consumers : job[k].msg \in UpdateMsgs => job[k].msg.sub # m.sub
  BY DEF ReceiveUpdate
<1>1. m \in Messages /\ queue[m] \in Nat
  BY SubscriptionAssumption DEF Messages, TypeOK
<1>2. PICK pc \in {"update_provider", "ack"}, v \in 0..MaxVersion :
        /\ job' = [job EXCEPT ![c] = [pc |-> pc, msg |-> m, version |-> v]]
        /\ pc = "update_provider" =>
             Live(m.sub) /\ subs[m.sub].state \in UpdateNotDone
  <2>1. CASE /\ Live(m.sub)
             /\ subs[m.sub].state \in UpdateNotDone
             /\ StartJob(c, m, "update_provider", subs[m.sub].version)
    <3>1. subs[m.sub] \in Sub
      BY <2>1 DEF Live, TypeOK
    <3>2. subs[m.sub].version \in 0..MaxVersion
      BY <3>1 DEF Sub
    <3>3. QED
      BY <2>1, <3>2 DEF StartJob
  <2>2. CASE StartJob(c, m, "ack", 0)
    <3>1. 0 \in 0..MaxVersion /\ "ack" # "update_provider"
      BY SubscriptionAssumption
    <3>2. job' = [job EXCEPT ![c] = [pc |-> "ack", msg |-> m, version |-> 0]]
      BY <2>2 DEF StartJob
    <3>3. QED
      BY <3>1, <3>2, Zenon
  <2>3. QED
    BY <2>1, <2>2 DEF ReceiveUpdate
<1>3. job \in [Consumers -> JobType]
  BY DEF TypeOK, JobType
<1>4. [pc |-> pc, msg |-> m, version |-> v] \in JobType
  BY <1>1 DEF JobType
<1>5. /\ job' \in [Consumers -> JobType]
      /\ job'[c] = [pc |-> pc, msg |-> m, version |-> v]
      /\ \A k \in Consumers \ {c} : job'[k] = job[k]
  BY <1>2, <1>3, <1>4
<1>6. m # NoMsg /\ m \notin Events
  BY <1>1, SubscriptionAssumption, EventsAreNoUpdates
<1>7. TypeOK'
  BY <1>0, <1>5 DEF TypeOK, JobType
<1>8. EventsAreEmitted'
  BY <1>0, <1>5, <1>6 DEF EventsAreEmitted, Emitted
<1>9. EventsMatchRows' /\ VersionsLeaveRoom' /\ SeatsInSync'
  BY <1>0 DEF EventsMatchRows, VersionsLeaveRoom, RowsOf, SeatsInSync, LiveRows
<1>10. MessagesAreHeld'
  <2>1. Holders(m) = {}
    BY <1>0 DEF Holders
  <2>2. Cardinality(Holders(m)) < queue[m]
    BY <1>0, <1>1, <2>1, FS_EmptySet
  <2>3. \A n \in Messages : Cardinality(Holders(n)') <= queue'[n]
    BY <1>0, <1>1, <1>5, <2>2, StartJobHolders
  <2>4. QED
    BY <1>0, <1>5, <1>6, <2>3 DEF MessagesAreHeld, JobAt
<1>11. UpdatesAreExclusive'
  BY <1>0, <1>2, <1>5 DEF UpdatesAreExclusive, JobAt, Live
<1>12. HandledIsSeen' /\ EventsNotLost'
  BY <1>0, <1>5, <1>6 DEF HandledIsSeen, EventsNotLost, JobAt
<1>13. QED
  BY <1>7, <1>8, <1>9, <1>10, <1>11, <1>12

\* A handler that goes on keeps its message.
LEMMA JobGoesOn ==
  ASSUME TypeOK, MessagesAreHeld, NEW c \in Consumers,
         NEW pc \in {"commit_update", "ack"}, Goto(c, pc),
         ~JobAt(c, "idle"), job[c].msg \in UpdateMsgs \/ pc = "ack",
         UNCHANGED <<queue, req>>
  PROVE  /\ job' \in [Consumers -> JobType]
         /\ job'[c].pc = pc /\ job'[c].msg = job[c].msg
         /\ \A k \in Consumers \ {c} : job'[k] = job[k]
         /\ MessagesAreHeld'
<1>1. job \in [Consumers -> JobType]
  BY DEF TypeOK, JobType
<1>2. /\ job' \in [Consumers -> JobType]
      /\ job'[c].pc = pc /\ job'[c].msg = job[c].msg
      /\ \A k \in Consumers \ {c} : job'[k] = job[k]
  BY <1>1 DEF Goto, JobType
<1>3. \A m \in Messages : Holders(m)' = Holders(m)
  BY <1>1, <1>2, HoldersKept
<1>4. MessagesAreHeld'
  BY <1>2, <1>3 DEF MessagesAreHeld, JobAt
<1>5. QED
  BY <1>2, <1>4

LEMMA ProcessCreated ==
  ASSUME TypeOK, SubInv, NEW p \in Plans, Created(p) \in accepted,
         Created(p) \notin seen, LiveRows = {}, Len(subs) < MaxSubs,
         subs' = Append(subs, [plan |-> p, state |-> "create/done",
                               deleted |-> FALSE, seats |-> plan[p].seats,
                               version |-> 0]),
         seen' = seen \cup {Created(p)}, plan' = plan
  PROVE  /\ subs' \in Seq(Sub) /\ Len(subs') <= MaxSubs
         /\ \A i \in DOMAIN subs : i \in DOMAIN subs' /\ subs'[i] = subs[i]
         /\ EventsMatchRows' /\ VersionsLeaveRoom' /\ SeatsInSync'
<1> USE DEF SubInv
<1> DEFINE row == [plan |-> p, state |-> "create/done", deleted |-> FALSE,
                   seats |-> plan[p].seats, version |-> 0]
           n == Len(subs) + 1
<1>1. subs \in Seq(Sub) /\ DOMAIN subs = 1..Len(subs) /\ Len(subs) \in Nat
  BY DEF TypeOK
<1>2. plan[p].seats \in Seats
  <2>1. Emitted(Created(p))
    BY DEF EventsAreEmitted
  <2>2. plan[p].status # "none"
    BY <2>1 DEF Emitted, Created, Cancelled
  <2>3. QED
    BY <2>2 DEF TypeOK
<1>3. row \in Sub
  BY <1>2, SubscriptionAssumption DEF Sub, Done
<1>4. /\ subs' \in Seq(Sub) /\ Len(subs') <= MaxSubs
      /\ DOMAIN subs' = DOMAIN subs \cup {n} /\ n \notin DOMAIN subs
      /\ \A i \in DOMAIN subs : subs'[i] = subs[i]
      /\ subs'[n] = row
  BY <1>1, <1>3, SubscriptionAssumption
<1> HIDE DEF n
<1>5. EventsMatchRows'
  <2> SUFFICES ASSUME NEW r \in Plans
               PROVE  /\ Created(r) \in seen' <=> RowsOf(r)' # {}
                      /\ Cancelled(r) \in seen' <=>
                           \E i \in RowsOf(r)' : subs'[i].deleted
                      /\ \A i, j \in RowsOf(r)' : i = j
    BY DEF EventsMatchRows
  <2>1. Cancelled(r) \in seen' <=> Cancelled(r) \in seen
    BY DEF Created, Cancelled
  <2>2. /\ Created(r) \in seen <=> RowsOf(r) # {}
        /\ Cancelled(r) \in seen <=> \E i \in RowsOf(r) : subs[i].deleted
        /\ \A i, j \in RowsOf(r) : i = j
    BY DEF EventsMatchRows
  <2>3. CASE r # p
    <3>1. Created(r) \in seen' <=> Created(r) \in seen
      BY <2>3 DEF Created
    <3>2. RowsOf(r)' = RowsOf(r)
      BY <1>4, <2>3 DEF RowsOf
    <3>3. \A i \in RowsOf(r) : subs'[i] = subs[i]
      BY <1>4 DEF RowsOf
    <3>4. QED
      BY <2>1, <2>2, <3>1, <3>2, <3>3
  <2>4. CASE r = p
    <3>1. RowsOf(r) = {}
      BY <2>2, <2>4
    <3>2. RowsOf(r)' = {n}
      BY <1>4, <2>4, <3>1 DEF RowsOf
    <3>3. ~subs'[n].deleted
      BY <1>4
    <3>4. QED
      BY <2>1, <2>2, <2>4, <3>1, <3>2, <3>3
  <2>5. QED
    BY <2>3, <2>4
<1>6. VersionsLeaveRoom'
  <2>1. row.state \notin UpdateNotDone
    BY DEF UpdateNotDone
  <2>2. QED
    BY <1>4, <2>1 DEF VersionsLeaveRoom
<1>7. SeatsInSync'
  BY <1>4 DEF SeatsInSync, LiveRows
<1>8. QED
  BY <1>4, <1>5, <1>6, <1>7

LEMMA ProcessCancelled ==
  ASSUME TypeOK, SubInv, NEW p \in Plans, NEW i \in RowsOf(p), Live(i),
         subs' = [subs EXCEPT ![i].deleted = TRUE],
         seen' = seen \cup {Cancelled(p)}, plan' = plan
  PROVE  /\ subs' \in Seq(Sub) /\ Len(subs') <= MaxSubs
         /\ DOMAIN subs' = DOMAIN subs
         /\ \A j \in DOMAIN subs : /\ Live(j)' => Live(j)
                                   /\ subs'[j].state = subs[j].state
                                   /\ subs'[j].plan = subs[j].plan
         /\ EventsMatchRows' /\ VersionsLeaveRoom' /\ SeatsInSync'
<1> USE DEF SubInv
<1>1. subs \in Seq(Sub) /\ Len(subs) <= MaxSubs /\ i \in DOMAIN subs
  BY DEF TypeOK, RowsOf
<1>2. \A j \in DOMAIN subs : subs[j] \in Sub
  BY <1>1
<1>3. /\ subs' \in Seq(Sub) /\ Len(subs') <= MaxSubs
      /\ DOMAIN subs' = DOMAIN subs
      /\ subs'[i] = [subs[i] EXCEPT !.deleted = TRUE]
      /\ \A j \in DOMAIN subs : j # i => subs'[j] = subs[j]
  <2>1. [subs[i] EXCEPT !.deleted = TRUE] \in Sub
    BY <1>1, <1>2 DEF Sub
  <2>2. QED
    BY <1>1, <2>1
<1>4. \A j \in DOMAIN subs :
        /\ subs'[j].plan = subs[j].plan
        /\ subs'[j].state = subs[j].state
        /\ subs'[j].seats = subs[j].seats
        /\ subs'[j].version = subs[j].version
        /\ j # i => subs'[j].deleted = subs[j].deleted
  BY <1>1, <1>2, <1>3 DEF Sub
<1>5. subs'[i].deleted
  BY <1>1, <1>2, <1>3 DEF Sub
<1>6. \A r : RowsOf(r)' = RowsOf(r)
  BY <1>3, <1>4 DEF RowsOf
<1>7. EventsMatchRows'
  <2> SUFFICES ASSUME NEW r \in Plans
               PROVE  /\ Created(r) \in seen' <=> RowsOf(r)' # {}
                      /\ Cancelled(r) \in seen' <=>
                           \E j \in RowsOf(r)' : subs'[j].deleted
                      /\ \A j, k \in RowsOf(r)' : j = k
    BY DEF EventsMatchRows
  <2>1. Created(r) \in seen' <=> Created(r) \in seen
    BY DEF Created, Cancelled
  <2>2. /\ Created(r) \in seen <=> RowsOf(r) # {}
        /\ Cancelled(r) \in seen <=> \E j \in RowsOf(r) : subs[j].deleted
        /\ \A j, k \in RowsOf(r) : j = k
    BY DEF EventsMatchRows
  <2>3. CASE r # p
    <3>1. Cancelled(r) \in seen' <=> Cancelled(r) \in seen
      BY <2>3 DEF Cancelled
    <3>2. \A j \in RowsOf(r) : subs'[j].deleted = subs[j].deleted
      BY <1>4, <2>3 DEF RowsOf
    <3>3. QED
      BY <1>6, <2>1, <2>2, <3>1, <3>2
  <2>4. CASE r = p
    BY <1>5, <1>6, <2>1, <2>2, <2>4
  <2>5. QED
    BY <2>3, <2>4
<1>8. VersionsLeaveRoom'
  BY <1>3, <1>4 DEF VersionsLeaveRoom
<1>9. \A j \in DOMAIN subs : Live(j)' => Live(j)
  BY <1>3, <1>4 DEF Live
<1>10. SeatsInSync'
  BY <1>3, <1>4, <1>5 DEF SeatsInSync, LiveRows
<1>11. QED
  BY <1>3, <1>4, <1>7, <1>8, <1>9, <1>10

LEMMA ProcessEventInv ==
  ASSUME TypeOK, SubInv, NEW c \in Consumers, ProcessEvent(c)
  PROVE  TypeOK' /\ SubInv'
<1> USE DEF SubInv
<1> DEFINE e == job[c].msg
           p == e.plan
<1>0. /\ UNCHANGED <<plan, accepted, queue, req>>
      /\ JobAt(c, "process")
      /\ e \notin seen
      /\ seen' = seen \cup {e}
      /\ dropped' = dropped \ {e}
      /\ Goto(c, "ack")
  BY DEF ProcessEvent
<1>1. e \in Events /\ p \in Plans /\ e \in accepted
  BY <1>0 DEF MessagesAreHeld, EventsAreEmitted, Events, Created, Cancelled
<1>2. /\ job' \in [Consumers -> JobType]
      /\ job'[c].pc = "ack" /\ job'[c].msg = e
      /\ \A k \in Consumers \ {c} : job'[k] = job[k]
      /\ MessagesAreHeld'
  BY <1>0, JobGoesOn DEF JobAt
<1>3. /\ subs' \in Seq(Sub) /\ Len(subs') <= MaxSubs
      /\ \A j \in DOMAIN subs : /\ j \in DOMAIN subs'
                                /\ Live(j)' => Live(j)
                                /\ subs'[j].state = subs[j].state
                                /\ subs'[j].plan = subs[j].plan
      /\ EventsMatchRows' /\ VersionsLeaveRoom' /\ SeatsInSync'
  <2>1. CASE e = Created(p)
    <3>1. /\ LiveRows = {} /\ Len(subs) < MaxSubs
          /\ subs' = Append(subs, [plan |-> p, state |-> "create/done",
                                   deleted |-> FALSE, seats |-> plan[p].seats,
                                   version |-> 0])
      BY <2>1 DEF ProcessEvent, Created, Cancelled
    <3> HIDE DEF e, p
    <3>2. /\ subs' \in Seq(Sub) /\ Len(subs') <= MaxSubs
          /\ \A i \in DOMAIN subs : i \in DOMAIN subs' /\ subs'[i] = subs[i]
          /\ EventsMatchRows' /\ VersionsLeaveRoom' /\ SeatsInSync'
      BY <1>0, <1>1, <2>1, <3>1, ProcessCreated
    <3>3. QED
      BY <3>2 DEF Live
  <2>2. CASE e = Cancelled(p)
    <3>1. PICK i \in RowsOf(p) :
            Live(i) /\ subs' = [subs EXCEPT ![i].deleted = TRUE]
      BY <2>2 DEF ProcessEvent, Created, Cancelled
    <3> HIDE DEF e, p
    <3>2. QED
      BY <1>0, <1>1, <2>2, <3>1, ProcessCancelled
  <2>3. QED
    BY <1>1, <2>1, <2>2 DEF Events, Created, Cancelled
<1>4. TypeOK'
  BY <1>0, <1>1, <1>2, <1>3 DEF TypeOK, JobType
<1>5. EventsAreEmitted'
  BY <1>0, <1>1, <1>2 DEF EventsAreEmitted, Emitted
<1>6. UpdatesAreExclusive'
  <2>1. \A k \in Consumers : job'[k].msg = job[k].msg
    BY <1>2
  <2>2. \A k \in Consumers :
          job'[k].pc \in {"update_provider", "commit_update"} =>
            job'[k] = job[k]
    BY <1>2
  <2>3. QED
    BY <1>0, <1>3, <2>1, <2>2 DEF UpdatesAreExclusive, JobAt
<1>7. HandledIsSeen' /\ EventsNotLost'
  BY <1>0, <1>2 DEF HandledIsSeen, EventsNotLost, JobAt
<1>8. QED
  BY <1>2, <1>3, <1>4, <1>5, <1>6, <1>7

LEMMA UpdateProviderInv ==
  ASSUME TypeOK, SubInv, NEW c \in Consumers, UpdateProvider(c)
  PROVE  TypeOK' /\ SubInv'
<1> USE DEF SubInv
<1>m. PICK m, i, p : m = job[c].msg /\ i = m.sub /\ p = subs[i].plan
  OBVIOUS
<1>0. /\ UNCHANGED <<accepted, seen, dropped, subs, queue, req>>
      /\ JobAt(c, "update_provider")
      /\ plan[p].status = "active"
      /\ plan' = [plan EXCEPT ![p].seats = m.seats]
      /\ Goto(c, "commit_update")
  BY <1>m DEF UpdateProvider
<1>1. /\ m \in UpdateMsgs /\ i \in DOMAIN subs
      /\ Live(i) => subs[i].state \in UpdateNotDone
  BY <1>m, <1>0 DEF MessagesAreHeld, UpdatesAreExclusive, JobAt
<1>2. p \in Plans /\ plan[p].status # "none" /\ m.seats \in Seats
  BY <1>m, <1>1, RowHasPlan DEF UpdateMsgs
<1>3. /\ job' \in [Consumers -> JobType]
      /\ job'[c].pc = "commit_update" /\ job'[c].msg = m
      /\ \A k \in Consumers \ {c} : job'[k] = job[k]
      /\ MessagesAreHeld'
  BY <1>m, <1>0, <1>1, JobGoesOn DEF JobAt
<1>4. \A j \in DOMAIN subs : subs[j].plan = p => j = i
  BY <1>m, <1>1, <1>2 DEF EventsMatchRows, RowsOf
<1>5. /\ plan' \in [Plans -> PlanStates]
      /\ plan'[p].seats = m.seats
      /\ \A r \in Plans : r # p => plan'[r] = plan[r]
      /\ \A r \in Plans : plan'[r].status = plan[r].status
  <2>1. plan \in [Plans -> PlanStates]
    BY DEF TypeOK
  <2>2. QED
    BY <1>0, <1>2, <2>1 DEF PlanStates
<1>6. TypeOK'
  BY <1>0, <1>2, <1>3, <1>5 DEF TypeOK, JobType
<1>7. EventsAreEmitted'
  <2>1. \A e \in Events : Emitted(e) => Emitted(e)'
    BY <1>5 DEF Emitted, Events, Created, Cancelled
  <2>2. \A k \in Consumers : job'[k].msg = job[k].msg
    BY <1>m, <1>3
  <2>3. QED
    BY <1>0, <2>1, <2>2 DEF EventsAreEmitted, TypeOK
<1>8. EventsMatchRows' /\ VersionsLeaveRoom'
  BY <1>0 DEF EventsMatchRows, VersionsLeaveRoom, RowsOf
<1>9. \A j \in DOMAIN subs : j # i =>
        plan'[subs[j].plan].seats = plan[subs[j].plan].seats
  BY <1>4, <1>5, RowHasPlan
<1>10. UpdatesAreExclusive'
  <2>1. \A k \in Consumers : job'[k].msg = job[k].msg
    BY <1>m, <1>3
  <2>2. \A k, l \in Consumers :
          /\ job'[k].msg \in UpdateMsgs
          /\ job'[l].msg \in UpdateMsgs
          /\ job'[k].msg.sub = job'[l].msg.sub
          => k = l
    BY <2>1 DEF UpdatesAreExclusive
  <2>3. ASSUME NEW k \in Consumers, NEW n, n = job[k].msg.sub,
               job'[k].pc \in {"update_provider", "commit_update"}
        PROVE  /\ n \in DOMAIN subs
               /\ Live(n) => subs[n].state \in UpdateNotDone
               /\ job'[k].pc = "commit_update" =>
                    plan'[subs[n].plan].seats = job[k].msg.seats
    <3>1. CASE k = c
      BY <1>m, <1>1, <1>5, <2>3, <3>1
    <3>2. CASE k # c
      <4>1. /\ job'[k] = job[k]
            /\ job[k].pc \in {"update_provider", "commit_update"}
        BY <1>3, <2>3, <3>2
      <4>2. job[k].msg \in UpdateMsgs
        BY <4>1 DEF MessagesAreHeld
      <4>3. n # i
        BY <1>m, <1>1, <2>3, <3>2, <4>2 DEF UpdatesAreExclusive
      <4>4. /\ n \in DOMAIN subs
            /\ Live(n) => subs[n].state \in UpdateNotDone
            /\ JobAt(k, "commit_update") =>
                 plan[subs[n].plan].seats = job[k].msg.seats
        BY <2>3, <4>1 DEF UpdatesAreExclusive
      <4>5. QED
        BY <1>9, <4>1, <4>3, <4>4 DEF JobAt
    <3>3. QED
      BY <3>1, <3>2
  <2>4. \A n : Live(n)' <=> Live(n)
    BY <1>0 DEF Live
  <2>5. QED
    BY <1>0, <2>1, <2>2, <2>3, <2>4 DEF UpdatesAreExclusive, JobAt, Live
<1>11. SeatsInSync'
  <2>1. UpdateNotDone \cap Done = {}
    BY DEF UpdateNotDone, Done
  <2>2. QED
    BY <1>0, <1>1, <1>9, <2>1 DEF SeatsInSync, LiveRows, Live
<1>12. HandledIsSeen' /\ EventsNotLost'
  BY <1>0, <1>3 DEF HandledIsSeen, EventsNotLost, JobAt
<1>13. QED
  BY <1>3, <1>6, <1>7, <1>8, <1>10, <1>11, <1>12

\* The row r once its update to s seats is committed as version n
Committed(r, s, n) ==
  [r EXCEPT !.state = "update/done", !.seats = s, !.version = n]

LEMMA CommittedRow ==
  ASSUME NEW r \in Sub, NEW s \in Seats, NEW n \in 0..MaxVersion
  PROVE  LET t == Committed(r, s, n) IN
         /\ t \in Sub /\ t.plan = r.plan /\ t.deleted = r.deleted
         /\ t.state = "update/done" /\ t.seats = s
BY DEF Committed, Sub, Done

LEMMA CommitUpdateInv ==
  ASSUME TypeOK, SubInv, NEW c \in Consumers, CommitUpdate(c)
  PROVE  TypeOK' /\ SubInv'
<1> USE DEF SubInv
<1> DEFINE m == job[c].msg
           i == m.sub
           row == Committed(subs[i], m.seats, job[c].version + 1)
<1>0. /\ UNCHANGED <<plan, accepted, seen, dropped, queue, req>>
      /\ JobAt(c, "commit_update")
      /\ Live(i)
      /\ subs[i].state \in UpdateNotDone
      /\ subs[i].version = job[c].version
      /\ Goto(c, "ack")
  BY DEF CommitUpdate
<1>1. /\ m \in UpdateMsgs /\ i \in DOMAIN subs /\ m.seats \in Seats
      /\ plan[subs[i].plan].seats = m.seats
  BY <1>0 DEF MessagesAreHeld, UpdatesAreExclusive, JobAt, UpdateMsgs
<1>2. subs[i] \in Sub
  BY <1>1 DEF TypeOK
<1>3. /\ job' \in [Consumers -> JobType]
      /\ job'[c].pc = "ack" /\ job'[c].msg = m
      /\ \A k \in Consumers \ {c} : job'[k] = job[k]
      /\ MessagesAreHeld'
  BY <1>0, <1>1, JobGoesOn DEF JobAt
<1>4. job[c].version + 1 \in 0..MaxVersion
  <2>1. subs[i].version \in 0..MaxVersion /\ subs[i].version < MaxVersion
    BY <1>0, <1>1, <1>2 DEF Sub, VersionsLeaveRoom
  <2>2. QED
    BY <1>0, <2>1, SubscriptionAssumption
<1>5. /\ row \in Sub /\ row.plan = subs[i].plan /\ row.deleted = subs[i].deleted
      /\ row.state = "update/done" /\ row.seats = m.seats
  BY <1>1, <1>2, <1>4, CommittedRow
<1>6. subs' = [subs EXCEPT ![i] = row]
  BY <1>1, <1>2 DEF CommitUpdate, Committed, Sub
<1> HIDE DEF row
<1>7. /\ subs' \in Seq(Sub) /\ Len(subs') <= MaxSubs
      /\ DOMAIN subs' = DOMAIN subs
      /\ subs'[i] = row
      /\ \A j \in DOMAIN subs : j # i => subs'[j] = subs[j]
      /\ \A j : Live(j)' <=> Live(j)
      /\ EventsMatchRows'
  BY <1>0, <1>1, <1>5, <1>6, RowUpdated
<1>8. TypeOK'
  BY <1>0, <1>3, <1>7 DEF TypeOK, JobType
<1>9. \A k \in Consumers : job'[k].msg = job[k].msg
  BY <1>3
<1>10. EventsAreEmitted'
  BY <1>0, <1>9 DEF EventsAreEmitted, Emitted
<1>11. VersionsLeaveRoom'
  <2>1. row.state \notin UpdateNotDone
    BY <1>5 DEF UpdateNotDone
  <2>2. QED
    BY <1>7, <2>1 DEF VersionsLeaveRoom
<1>12. UpdatesAreExclusive'
  <2>1. \A k \in Consumers :
          job'[k].pc \in {"update_provider", "commit_update"} =>
            /\ job'[k] = job[k]
            /\ job[k].msg.sub # i
            /\ job[k].msg.sub \in DOMAIN subs
            /\ subs'[job[k].msg.sub] = subs[job[k].msg.sub]
    <3> SUFFICES ASSUME NEW k \in Consumers,
                        job'[k].pc \in {"update_provider", "commit_update"}
                 PROVE  /\ job'[k] = job[k]
                        /\ job[k].msg.sub # i
                        /\ job[k].msg.sub \in DOMAIN subs
                        /\ subs'[job[k].msg.sub] = subs[job[k].msg.sub]
      OBVIOUS
    <3>1. k # c /\ job'[k] = job[k]
      BY <1>3
    <3>2. job[k].msg \in UpdateMsgs /\ job[k].msg.sub \in DOMAIN subs
      BY <3>1 DEF MessagesAreHeld, UpdatesAreExclusive
    <3>3. job[k].msg.sub # i
      BY <1>1, <3>1, <3>2 DEF UpdatesAreExclusive
    <3>4. QED
      BY <1>7, <3>1, <3>2, <3>3
  <2>2. QED
    BY <1>0, <1>7, <1>9, <2>1 DEF UpdatesAreExclusive, JobAt
<1>13. SeatsInSync'
  <2>1. \A j : j \in LiveRows' <=> j \in LiveRows
    BY <1>7 DEF LiveRows, Live
  <2>2. QED
    BY <1>0, <1>1, <1>5, <1>7, <2>1 DEF SeatsInSync, LiveRows
<1>14. HandledIsSeen' /\ EventsNotLost'
  <2>1. m \notin Events
    BY <1>1, EventsAreNoUpdates
  <2>2. QED
    BY <1>0, <1>3, <2>1 DEF HandledIsSeen, EventsNotLost, JobAt
<1>15. QED
  BY <1>3, <1>7, <1>8, <1>10, <1>11, <1>12, <1>13, <1>14

\* A handler ends, and its message goes or stays: a message that goes leaves no
\* event that was not handled.
LEMMA EndJobInv ==
  ASSUME TypeOK, SubInv, NEW c \in Consumers,
         JobFails(c) \/ AckMessage(c)
  PROVE  TypeOK' /\ SubInv'
<1> USE DEF SubInv
<1>0. /\ UNCHANGED <<plan, accepted, seen, dropped, subs, req>>
      /\ job' = [job EXCEPT ![c] = NoJob]
      /\ ~JobAt(c, "idle")
  BY DEF JobFails, AckMessage, JobAt
<1>1. job[c].msg \in Messages
  BY <1>0 DEF MessagesAreHeld, TypeOK
<1>2. \/ queue' = queue
      \/ JobAt(c, "ack") /\ queue' = [queue EXCEPT ![job[c].msg] = @ - 1]
  BY DEF JobFails, AckMessage
<1>3. queue[job[c].msg] > 0
  BY <1>1, HeldIsQueued
<1>4. /\ queue' \in [Messages -> 0..MaxCopies]
      /\ \A n \in Messages : queue'[n] <= queue[n]
      /\ \A n \in Messages : n # job[c].msg => queue'[n] = queue[n]
  <2>1. queue \in [Messages -> 0..MaxCopies]
    BY DEF TypeOK
  <2>2. QED
    BY <1>1, <1>2, <1>3, <2>1, SubscriptionAssumption
<1>5. /\ job' \in [Consumers -> JobType]
      /\ job'[c].pc = "idle" /\ job'[c].msg = NoMsg
      /\ \A k \in Consumers \ {c} : job'[k] = job[k]
  <2>1. job \in [Consumers -> JobType]
    BY DEF TypeOK, JobType
  <2>2. NoJob \in JobType /\ NoJob.pc = "idle" /\ NoJob.msg = NoMsg
    BY SubscriptionAssumption DEF NoJob, JobType
  <2>3. QED
    BY <1>0, <2>1, <2>2
<1>6. NoMsg \notin Events /\ NoMsg \notin UpdateMsgs
  BY SubscriptionAssumption DEF Messages
<1>7. TypeOK'
  BY <1>0, <1>4, <1>5 DEF TypeOK, JobType
<1>8. EventsAreEmitted'
  <2>1. queue \in [Messages -> Nat] /\ queue' \in [Messages -> Nat]
        /\ Events \subseteq Messages
    BY <1>4, SubscriptionAssumption DEF TypeOK, Messages
  <2>2. \A e \in Events : queue'[e] > 0 => e \in accepted
    BY <1>4, <2>1 DEF EventsAreEmitted
  <2>3. QED
    BY <1>0, <1>5, <1>6, <2>2 DEF EventsAreEmitted, Emitted
<1>9. EventsMatchRows' /\ VersionsLeaveRoom' /\ SeatsInSync'
  BY <1>0 DEF EventsMatchRows, VersionsLeaveRoom, RowsOf, SeatsInSync, LiveRows
<1>10. MessagesAreHeld'
  <2>1. \A n \in Messages : Cardinality(Holders(n)') <= queue'[n]
    BY <1>0, <1>1, <1>2, EndJobHolders
  <2>2. QED
    BY <1>0, <1>5, <2>1 DEF MessagesAreHeld, JobAt
<1>11. UpdatesAreExclusive'
  BY <1>0, <1>5, <1>6 DEF UpdatesAreExclusive, JobAt, Live
<1>12. HandledIsSeen'
  BY <1>0, <1>5, <1>6 DEF HandledIsSeen, JobAt
<1>13. EventsNotLost'
  <2> SUFFICES ASSUME NEW e \in accepted, e \notin seen \cup dropped
               PROVE  queue'[e] > 0
    BY <1>0 DEF EventsNotLost
  <2>1. e \in Events /\ e \in Messages /\ queue[e] > 0
    BY DEF EventsNotLost, TypeOK, Messages
  <2>2. CASE queue' = queue
    BY <2>1, <2>2
  <2>3. CASE JobAt(c, "ack")
    <3>1. job[c].msg # e
      BY <2>1, <2>3 DEF HandledIsSeen
    <3>2. QED
      BY <1>4, <2>1, <3>1
  <2>4. QED
    BY <1>2, <2>2, <2>3
<1>14. QED
  BY <1>7, <1>8, <1>9, <1>10, <1>11, <1>12, <1>13

LEMMA ConsumerInv ==
  ASSUME TypeOK, SubInv, NEW c \in Consumers, ConsumerStep(c)
  PROVE  TypeOK' /\ SubInv'
BY ReceiveEventInv, ReceiveUpdateInv, ProcessEventInv, UpdateProviderInv,
   CommitUpdateInv, EndJobInv DEF ConsumerStep, JobProgress

LEMMA StutterInv ==
  ASSUME TypeOK, SubInv, UNCHANGED vars PROVE TypeOK' /\ SubInv'
<1>1. UNCHANGED <<plan, accepted, seen, dropped, subs, queue, job>> /\ req' = req
  BY DEF vars
<1>2. req' \in [Requests -> ReqType]
      /\ \A q \in Requests : req'[q].pc # "idle" => req'[q].msg \in UpdateMsgs
  BY <1>1 DEF TypeOK, ReqType, SubInv, MessagesAreHeld
<1>3. QED
  BY <1>1, <1>2, RequestOnlyInv

LEMMA NextInv ==
  ASSUME TypeOK, SubInv, [Next]_vars PROVE TypeOK' /\ SubInv'
BY ProviderInv, EventCreateInv, RequestInv, ConsumerInv, StutterInv DEF Next

(***************************************************************************)
(* Versions                                                                *)
(***************************************************************************)

LEMMA RowIsTyped ==
  ASSUME TypeOK, NEW i \in DOMAIN subs
  PROVE  /\ subs[i] \in Sub
         /\ subs[i].version \in Nat /\ subs[i].version + 1 \in Nat
<1>1. subs[i] \in Sub
  BY DEF TypeOK
<1>2. subs[i].version \in 0..MaxVersion
  BY <1>1 DEF Sub
<1>3. QED
  BY <1>1, <1>2, SubscriptionAssumption

LEMMA KeptRowsGrow ==
  ASSUME TypeOK, NEW i \in DOMAIN subs, subs'[i] = subs[i]
  PROVE  VersionGrows(i)
<1>1. subs[i].version \in Nat
  BY RowIsTyped
<1>2. QED
  BY <1>1 DEF VersionGrows

\* One row changes its state and its version
LEMMA ChangedRowGrows ==
  ASSUME TypeOK, NEW i \in DOMAIN subs, NEW s, NEW v,
         subs'[i].state = s, subs'[i].version = v, v \in Nat,
         \A j \in DOMAIN subs : j # i => subs'[j] = subs[j],
         \/ v = subs[i].version /\ (subs[i].state \in Done <=> s \in Done)
         \/ v = subs[i].version + 1
  PROVE  \A j \in DOMAIN subs : VersionGrows(j)
<1>1. subs[i].version \in Nat
  BY RowIsTyped
<1>2. VersionGrows(i)
  <2>1. CASE v = subs[i].version /\ (subs[i].state \in Done <=> s \in Done)
    BY <1>1, <2>1 DEF VersionGrows
  <2>2. CASE v = subs[i].version + 1
    BY <1>1, <2>2 DEF VersionGrows
  <2>3. QED
    BY <2>1, <2>2
<1>3. QED
  BY <1>2, KeptRowsGrow

LEMMA StepsGrow ==
  ASSUME TypeOK, SubInv, [Next]_vars
  PROVE  \A i \in DOMAIN subs : VersionGrows(i)
<1>1. CASE subs' = subs
  BY <1>1, KeptRowsGrow
<1>2. ASSUME NEW q \in Requests, AcceptUpdate(q)
      PROVE  \A i \in DOMAIN subs : VersionGrows(i)
  <2>1. PICK i \in DOMAIN subs :
          /\ subs' = [subs EXCEPT ![i].state = "update/init",
                                  ![i].version = req[q].version + 1]
          /\ subs[i].version = req[q].version
    BY <1>2 DEF AcceptUpdate, Live
  <2>2. subs[i] \in Sub /\ subs[i].version + 1 \in Nat
    BY RowIsTyped
  <2>3. /\ subs'[i].state = "update/init"
        /\ subs'[i].version = subs[i].version + 1
        /\ \A j \in DOMAIN subs : j # i => subs'[j] = subs[j]
    BY <2>1, <2>2 DEF Sub
  <2>4. QED
    BY <2>2, <2>3, ChangedRowGrows
<1>3. ASSUME NEW q \in Requests, FinishQueueSending(q), subs' # subs
      PROVE  \A i \in DOMAIN subs : VersionGrows(i)
  <2>1. PICK i \in DOMAIN subs :
          /\ subs' = [subs EXCEPT ![i].state = "update/sent_to_queue"]
          /\ subs[i].state = "update/init"
    BY <1>3 DEF FinishQueueSending, Live
  <2>2. subs[i] \in Sub /\ subs[i].version \in Nat
    BY RowIsTyped
  <2>3. /\ subs'[i].state = "update/sent_to_queue"
        /\ subs'[i].version = subs[i].version
        /\ \A j \in DOMAIN subs : j # i => subs'[j] = subs[j]
    BY <2>1, <2>2 DEF Sub
  <2>4. QED
    BY <2>1, <2>2, <2>3, ChangedRowGrows DEF Done
<1>4. ASSUME NEW c \in Consumers, ProcessEvent(c)
      PROVE  \A i \in DOMAIN subs : VersionGrows(i)
  <2>1. ASSUME NEW row, subs' = Append(subs, row), NEW j \in DOMAIN subs
        PROVE  VersionGrows(j)
    <3>1. subs \in Seq(Sub)
      BY DEF TypeOK
    <3>2. subs'[j] = subs[j]
      BY <2>1, <3>1
    <3>3. QED
      BY <3>2, KeptRowsGrow
  <2>2. ASSUME NEW i \in DOMAIN subs,
               subs' = [subs EXCEPT ![i].deleted = TRUE]
        PROVE  \A j \in DOMAIN subs : VersionGrows(j)
    <3>1. subs[i] \in Sub /\ subs[i].version \in Nat
      BY RowIsTyped
    <3>2. /\ subs'[i].state = subs[i].state
          /\ subs'[i].version = subs[i].version
          /\ \A j \in DOMAIN subs : j # i => subs'[j] = subs[j]
      BY <2>2, <3>1 DEF Sub
    <3>3. QED
      BY <3>1, <3>2, ChangedRowGrows
  <2>3. QED
    BY <1>4, <2>1, <2>2 DEF ProcessEvent, Live
<1>5. ASSUME NEW c \in Consumers, CommitUpdate(c)
      PROVE  \A i \in DOMAIN subs : VersionGrows(i)
  <2> DEFINE s == job[c].msg.seats
  <2>1. PICK i \in DOMAIN subs :
          /\ subs' = [subs EXCEPT ![i] = Committed(@, s, job[c].version + 1)]
          /\ subs[i].version = job[c].version
    BY <1>5 DEF CommitUpdate, Live, Committed
  <2>2. subs[i] \in Sub /\ subs[i].version + 1 \in Nat
    BY RowIsTyped
  <2>3. /\ subs'[i].state = "update/done"
        /\ subs'[i].version = subs[i].version + 1
        /\ \A j \in DOMAIN subs : j # i => subs'[j] = subs[j]
    BY <2>1, <2>2 DEF Sub, Committed
  <2>4. QED
    BY <2>2, <2>3, ChangedRowGrows
<1>6. QED
  <2>1. ASSUME NEW p \in Plans, \/ CancelPlan(p)
                               \/ \E s \in Seats : Subscribe(p, s)
        PROVE  subs' = subs
    BY <2>1 DEF CancelPlan, Subscribe
  <2>2. ASSUME NEW e \in Events, EventCreate(e)
        PROVE  subs' = subs
    BY <2>2 DEF EventCreate
  <2>3. ASSUME NEW q \in Requests, RequestStep(q)
        PROVE  \A i \in DOMAIN subs : VersionGrows(i)
    BY <1>1, <1>2, <1>3, <2>3
    DEF RequestStep, UpdateRequest, SendToUpdateQueue, RequestFails
  <2>4. ASSUME NEW c \in Consumers, ConsumerStep(c)
        PROVE  \A i \in DOMAIN subs : VersionGrows(i)
    BY <1>1, <1>4, <1>5, <2>4
    DEF ConsumerStep, ReceiveEvent, ReceiveUpdate, JobProgress, UpdateProvider,
        AckMessage, JobFails
  <2>5. QED
    BY <1>1, <2>1, <2>2, <2>3, <2>4 DEF Next, ProviderStep, vars

(***************************************************************************)
(* Theorems                                                                *)
(***************************************************************************)

\* The inductive invariant of provider, events, rows and handlers.
THEOREM SubscriptionInvariant == Spec => [](TypeOK /\ SubInv)
<1>1. Init => TypeOK /\ SubInv
  BY InitInv
<1>2. TypeOK /\ SubInv /\ [Next]_vars => (TypeOK /\ SubInv)'
  BY NextInv
<1>3. QED
  BY <1>1, <1>2, PTL DEF Spec

\* Every reachable state has the declared types; in particular no message is
\* acknowledged more often than it was put.
THEOREM TypeCorrect == Spec => []TypeOK
BY SubscriptionInvariant, PTL

\* However often events are delivered, and in whatever order, each one is
\* applied once (EventProcessor.Process).
THEOREM EventsOnce == Spec => []EventsMatchRows
<1>1. TypeOK /\ SubInv => EventsMatchRows
  BY DEF SubInv
<1>2. QED
  BY <1>1, SubscriptionInvariant, PTL

\* No event that the API has answered (EventCreate) is lost, but for one that the
\* database failed to look up (EventProcessor.Process), whatever handlers fail and
\* whatever is delivered again.
THEOREM NoEventLost == Spec => []EventsNotLost
<1>1. TypeOK /\ SubInv => EventsNotLost
  BY DEF SubInv
<1>2. QED
  BY <1>1, SubscriptionInvariant, PTL

\* When no update is under way the row has the seats the provider charges,
\* whatever crashed or was repeated before (UpdaterConsumer.run).
THEOREM SeatsCharged == Spec => []SeatsInSync
<1>1. TypeOK /\ SubInv => SeatsInSync
  BY DEF SubInv
<1>2. QED
  BY <1>1, SubscriptionInvariant, PTL

\* The version of a row never falls, and it grows whenever an update begins or
\* ends, whichever of two racing requests or consumers writes it.
THEOREM VersionsOnlyGrow == Spec => VersionsGrow
<1>1. TypeOK /\ SubInv /\ [Next]_vars =>
        [\A i \in DOMAIN subs : VersionGrows(i)]_vars
  BY StepsGrow
<1>2. QED
  BY <1>1, SubscriptionInvariant, PTL DEF Spec, VersionsGrow

(***************************************************************************)
(* The refinement                                                          *)
(***************************************************************************)

\* The phase of a subscription by its only row
PhaseOfRow(row) ==
  IF row.deleted THEN "ended"
  ELSE IF row.state \in UpdateNotDone THEN "updating" ELSE "live"

SeatsOfRow(row) == IF row.deleted THEN {} ELSE {row.seats}

\* A plan has one row, which says all of its subscription.
LEMMA RowOfPlan ==
  ASSUME TypeOK, EventsMatchRows, NEW i \in DOMAIN subs
  PROVE  /\ subs[i] \in Sub /\ subs[i].plan \in Plans
         /\ RowsOf(subs[i].plan) = {i}
         /\ Phases[subs[i].plan] = PhaseOfRow(subs[i])
         /\ Granted[subs[i].plan] = SeatsOfRow(subs[i])
<1> DEFINE p == subs[i].plan
<1>1. subs[i] \in Sub /\ p \in Plans
  BY RowIsTyped DEF Sub
<1>2. RowsOf(p) = {i}
  BY <1>1 DEF EventsMatchRows, RowsOf
<1>3. LiveRowsOf(p) = IF subs[i].deleted THEN {} ELSE {i}
  BY <1>2 DEF LiveRowsOf, LiveRows
<1>4. Phases[p] = PhaseOfRow(subs[i])
  BY <1>1, <1>2, <1>3 DEF Phases, Phase, PhaseOfRow
<1>5. Granted[p] = SeatsOfRow(subs[i])
  BY <1>1, <1>3 DEF Granted, SeatsOfRow
<1>6. QED
  BY <1>1, <1>2, <1>4, <1>5

\* A row that changes, changes the subscription of its plan only.
LEMMA RowChanges ==
  ASSUME TypeOK, EventsMatchRows, NEW i \in DOMAIN subs,
         DOMAIN subs' = DOMAIN subs, subs'[i].plan = subs[i].plan,
         \A j \in DOMAIN subs : j # i => subs'[j] = subs[j]
  PROVE  /\ Phases' = [Phases EXCEPT ![subs[i].plan] = PhaseOfRow(subs'[i])]
         /\ Granted' = [Granted EXCEPT ![subs[i].plan] = SeatsOfRow(subs'[i])]
<1>0. PICK p \in Plans : p = subs[i].plan /\ RowsOf(p) = {i}
  BY RowOfPlan
<1>1. \A o \in Plans : RowsOf(o)' = RowsOf(o)
  BY DEF RowsOf
<1>2. ASSUME NEW o \in Plans, o # p
      PROVE  Phase(o)' = Phase(o) /\ Granted'[o] = Granted[o]
  <2>1. i \notin RowsOf(o)
    BY <1>0, <1>2 DEF RowsOf
  <2>2. RowsOf(o) \subseteq DOMAIN subs
    BY DEF RowsOf
  <2>3. \A j \in RowsOf(o) : subs'[j] = subs[j]
    BY <2>1, <2>2
  <2>4. LiveRowsOf(o)' = LiveRowsOf(o)
    BY <1>1, <2>2, <2>3 DEF LiveRowsOf, LiveRows
  <2>5. LiveRowsOf(o) \subseteq RowsOf(o)
    BY DEF LiveRowsOf
  <2>6. Phase(o)' = Phase(o)
    BY <1>1, <2>3, <2>4, <2>5 DEF Phase
  <2>7. Granted'[o] = Granted[o]
    BY <2>3, <2>4, <2>5 DEF Granted
  <2>8. QED
    BY <2>6, <2>7
<1>3. Phase(p)' = PhaseOfRow(subs'[i]) /\ Granted'[p] = SeatsOfRow(subs'[i])
  <2>1. RowsOf(p)' = {i}
    BY <1>0, <1>1
  <2>2. LiveRowsOf(p)' = IF subs'[i].deleted THEN {} ELSE {i}
    BY <2>1 DEF LiveRowsOf, LiveRows
  <2>3. Phase(p)' = PhaseOfRow(subs'[i])
    BY <2>1, <2>2 DEF Phase, PhaseOfRow
  <2>4. Granted'[p] = SeatsOfRow(subs'[i])
    BY <2>2 DEF Granted, SeatsOfRow
  <2>5. QED
    BY <2>3, <2>4
<1>4. Phases' = [Phases EXCEPT ![p] = PhaseOfRow(subs'[i])]
  BY <1>2, <1>3 DEF Phases
<1>5. Granted' = [Granted EXCEPT ![p] = SeatsOfRow(subs'[i])]
  BY <1>2, <1>3 DEF Granted
<1>6. QED
  BY <1>0, <1>4, <1>5

LEMMA RowsStay ==
  ASSUME UNCHANGED subs
  PROVE  UNCHANGED <<Phases, Granted>>
<1>1. \A p : LiveRowsOf(p)' = LiveRowsOf(p) /\ RowsOf(p)' = RowsOf(p)
  BY DEF LiveRowsOf, LiveRows, RowsOf
<1>2. QED
  BY <1>1 DEF Phases, Phase, Granted

LEMMA PlanStays ==
  ASSUME UNCHANGED plan
  PROVE  UNCHANGED <<Status, Paid>>
BY DEF Status, Paid

LEMMA InitAbs == Init => Abs!Init
<1> SUFFICES ASSUME Init PROVE Abs!Init
  OBVIOUS
<1>1. \A p \in Plans : RowsOf(p) = {} /\ LiveRowsOf(p) = {}
  BY DEF Init, RowsOf, LiveRowsOf
<1>2. QED
  BY <1>1 DEF Init, Abs!Init, Status, Paid, Phases, Phase, Granted

LEMMA ProviderAbs ==
  ASSUME TypeOK, ProviderStep
  PROVE  Abs!Next
<1>1. ASSUME NEW p \in Plans, NEW s \in Seats, Subscribe(p, s)
      PROVE  Abs!Buy(p, s)
  <2>1. Status' = [Status EXCEPT ![p] = "active"]
        /\ Paid' = [Paid EXCEPT ![p] = s]
    BY <1>1 DEF Subscribe, TypeOK, PlanStates, Status, Paid
  <2>2. UNCHANGED <<Phases, Granted>>
    BY <1>1, RowsStay DEF Subscribe
  <2>3. QED
    BY <1>1, <2>1, <2>2 DEF Subscribe, Status, Abs!Buy
<1>2. ASSUME NEW p \in Plans, CancelPlan(p)
      PROVE  Abs!Cancel(p)
  <2>1. Status' = [Status EXCEPT ![p] = "cancelled"] /\ Paid' = Paid
    BY <1>2 DEF CancelPlan, TypeOK, PlanStates, Status, Paid
  <2>2. UNCHANGED <<Phases, Granted>>
    BY <1>2, RowsStay DEF CancelPlan
  <2>3. QED
    BY <1>2, <2>1, <2>2 DEF CancelPlan, Status, Abs!Cancel
<1>3. QED
  BY <1>1, <1>2 DEF ProviderStep, Abs!Next

\* A request that accepts an update begins it; later it only notes that the
\* message was put.
LEMMA RequestAbs ==
  ASSUME TypeOK, SubInv, NEW q \in Requests, RequestStep(q)
  PROVE  [Abs!Next]_(Abs!vars)
<1> USE DEF SubInv
<1>1. UNCHANGED <<Status, Paid>>
  BY PlanStays DEF RequestStep, UpdateRequest, AcceptUpdate, SendToUpdateQueue,
     FinishQueueSending, RequestFails
<1>2. CASE subs' = subs
  BY <1>1, <1>2, RowsStay DEF Abs!vars
<1>3. ASSUME NEW i \in DOMAIN subs, Live(i), DOMAIN subs' = DOMAIN subs,
             \A j \in DOMAIN subs : j # i => subs'[j] = subs[j],
             subs'[i].plan = subs[i].plan, subs'[i].deleted = subs[i].deleted,
             subs'[i].seats = subs[i].seats, subs'[i].state \in UpdateNotDone
      PROVE  [Abs!Next]_(Abs!vars)
  <2>0. PICK p \in Plans : p = subs[i].plan
    BY RowOfPlan
  <2>1. /\ Phases' = [Phases EXCEPT ![p] = PhaseOfRow(subs'[i])]
        /\ Granted' = [Granted EXCEPT ![p] = SeatsOfRow(subs'[i])]
    BY <1>3, <2>0, RowChanges
  <2>2. /\ Phases[p] = PhaseOfRow(subs[i])
        /\ Granted[p] = SeatsOfRow(subs[i])
    BY <1>3, <2>0, RowOfPlan
  <2>3. PhaseOfRow(subs'[i]) = "updating"
        /\ PhaseOfRow(subs[i]) \in {"live", "updating"}
    BY <1>3 DEF PhaseOfRow, Live
  <2>4. Granted' = Granted
    <3>1. SeatsOfRow(subs'[i]) = SeatsOfRow(subs[i])
      BY <1>3 DEF SeatsOfRow
    <3>2. QED
      BY <2>1, <2>2, <3>1 DEF Granted
  <2>5. CASE Phases[p] = "live"
    <3>1. Abs!BeginUpdate(p)
      BY <1>1, <2>1, <2>3, <2>4, <2>5 DEF Abs!BeginUpdate, Abs!Move
    <3>2. QED
      BY <3>1 DEF Abs!Next
  <2>6. CASE Phases[p] = "updating"
    <3>1. Phases' = Phases
      BY <2>1, <2>3, <2>6 DEF Phases
    <3>2. QED
      BY <1>1, <2>4, <3>1 DEF Abs!vars
  <2>7. QED
    BY <2>2, <2>3, <2>5, <2>6
<1>4. CASE AcceptUpdate(q)
  <2>1. PICK i \in DOMAIN subs : i = req[q].msg.sub /\ Live(i)
    BY <1>4 DEF AcceptUpdate, Live
  <2>2. subs[i] \in Sub
    BY RowIsTyped
  <2>3. QED
    BY <1>3, <1>4, <2>1, <2>2 DEF AcceptUpdate, Sub, UpdateNotDone
<1>5. CASE FinishQueueSending(q) /\ subs' # subs
  <2>1. PICK i \in DOMAIN subs : i = req[q].msg.sub /\ Live(i)
    BY <1>5 DEF FinishQueueSending, Live
  <2>2. subs[i] \in Sub
    BY RowIsTyped
  <2>3. QED
    BY <1>3, <1>5, <2>1, <2>2 DEF FinishQueueSending, Sub, UpdateNotDone
<1>6. QED
  BY <1>2, <1>4, <1>5
  DEF RequestStep, UpdateRequest, SendToUpdateQueue, RequestFails

\* The row of a new subscription is the first of its plan.
LEMMA CreatedAbs ==
  ASSUME TypeOK, SubInv, NEW c \in Consumers, ProcessEvent(c),
         NEW p \in Plans, job[c].msg = Created(p)
  PROVE  Abs!Grant(p)
<1> USE DEF SubInv
<1> DEFINE row == [plan |-> p, state |-> "create/done", deleted |-> FALSE,
                   seats |-> plan[p].seats, version |-> 0]
           n == Len(subs) + 1
<1>1. /\ LiveRows = {} /\ subs' = Append(subs, row) /\ plan' = plan
      /\ Created(p) \notin seen /\ Created(p) \in accepted
  <2>1. Created(p) # Cancelled(p)
    BY DEF Created, Cancelled
  <2>2. /\ job[c].msg.plan = p
        /\ job[c].msg \in Events
    BY DEF Created, Events
  <2>3. QED
    BY <2>1, <2>2 DEF ProcessEvent, EventsAreEmitted
<1>2. plan[p].status # "none"
  <2>1. Emitted(Created(p))
    BY <1>1 DEF EventsAreEmitted
  <2>2. QED
    BY <2>1 DEF Emitted, Created, Cancelled
<1>3. RowsOf(p) = {}
  BY <1>1 DEF EventsMatchRows
<1>4. /\ DOMAIN subs' = DOMAIN subs \cup {n} /\ n \notin DOMAIN subs
      /\ \A i \in DOMAIN subs : subs'[i] = subs[i]
      /\ subs'[n] = row
  <2>1. subs \in Seq(Sub) /\ DOMAIN subs = 1..Len(subs) /\ Len(subs) \in Nat
    BY DEF TypeOK
  <2>2. QED
    BY <1>1, <2>1
<1> HIDE DEF n
<1>5. \A o \in Plans : LiveRowsOf(o) = {}
  BY <1>1 DEF LiveRowsOf
<1>6. \A o \in Plans : o # p => Phase(o)' = Phase(o) /\ Granted'[o] = Granted[o]
  <2> SUFFICES ASSUME NEW o \in Plans, o # p
               PROVE  Phase(o)' = Phase(o) /\ Granted'[o] = Granted[o]
    OBVIOUS
  <2>1. RowsOf(o)' = RowsOf(o)
    BY <1>4 DEF RowsOf
  <2>2. LiveRowsOf(o)' = {}
    BY <1>1, <1>4, <2>1 DEF LiveRowsOf, LiveRows, RowsOf
  <2>3. QED
    BY <1>5, <2>1, <2>2 DEF Phase, Granted
<1>7. Phase(p)' = "live" /\ Granted'[p] = {plan[p].seats}
  <2>1. RowsOf(p)' = {n}
    BY <1>3, <1>4 DEF RowsOf
  <2>2. LiveRowsOf(p)' = {n}
    BY <1>4, <2>1 DEF LiveRowsOf, LiveRows
  <2>3. subs'[n].state \notin UpdateNotDone /\ subs'[n].seats = plan[p].seats
    BY <1>4 DEF UpdateNotDone
  <2>4. QED
    BY <2>1, <2>2, <2>3 DEF Phase, Granted
<1>8. /\ Phases' = [Phases EXCEPT ![p] = "live"]
      /\ Granted' = [Granted EXCEPT ![p] = {Paid[p]}]
      /\ Phases[p] = "absent"
  BY <1>3, <1>6, <1>7 DEF Phases, Phase, Granted, Paid
<1>9. \A o \in Plans : ~Abs!Current(o)
  BY <1>5 DEF Abs!Current, Phases, Phase
<1>10. QED
  BY <1>1, <1>2, <1>8, <1>9, PlanStays DEF Abs!Grant, Abs!Move, Status

\* A row is deleted only after its plan was cancelled.
LEMMA CancelledAbs ==
  ASSUME TypeOK, SubInv, NEW c \in Consumers, ProcessEvent(c),
         NEW p \in Plans, job[c].msg = Cancelled(p)
  PROVE  Abs!End(p)
<1> USE DEF SubInv
<1>1. /\ \E i \in RowsOf(p) : Live(i) /\ subs' = [subs EXCEPT ![i].deleted = TRUE]
      /\ plan' = plan /\ Cancelled(p) \in accepted
  <2>1. \A o : Cancelled(p) # Created(o)
    BY DEF Created, Cancelled
  <2>2. /\ job[c].msg.plan = p
        /\ job[c].msg \in Events
    BY DEF Cancelled, Events
  <2>3. QED
    BY <2>1, <2>2 DEF ProcessEvent, EventsAreEmitted
<1>2. PICK i \in RowsOf(p) :
        Live(i) /\ subs' = [subs EXCEPT ![i].deleted = TRUE]
  BY <1>1
<1>3. i \in DOMAIN subs /\ subs[i].plan = p /\ subs[i] \in Sub
  BY RowIsTyped DEF RowsOf
<1>4. /\ DOMAIN subs' = DOMAIN subs
      /\ subs'[i].plan = subs[i].plan /\ subs'[i].deleted
      /\ \A j \in DOMAIN subs : j # i => subs'[j] = subs[j]
  BY <1>2, <1>3 DEF Sub
<1>5. /\ Phases' = [Phases EXCEPT ![p] = "ended"]
      /\ Granted' = [Granted EXCEPT ![p] = {}]
  BY <1>3, <1>4, RowChanges DEF PhaseOfRow, SeatsOfRow
<1>6. Phases[p] \in {"live", "updating"}
  BY <1>2, <1>3, RowOfPlan DEF PhaseOfRow, Live
<1>7. Status[p] = "cancelled"
  <2>1. Emitted(Cancelled(p))
    BY <1>1 DEF EventsAreEmitted
  <2>2. QED
    BY <2>1 DEF Emitted, Created, Cancelled, Status
<1>8. QED
  BY <1>1, <1>5, <1>6, <1>7, PlanStays DEF Abs!End, Abs!Move

\* A row that a handler updates is live as long as the plan is active.
LEMMA UpdateProviderAbs ==
  ASSUME TypeOK, SubInv, NEW c \in Consumers, UpdateProvider(c)
  PROVE  Abs!Next
<1> USE DEF SubInv
<1>1. PICK m \in UpdateMsgs : m = job[c].msg
  BY DEF UpdateProvider, MessagesAreHeld, JobAt
<1>2. PICK i \in DOMAIN subs : i = m.sub
  BY <1>1 DEF UpdateProvider, UpdatesAreExclusive, JobAt
<1>3. PICK p \in Plans : p = subs[i].plan
  BY RowOfPlan
<1>4. /\ plan[p].status = "active"
      /\ plan' = [plan EXCEPT ![p].seats = m.seats]
      /\ subs' = subs
  BY <1>1, <1>2, <1>3 DEF UpdateProvider
<1>5. Live(i)
  <2>1. ASSUME subs[i].deleted
        PROVE  FALSE
    <3>1. Cancelled(p) \in seen
      BY <1>3, <2>1 DEF EventsMatchRows, RowsOf
    <3>2. Emitted(Cancelled(p))
      BY <3>1 DEF EventsAreEmitted
    <3>3. QED
      BY <1>4, <3>2 DEF Emitted, Created, Cancelled
  <2>2. QED
    BY <2>1 DEF Live
<1>6. Phases[p] = "updating"
  <2>1. subs[i].state \in UpdateNotDone
    BY <1>1, <1>2, <1>5 DEF UpdateProvider, UpdatesAreExclusive, JobAt
  <2>2. QED
    BY <1>3, <1>5, <2>1, RowOfPlan DEF PhaseOfRow, Live
<1>7. /\ Paid' = [Paid EXCEPT ![p] = m.seats]
      /\ Status' = Status /\ Status[p] = "active"
  BY <1>4 DEF TypeOK, PlanStates, Paid, Status
<1>8. Abs!Charge(p, m.seats)
  BY <1>4, <1>6, <1>7, RowsStay DEF Abs!Charge
<1>9. m.seats \in Seats
  BY DEF UpdateMsgs
<1>10. QED
  BY <1>8, <1>9 DEF Abs!Next

\* What is committed is what the same handler has told the provider.
LEMMA CommitUpdateAbs ==
  ASSUME TypeOK, SubInv, NEW c \in Consumers, CommitUpdate(c)
  PROVE  Abs!Next
<1> USE DEF SubInv
<1>1. PICK i \in DOMAIN subs : i = job[c].msg.sub /\ Live(i)
  BY DEF CommitUpdate, Live
<1>2. PICK p \in Plans : p = subs[i].plan
  BY RowOfPlan
<1>3. /\ subs[i].state \in UpdateNotDone /\ subs[i] \in Sub
      /\ plan[p].seats = job[c].msg.seats /\ plan' = plan
  BY <1>1, <1>2, RowIsTyped DEF CommitUpdate, UpdatesAreExclusive, JobAt
<1>4. /\ DOMAIN subs' = DOMAIN subs
      /\ subs'[i].plan = subs[i].plan /\ ~subs'[i].deleted
      /\ subs'[i].state = "update/done" /\ subs'[i].seats = job[c].msg.seats
      /\ \A j \in DOMAIN subs : j # i => subs'[j] = subs[j]
  BY <1>1, <1>3 DEF CommitUpdate, Sub, Live
<1>5. /\ Phases' = [Phases EXCEPT ![p] = "live"]
      /\ Granted' = [Granted EXCEPT ![p] = {Paid[p]}]
  <2>1. /\ PhaseOfRow(subs'[i]) = "live"
        /\ SeatsOfRow(subs'[i]) = {Paid[p]}
    BY <1>3, <1>4 DEF PhaseOfRow, SeatsOfRow, UpdateNotDone, Paid
  <2>2. QED
    BY <1>2, <1>4, <2>1, RowChanges
<1>6. Phases[p] = "updating"
  BY <1>1, <1>2, <1>3, RowOfPlan DEF PhaseOfRow, Live
<1>7. Abs!FinishUpdate(p)
  BY <1>3, <1>5, <1>6, PlanStays DEF Abs!FinishUpdate, Abs!Move
<1>8. QED
  BY <1>7 DEF Abs!Next

LEMMA StepAbs ==
  ASSUME TypeOK, SubInv, [Next]_vars
  PROVE  [Abs!Next]_(Abs!vars)
<1>1. CASE UNCHANGED <<plan, subs>>
  BY <1>1, PlanStays, RowsStay DEF Abs!vars
<1>2. ASSUME NEW c \in Consumers, ProcessEvent(c)
      PROVE  Abs!Next
  <2>1. PICK p \in Plans : job[c].msg \in {Created(p), Cancelled(p)}
    BY <1>2 DEF ProcessEvent, SubInv, MessagesAreHeld, JobAt, Events
  <2>2. QED
    BY <1>2, <2>1, CreatedAbs, CancelledAbs DEF Abs!Next
<1>3. ASSUME NEW c \in Consumers, ConsumerStep(c)
      PROVE  [Abs!Next]_(Abs!vars)
  BY <1>1, <1>2, <1>3, UpdateProviderAbs, CommitUpdateAbs
  DEF ConsumerStep, JobProgress, ReceiveEvent, ReceiveUpdate, AckMessage,
      JobFails
<1>4. QED
  BY <1>1, <1>3, ProviderAbs, RequestAbs DEF Next, EventCreate, vars

\* Whatever is delivered twice, overtaken or lost between provider, API and
\* consumers: the organization has one subscription at most, whose seats are
\* those the provider charges whenever no update of it is under way.
THEOREM Implementation == Spec => RefinesSubscription
<1>1. TypeOK /\ SubInv /\ [Next]_vars => [Abs!Next]_(Abs!vars)
  BY StepAbs
<1>2. QED
  BY <1>1, InitAbs, SubscriptionInvariant, PTL
  DEF Spec, RefinesSubscription, Abs!Spec

=============================================================================
