---------------------------- MODULE Subscription ----------------------------
(***************************************************************************)
(* The subscription of one organization.                                   *)
(*                                                                         *)
(* A user buys and cancels subscriptions at the payment provider (Paddle), *)
(* which sends an event for each.  The API puts every event into the       *)
(* primary queue (services/subscription EventCreate); a consumer applies   *)
(* it to table org_subs (primaryqueue/paymentevents).  The number of seats *)
(* is changed through the API: Update accepts the change under an          *)
(* optimistic lock, puts a message and moves the row on, and the updater   *)
(* (primaryqueue/subs) tells the provider and commits.  Messages are       *)
(* delivered at least once and every step of a handler may be its last.    *)
(*                                                                         *)
(* The consumers subs/create and subs/delete are left out: nothing puts    *)
(* their messages, so only events make and delete rows.                    *)
(***************************************************************************)
EXTENDS Naturals, Sequences, FiniteSets

CONSTANTS
  Plans,       \* subscriptions bought at the provider
  Seats,       \* numbers of seats
  Requests,    \* update requests handled at the same time
  Consumers,   \* consumers of the primary queue
  MaxSubs,     \* bound: of rows of org_subs
  MaxVersion,  \* bound: of a row's version
  MaxCopies,   \* bound: copies of one message in the queue
  NoSeats, NoMsg

VARIABLES
  plan,      \* the provider's subscriptions: status and seats
  accepted,  \* events the API has answered ok to the provider
  seen,      \* rows of payment_gateway_events, by their unique provider_id
  dropped,   \* history: events taken for handled because the database did not
             \* answer
  subs,      \* rows of org_subs in the order of their ids
  queue,     \* copies of every message
  req,       \* update requests
  job        \* consumers

vars == <<plan, accepted, seen, dropped, subs, queue, req, job>>

-----------------------------------------------------------------------------
Done == {"create/done", "update/done"}
UpdateNotDone == {"update/init", "update/sent_to_queue"}

PlanStates == [status : {"none", "active", "cancelled"},
               seats : Seats \cup {NoSeats}]
Sub == [plan : Plans, state : Done \cup UpdateNotDone, deleted : BOOLEAN,
        seats : Seats, version : 0..MaxVersion]

Created(p) == [type |-> "subscription_created", plan |-> p]
Cancelled(p) == [type |-> "subscription_cancelled", plan |-> p]
Events == {Created(p) : p \in Plans} \cup {Cancelled(p) : p \in Plans}

\* An update message does not say which version of the row it was put for.
UpdateMsgs == [sub : 1..MaxSubs, seats : Seats]
Messages == Events \cup UpdateMsgs

ASSUME SubscriptionAssumption ==
  /\ MaxSubs \in Nat
  /\ MaxVersion \in Nat
  /\ MaxCopies \in Nat \ {0}
  /\ NoSeats \notin Seats
  /\ NoMsg \notin Messages
  /\ IsFiniteSet(Consumers)

IdleRequest == [pc |-> "idle", msg |-> NoMsg, state |-> "create/done",
                version |-> 0]
NoJob == [pc |-> "idle", msg |-> NoMsg, version |-> 0]

Live(i) == i \in DOMAIN subs /\ ~subs[i].deleted
LiveRows == {i \in DOMAIN subs : ~subs[i].deleted}
RowsOf(p) == {i \in DOMAIN subs : subs[i].plan = p}

Holders(m) == {c \in Consumers : job[c].msg = m}
JobAt(c, pc) == job[c].pc = pc
Goto(c, pc) == job' = [job EXCEPT ![c].pc = pc]
StartJob(c, m, pc, version) ==
  job' = [job EXCEPT ![c] = [pc |-> pc, msg |-> m, version |-> version]]

Init ==
  /\ plan = [p \in Plans |-> [status |-> "none", seats |-> NoSeats]]
  /\ accepted = {}
  /\ seen = {}
  /\ dropped = {}
  /\ subs = <<>>
  /\ queue = [m \in Messages |-> 0]
  /\ req = [q \in Requests |-> IdleRequest]
  /\ job = [c \in Consumers |-> NoJob]

-----------------------------------------------------------------------------
(* Payment provider                                                        *)

\* The checkout is the provider's: nothing stops a second subscription.
Subscribe(p, s) ==
  /\ plan[p].status = "none"
  /\ plan' = [plan EXCEPT ![p] = [status |-> "active", seats |-> s]]
  /\ UNCHANGED <<accepted, seen, dropped, subs, queue, req, job>>

CancelPlan(p) ==
  /\ plan[p].status = "active"
  /\ plan' = [plan EXCEPT ![p].status = "cancelled"]
  /\ UNCHANGED <<accepted, seen, dropped, subs, queue, req, job>>

Emitted(e) ==
  \/ e = Created(e.plan) /\ plan[e.plan].status # "none"
  \/ e = Cancelled(e.plan) /\ plan[e.plan].status = "cancelled"

-----------------------------------------------------------------------------
(* API                                                                     *)

\* A delivery of an event, which the provider may repeat: each one is put
\* with a UUID of its own.
EventCreate(e) ==
  /\ Emitted(e)
  /\ queue[e] < MaxCopies
  /\ queue' = [queue EXCEPT ![e] = @ + 1]
  /\ accepted' = accepted \cup {e}
  /\ UNCHANGED <<plan, seen, dropped, subs, req, job>>

\* The version in the request is the one of the row that is read.  A row in
\* update/sent_to_queue is answered ok and nothing more is done.
UpdateRequest(q, i, s) ==
  /\ req[q].pc = "idle"
  /\ Live(i)
  /\ subs[i].state # "update/sent_to_queue"
  /\ req' = [req EXCEPT ![q] =
               [pc |-> IF subs[i].state \in Done THEN "accept" ELSE "put",
                msg |-> [sub |-> i, seats |-> s],
                state |-> subs[i].state,
                version |-> subs[i].version]]
  /\ UNCHANGED <<plan, accepted, seen, dropped, subs, queue, job>>

\* Mutant: the row is saved without comparing it with the one that was read.
AcceptStaleUpdate(q) ==
  LET i == req[q].msg.sub
      v == req[q].version IN
  /\ req[q].pc = "accept"
  /\ Live(i)
  /\ v + 2 <= MaxVersion
  /\ subs' = [subs EXCEPT ![i].state = "update/init", ![i].version = v + 1]
  /\ req' = [req EXCEPT ![q].pc = "put"]
  /\ UNCHANGED <<plan, accepted, seen, dropped, queue, job>>

\* Bound: versions stop where the update could not be committed any more.
AcceptUpdate(q) ==
  LET i == req[q].msg.sub
      v == req[q].version IN
  /\ req[q].pc = "accept"
  /\ Live(i)
  /\ subs[i].state = req[q].state
  /\ subs[i].version = v
  /\ v + 2 <= MaxVersion
  /\ subs' = [subs EXCEPT ![i].state = "update/init", ![i].version = v + 1]
  /\ req' = [req EXCEPT ![q].pc = "put"]
  /\ UNCHANGED <<plan, accepted, seen, dropped, queue, job>>

SendToUpdateQueue(q) ==
  LET m == req[q].msg IN
  /\ req[q].pc = "put"
  /\ queue[m] < MaxCopies
  /\ queue' = [queue EXCEPT ![m] = @ + 1]
  /\ req' = [req EXCEPT ![q].pc = "finish"]
  /\ UNCHANGED <<plan, accepted, seen, dropped, subs, job>>

\* Only the state is compared, not the version, and it is no error when the
\* row has moved on.
FinishQueueSending(q) ==
  LET i == req[q].msg.sub IN
  /\ req[q].pc = "finish"
  /\ subs' = IF Live(i) /\ subs[i].state = "update/init"
             THEN [subs EXCEPT ![i].state = "update/sent_to_queue"]
             ELSE subs
  /\ req' = [req EXCEPT ![q] = IdleRequest]
  /\ UNCHANGED <<plan, accepted, seen, dropped, queue, job>>

\* A request that loses its race, fails or dies: a message that was put stays.
RequestFails(q) ==
  /\ req[q].pc # "idle"
  /\ req' = [req EXCEPT ![q] = IdleRequest]
  /\ UNCHANGED <<plan, accepted, seen, dropped, subs, queue, job>>

-----------------------------------------------------------------------------
(* Consumer of events                                                      *)

\* Two deliveries of one event have different locks.  An event counts as handled
\* whenever its lookup ends otherwise than with "record not found".
ReceiveEvent(c, e) ==
  /\ JobAt(c, "idle")
  /\ Cardinality(Holders(e)) < queue[e]
  /\ \/ /\ e \notin seen
        /\ StartJob(c, e, "process", 0)
        /\ UNCHANGED dropped
     \/ /\ StartJob(c, e, "ack", 0)
        /\ dropped' = dropped \cup ({e} \ seen)
  /\ UNCHANGED <<plan, accepted, seen, subs, queue, req>>

\* Mutant: payment_gateway_events has no unique index.
ProcessEventUnindexed(c) ==
  LET e == job[c].msg
      p == e.plan IN
  /\ JobAt(c, "process")
  /\ \/ /\ e = Created(p)
        /\ LiveRows = {}
        /\ Len(subs) < MaxSubs
        /\ subs' = Append(subs, [plan |-> p, state |-> "create/done",
                                 deleted |-> FALSE, seats |-> plan[p].seats,
                                 version |-> 0])
     \/ /\ e = Cancelled(p)
        /\ \E i \in RowsOf(p) :
             Live(i) /\ subs' = [subs EXCEPT ![i].deleted = TRUE]
  /\ seen' = seen \cup {e}
  /\ dropped' = dropped \ {e}
  /\ Goto(c, "ack")
  /\ UNCHANGED <<plan, accepted, queue, req>>

\* Mutant: a cancelled subscription that is not found is no error.
ProcessEventLeniently(c) ==
  LET e == job[c].msg
      p == e.plan IN
  /\ JobAt(c, "process")
  /\ e \notin seen
  /\ \/ /\ e = Created(p)
        /\ LiveRows = {}
        /\ Len(subs) < MaxSubs
        /\ subs' = Append(subs, [plan |-> p, state |-> "create/done",
                                 deleted |-> FALSE, seats |-> plan[p].seats,
                                 version |-> 0])
     \/ /\ e = Cancelled(p)
        /\ subs' = [i \in DOMAIN subs |-> [subs[i] EXCEPT
                      !.deleted = @ \/ i \in RowsOf(p)]]
  /\ seen' = seen \cup {e}
  /\ dropped' = dropped \ {e}
  /\ Goto(c, "ack")
  /\ UNCHANGED <<plan, accepted, queue, req>>

\* One transaction: the event's effect and its row.  Unique indexes refuse a
\* second row of the event and a second live row of the organization.  No seats
\* have been changed before the row exists, so the event's are the plan's.
ProcessEvent(c) ==
  LET e == job[c].msg
      p == e.plan IN
  /\ JobAt(c, "process")
  /\ e \notin seen
  /\ \/ /\ e = Created(p)
        /\ LiveRows = {}
        /\ Len(subs) < MaxSubs
        /\ subs' = Append(subs, [plan |-> p, state |-> "create/done",
                                 deleted |-> FALSE, seats |-> plan[p].seats,
                                 version |-> 0])
     \/ /\ e = Cancelled(p)
        /\ \E i \in RowsOf(p) :
             Live(i) /\ subs' = [subs EXCEPT ![i].deleted = TRUE]
  /\ seen' = seen \cup {e}
  /\ dropped' = dropped \ {e}
  /\ Goto(c, "ack")
  /\ UNCHANGED <<plan, accepted, queue, req>>

-----------------------------------------------------------------------------
(* Consumer of updates                                                     *)

\* Mutant: no distributed lock.
ReceiveUpdateUnlocked(c, m) ==
  /\ JobAt(c, "idle")
  /\ queue[m] > 0
  /\ \/ /\ Live(m.sub)
        /\ subs[m.sub].state \in UpdateNotDone
        /\ StartJob(c, m, "update_provider", subs[m.sub].version)
     \/ /\ ~Live(m.sub)
        /\ StartJob(c, m, "ack", 0)
  /\ UNCHANGED <<plan, accepted, seen, dropped, subs, queue, req>>

\* Mutant: only a row whose request has finished is updated.
ReceiveUpdateOnlySent(c, m) ==
  /\ JobAt(c, "idle")
  /\ queue[m] > 0
  /\ \A k \in Consumers : job[k].msg \in UpdateMsgs => job[k].msg.sub # m.sub
  /\ \/ /\ Live(m.sub)
        /\ subs[m.sub].state = "update/sent_to_queue"
        /\ StartJob(c, m, "update_provider", subs[m.sub].version)
     \/ /\ ~Live(m.sub)
        /\ StartJob(c, m, "ack", 0)
  /\ UNCHANGED <<plan, accepted, seen, dropped, subs, queue, req>>

\* The lock names the subscription.  A deleted row is a permanent error; a row
\* in another state is an error at once, and the message stays.
ReceiveUpdate(c, m) ==
  /\ JobAt(c, "idle")
  /\ queue[m] > 0
  /\ \A k \in Consumers : job[k].msg \in UpdateMsgs => job[k].msg.sub # m.sub
  /\ \/ /\ Live(m.sub)
        /\ subs[m.sub].state \in UpdateNotDone
        /\ StartJob(c, m, "update_provider", subs[m.sub].version)
     \/ /\ ~Live(m.sub)
        /\ StartJob(c, m, "ack", 0)
  /\ UNCHANGED <<plan, accepted, seen, dropped, subs, queue, req>>

\* The provider refuses to update a cancelled subscription.
UpdateProvider(c) ==
  LET m == job[c].msg
      p == subs[m.sub].plan IN
  /\ JobAt(c, "update_provider")
  /\ plan[p].status = "active"
  /\ plan' = [plan EXCEPT ![p].seats = m.seats]
  /\ Goto(c, "commit_update")
  /\ UNCHANGED <<accepted, seen, dropped, subs, queue, req>>

CommitUpdate(c) ==
  LET m == job[c].msg
      i == m.sub IN
  /\ JobAt(c, "commit_update")
  /\ Live(i)
  /\ subs[i].state \in UpdateNotDone
  /\ subs[i].version = job[c].version
  /\ subs' = [subs EXCEPT ![i].state = "update/done", ![i].seats = m.seats,
                          ![i].version = job[c].version + 1]
  /\ Goto(c, "ack")
  /\ UNCHANGED <<plan, accepted, seen, dropped, queue, req>>

-----------------------------------------------------------------------------
AckMessage(c) ==
  /\ JobAt(c, "ack")
  /\ queue' = [queue EXCEPT ![job[c].msg] = @ - 1]
  /\ job' = [job EXCEPT ![c] = NoJob]
  /\ UNCHANGED <<plan, accepted, seen, dropped, subs, req>>

\* Mutant: a message is acknowledged even if its handler failed.
JobFailsAcknowledged(c) ==
  /\ ~JobAt(c, "idle")
  /\ queue' = [queue EXCEPT ![job[c].msg] = @ - 1]
  /\ job' = [job EXCEPT ![c] = NoJob]
  /\ UNCHANGED <<plan, accepted, seen, dropped, subs, req>>

\* A handler that fails, times out or dies: the message becomes visible again.
JobFails(c) ==
  /\ ~JobAt(c, "idle")
  /\ job' = [job EXCEPT ![c] = NoJob]
  /\ UNCHANGED <<plan, accepted, seen, dropped, subs, queue, req>>

-----------------------------------------------------------------------------
ProviderStep ==
  \E p \in Plans : CancelPlan(p) \/ \E s \in Seats : Subscribe(p, s)

RequestStep(q) ==
  \/ \E i \in DOMAIN subs, s \in Seats : UpdateRequest(q, i, s)
  \/ AcceptUpdate(q)
  \/ SendToUpdateQueue(q)
  \/ FinishQueueSending(q)
  \/ RequestFails(q)

\* What a consumer does when nothing goes wrong
JobProgress(c) ==
  \/ ProcessEvent(c)
  \/ UpdateProvider(c)
  \/ CommitUpdate(c)
  \/ AckMessage(c)

ConsumerStep(c) ==
  \/ \E e \in Events : ReceiveEvent(c, e)
  \/ \E m \in UpdateMsgs : ReceiveUpdate(c, m)
  \/ JobProgress(c)
  \/ JobFails(c)

Next ==
  \/ ProviderStep
  \/ \E e \in Events : EventCreate(e)
  \/ \E q \in Requests : RequestStep(q)
  \/ \E c \in Consumers : ConsumerStep(c)

Spec == Init /\ [][Next]_vars

ReceiveEventSomewhere(e) == \E c \in Consumers : ReceiveEvent(c, e)

ReceiveUpdateSomewhere(i) ==
  \E c \in Consumers, m \in UpdateMsgs : m.sub = i /\ ReceiveUpdate(c, m)

\* A handler that could go on fails
TransientFailure(c) == ENABLED JobProgress(c) /\ JobFails(c)

\* The provider delivers its events.  An event, and some update of a row, is
\* received again and again as long as its message is there, a handler ends
\* (its context times out), and transient failures stop after a while.
Fairness ==
  /\ \A e \in Events : WF_vars(EventCreate(e) /\ e \notin accepted)
  /\ \A e \in Events : SF_vars(ReceiveEventSomewhere(e))
  /\ \A i \in 1..MaxSubs : SF_vars(ReceiveUpdateSomewhere(i))
  /\ \A c \in Consumers : WF_vars(JobProgress(c) \/ JobFails(c))
  /\ <>[][\A c \in Consumers : ~TransientFailure(c)]_vars

FairSpec == Spec /\ Fairness

-----------------------------------------------------------------------------
TypeOK ==
  /\ plan \in [Plans -> PlanStates]
  /\ \A p \in Plans : plan[p].status = "none" \/ plan[p].seats \in Seats
  /\ accepted \subseteq Events
  /\ seen \subseteq Events
  /\ dropped \subseteq Events
  /\ subs \in Seq(Sub)
  /\ Len(subs) <= MaxSubs
  /\ queue \in [Messages -> 0..MaxCopies]
  /\ req \in [Requests -> [pc : {"idle", "accept", "put", "finish"},
                           msg : UpdateMsgs \cup {NoMsg},
                           state : Done \cup UpdateNotDone,
                           version : 0..MaxVersion]]
  /\ job \in [Consumers -> [pc : {"idle", "process", "update_provider",
                                  "commit_update", "ack"},
                            msg : Messages \cup {NoMsg},
                            version : 0..MaxVersion]]

-----------------------------------------------------------------------------
(* Properties                                                              *)

\* An event is applied exactly once, however often it is delivered: a plan
\* whose creation was handled has one row, live until its cancellation was
\* handled, and no other plan has a row.
EventsMatchRows ==
  \A p \in Plans :
    /\ Created(p) \in seen <=> RowsOf(p) # {}
    /\ Cancelled(p) \in seen <=> \E i \in RowsOf(p) : subs[i].deleted
    /\ \A i, j \in RowsOf(p) : i = j

\* An event the API has answered ok is handled or still in the queue: the
\* provider sends it no more, so the payment would be taken for nothing. That
\* is what happens when the database fails to look the event up.
EventsNotLost ==
  \A e \in accepted : e \in seen \/ e \in dropped \/ queue[e] > 0

\* The organization has as many seats as it pays for whenever its update is
\* over, whatever handlers died between the provider's call and the commit.
SeatsInSync ==
  \A i \in LiveRows :
    subs[i].state \in Done => subs[i].seats = plan[subs[i].plan].seats

\* What was handled was accepted, and what was accepted happened.
EventsAreEmitted ==
  /\ \A e \in accepted : Emitted(e)
  /\ seen \subseteq accepted
  /\ \A e \in Events : queue[e] > 0 => e \in accepted
  /\ \A c \in Consumers : job[c].msg \in Events => job[c].msg \in accepted

\* Handlers hold messages of their kind, and never more of them than there are
\* in the queue.
MessagesAreHeld ==
  /\ \A q \in Requests : req[q].pc # "idle" => req[q].msg \in UpdateMsgs
  /\ \A c \in Consumers :
       /\ JobAt(c, "idle") <=> job[c].msg = NoMsg
       /\ JobAt(c, "process") => job[c].msg \in Events
       /\ job[c].pc \in {"update_provider", "commit_update"}
          => job[c].msg \in UpdateMsgs
  /\ \A m \in Messages : Cardinality(Holders(m)) <= queue[m]

\* A row that is being updated by a handler waits for an update until that
\* handler, the only one, has committed what it told the provider.
UpdatesAreExclusive ==
  /\ \A c, k \in Consumers :
       /\ job[c].msg \in UpdateMsgs
       /\ job[k].msg \in UpdateMsgs
       /\ job[c].msg.sub = job[k].msg.sub
       => c = k
  /\ \A c \in Consumers :
       job[c].pc \in {"update_provider", "commit_update"} =>
         /\ job[c].msg.sub \in DOMAIN subs
         /\ Live(job[c].msg.sub) => subs[job[c].msg.sub].state \in UpdateNotDone
         /\ JobAt(c, "commit_update") =>
              plan[subs[job[c].msg.sub].plan].seats = job[c].msg.seats

\* An update that has begun leaves its end a version.
VersionsLeaveRoom ==
  \A i \in DOMAIN subs :
    subs[i].state \in UpdateNotDone => subs[i].version < MaxVersion

\* An event that is about to be acknowledged was handled, or is dropped.
HandledIsSeen ==
  \A c \in Consumers :
    JobAt(c, "ack") /\ job[c].msg \in Events => job[c].msg \in seen \cup dropped

\* Provider, events, rows and handlers keep to one protocol: an event is
\* applied together with its row, and the seats at the provider change only
\* under a row that waits for it.
SubInv ==
  /\ EventsAreEmitted
  /\ EventsMatchRows
  /\ MessagesAreHeld
  /\ UpdatesAreExclusive
  /\ VersionsLeaveRoom
  /\ SeatsInSync
  /\ HandledIsSeen
  /\ EventsNotLost

VersionGrows(i) ==
  /\ subs[i].version <= subs'[i].version
  /\ ((subs[i].state \in Done) # (subs'[i].state \in Done)) =>
       subs[i].version < subs'[i].version

\* The version tells a client that a subscription was changed in parallel: it
\* never falls, and it grows whenever an update begins or ends.
VersionsGrow == [][\A i \in DOMAIN subs : VersionGrows(i)]_vars

-----------------------------------------------------------------------------
(* The abstract specification                                              *)

LiveRowsOf(p) == RowsOf(p) \cap LiveRows

Phase(p) ==
  IF RowsOf(p) = {} THEN "absent"
  ELSE IF LiveRowsOf(p) = {} THEN "ended"
  ELSE IF \E i \in LiveRowsOf(p) : subs[i].state \in UpdateNotDone
       THEN "updating" ELSE "live"

Status == [p \in Plans |-> plan[p].status]
Paid == [p \in Plans |-> plan[p].seats]
Phases == [p \in Plans |-> Phase(p)]
Granted == [p \in Plans |-> {subs[i].seats : i \in LiveRowsOf(p)}]

Abs == INSTANCE SubscriptionAbs
  WITH status <- Status, paid <- Paid, phase <- Phases, granted <- Granted

\* Provider, events and rows, whatever is repeated, overtaken or lost between
\* them, are one subscription whose seats are those that are paid.
RefinesSubscription == Abs!Spec

-----------------------------------------------------------------------------
\* An update whose message is in the queue ends, even if the plan is cancelled
\* under it: then the row goes away with it. If that cancellation is dropped,
\* the provider refuses the update for ever.
UpdateEnds ==
  \A i \in 1..MaxSubs :
    (/\ Live(i)
     /\ subs[i].state \in UpdateNotDone
     /\ \E m \in UpdateMsgs : m.sub = i /\ queue[m] > 0)
      ~> (\/ ~Live(i)
          \/ subs[i].state \in Done
          \/ Cancelled(subs[i].plan) \in dropped)

\* The row of a cancelled plan is deleted in the end, in whatever order the
\* two events come, so that the organization may subscribe again; unless the
\* cancellation is dropped.
CancelledIsDeleted ==
  \A p \in Plans :
    (plan[p].status = "cancelled" /\ \E i \in RowsOf(p) : Live(i))
      ~> (Cancelled(p) \in dropped \/ \A i \in RowsOf(p) : ~Live(i))

=============================================================================
