------------------------------ MODULE WorkQueue ------------------------------
(***************************************************************************)
(* A work queue: an SQS queue with its dead letter queue, the consumers    *)
(* that poll them (internal/shared/queue), and the distributed locks in    *)
(* Redis that keep two handlers of one job apart.                          *)
(*                                                                         *)
(* A consumer's work on a message is limited by a context, the lock by its *)
(* expiry, and the message comes back when its visibility timeout is over; *)
(* nothing but the choice of these times keeps them in order.  Time passes *)
(* in units: a unit is 15 s for the primary queue.                         *)
(***************************************************************************)
EXTENDS Integers

CONSTANTS
  Consumers,        \* pollers of the queue and of the dead letter queue
  DeadConsumers,    \* those of the dead letter queue
  Messages,         \* messages that may be put
  Locks,
  LockID,           \* the lock of a message
  Nobody,           \* no consumer, no message
  VisibilityTimeout,
  ConsumerTimeout,
  LockTries,        \* how long redsync tries to acquire a lock
  BackoffUnit,      \* the delay after a failure is 2^n units
  MaxDelay,         \* the longest visibility timeout SQS accepts: 12 hours
  MaxReceives,      \* receives before a message is moved to the dead letters;
                    \* bound: receives from there
  InTime            \* assumption: a handler ends when its context does, and
                    \* no later than that the message is acknowledged

\* The context of a poll ends before the message is visible again.
PollTimeout == (VisibilityTimeout * 4) \div 5
ContextTime == IF ConsumerTimeout < PollTimeout THEN ConsumerTimeout
                                                ELSE PollTimeout

ASSUME WorkQueueAssumption ==
  /\ DeadConsumers \subseteq Consumers
  /\ LockID \in [Messages -> Locks]
  /\ Nobody \notin Consumers \cup Messages
  /\ VisibilityTimeout \in Nat /\ ConsumerTimeout \in Nat
  /\ LockTries \in Nat /\ LockTries < ContextTime
  /\ BackoffUnit \in Nat \ {0} /\ MaxDelay \in Nat /\ MaxReceives \in Nat \ {0}
  /\ InTime \in BOOLEAN

VARIABLES
  where,     \* where a message is
  hidden,    \* time until a message is visible
  received,  \* ApproximateReceiveCount of a message
  owner,     \* whose token the lock has
  expires,   \* time until the lock expires
  pc,        \* what a consumer does
  msg,       \* its message
  receipt,   \* its receipt of the message, 0 when the message has left its queue
  left,      \* time until its context ends
  wait,      \* time it goes on trying to acquire the lock
  handledOk, \* its handler's result
  handled    \* history: messages that were handled

messageVars == <<where, hidden, received>>
lockVars == <<owner, expires>>
consumerVars == <<pc, msg, receipt, left, wait, handledOk>>
vars == <<messageVars, lockVars, consumerVars, handled>>

Init ==
  /\ where = [m \in Messages |-> "none"]
  /\ hidden = [m \in Messages |-> 0]
  /\ received = [m \in Messages |-> 0]
  /\ owner = [l \in Locks |-> Nobody]
  /\ expires = [l \in Locks |-> 0]
  /\ pc = [c \in Consumers |-> "polling"]
  /\ msg = [c \in Consumers |-> Nobody]
  /\ receipt = [c \in Consumers |-> 0]
  /\ left = [c \in Consumers |-> 0]
  /\ wait = [c \in Consumers |-> 0]
  /\ handledOk = [c \in Consumers |-> FALSE]
  /\ handled = {}

-----------------------------------------------------------------------------
(* SQS                                                                     *)

Put(m) ==
  /\ where[m] = "none"
  /\ where' = [where EXCEPT ![m] = "main"]
  /\ UNCHANGED <<hidden, received, lockVars, consumerVars, handled>>

\* The redrive policy.  Receipts are those of the other queue then.
MoveToDead(m) ==
  /\ where[m] = "main"
  /\ hidden[m] = 0
  /\ received[m] = MaxReceives
  /\ where' = [where EXCEPT ![m] = "dead"]
  /\ received' = [received EXCEPT ![m] = 0]
  /\ receipt' = [c \in Consumers |-> IF msg[c] = m THEN 0 ELSE receipt[c]]
  /\ UNCHANGED <<hidden, lockVars, pc, msg, left, wait, handledOk, handled>>

-----------------------------------------------------------------------------
(* Consumers                                                               *)

Polls(c) == IF c \in DeadConsumers THEN "dead" ELSE "main"

Busy(c) == pc[c] # "polling"

\* Mutant: the poll has no context of its own but the consumer's timeout.
TryReceiveUnlimited(c, m) ==
  /\ pc[c] = "polling"
  /\ where[m] = Polls(c)
  /\ hidden[m] = 0
  /\ received[m] < MaxReceives
  /\ received' = [received EXCEPT ![m] = @ + 1]
  /\ hidden' = [hidden EXCEPT ![m] = VisibilityTimeout]
  /\ pc' = [pc EXCEPT ![c] = "locking"]
  /\ msg' = [msg EXCEPT ![c] = m]
  /\ receipt' = [receipt EXCEPT ![c] = received[m] + 1]
  /\ left' = [left EXCEPT ![c] = VisibilityTimeout + 1]
  /\ wait' = [wait EXCEPT ![c] = LockTries]
  /\ UNCHANGED <<where, lockVars, handledOk, handled>>

TryReceive(c, m) ==
  /\ pc[c] = "polling"
  /\ where[m] = Polls(c)
  /\ hidden[m] = 0
  /\ received[m] < MaxReceives
  /\ received' = [received EXCEPT ![m] = @ + 1]
  /\ hidden' = [hidden EXCEPT ![m] = VisibilityTimeout]
  /\ pc' = [pc EXCEPT ![c] = "locking"]
  /\ msg' = [msg EXCEPT ![c] = m]
  /\ receipt' = [receipt EXCEPT ![c] = received[m] + 1]
  /\ left' = [left EXCEPT ![c] = ContextTime]
  /\ wait' = [wait EXCEPT ![c] = LockTries]
  /\ UNCHANGED <<where, lockVars, handledOk, handled>>

LockOf(c) == LockID[msg[c]]

\* Mutant: the lock has an expiry that is shorter than the context.
AcquireLockBriefly(c) ==
  /\ pc[c] = "locking"
  /\ expires[LockOf(c)] = 0
  /\ owner' = [owner EXCEPT ![LockOf(c)] = c]
  /\ expires' = [expires EXCEPT ![LockOf(c)] = 1]
  /\ pc' = [pc EXCEPT ![c] = "handling"]
  /\ UNCHANGED <<messageVars, msg, receipt, left, wait, handledOk, handled>>

AcquireLock(c) ==
  /\ pc[c] = "locking"
  /\ expires[LockOf(c)] = 0
  /\ owner' = [owner EXCEPT ![LockOf(c)] = c]
  /\ expires' = [expires EXCEPT ![LockOf(c)] = ConsumerTimeout]
  /\ pc' = [pc EXCEPT ![c] = "handling"]
  /\ UNCHANGED <<messageVars, msg, receipt, left, wait, handledOk, handled>>

\* A message that is not JSON or has no consumer, Redis failing, or a lock that
\* stays taken: each is an error to try again, a bad message too.
RefuseMessage(c) ==
  /\ pc[c] = "locking"
  /\ pc' = [pc EXCEPT ![c] = "acking"]
  /\ handledOk' = [handledOk EXCEPT ![c] = FALSE]
  /\ UNCHANGED <<messageVars, lockVars, msg, receipt, left, wait, handled>>

\* The lock is deleted if it still has the token of the consumer.
Unlock(c) ==
  /\ expires' = [l \in Locks |-> IF owner[l] = c THEN 0 ELSE expires[l]]
  /\ owner' = [l \in Locks |-> IF owner[l] = c THEN Nobody ELSE owner[l]]

\* The handler ends; nil and a permanent error mean that it has handled the
\* message.
RunHandler(c) ==
  /\ pc[c] = "handling"
  /\ Unlock(c)
  /\ \E ok \in BOOLEAN :
       /\ handledOk' = [handledOk EXCEPT ![c] = ok]
       /\ handled' = IF ok THEN handled \cup {msg[c]} ELSE handled
  /\ pc' = [pc EXCEPT ![c] = "acking"]
  /\ UNCHANGED <<messageVars, msg, receipt, left, wait>>

Idle(c) ==
  /\ pc' = [pc EXCEPT ![c] = "polling"]
  /\ msg' = [msg EXCEPT ![c] = Nobody]
  /\ receipt' = [receipt EXCEPT ![c] = 0]
  /\ left' = [left EXCEPT ![c] = 0]
  /\ wait' = [wait EXCEPT ![c] = 0]
  /\ handledOk' = [handledOk EXCEPT ![c] = FALSE]

\* SQS knows only the last receipt of a message, but may delete by an old one.
ValidReceipt(c) == receipt[c] = received[msg[c]]

\* Mutant: a message whose handler failed is deleted too.
AckAlways(c) ==
  /\ pc[c] = "acking"
  /\ where' = [where EXCEPT ![msg[c]] = "gone"]
  /\ Idle(c)
  /\ UNCHANGED <<hidden, received, lockVars, handled>>

\* DeleteMessage
AckHandled(c) ==
  /\ pc[c] = "acking"
  /\ handledOk[c]
  /\ where' = [where EXCEPT ![msg[c]] = "gone"]
  /\ Idle(c)
  /\ UNCHANGED <<hidden, received, lockVars, handled>>

Backoff(n) == (2 ^ n) * BackoffUnit

\* The longest delay of any count is more than SQS accepts.
AckFailed(c) ==
  /\ pc[c] = "acking"
  /\ ~handledOk[c]
  /\ ValidReceipt(c)
  /\ Backoff(receipt[c]) \in 0..MaxDelay
  /\ hidden[msg[c]] > 0
  /\ hidden' = [hidden EXCEPT ![msg[c]] = Backoff(receipt[c])]
  /\ Idle(c)
  /\ UNCHANGED <<where, received, lockVars, handled>>

\* Mutant: an acknowledgment is tried until SQS takes it.
AckFailsForever(c) ==
  /\ pc[c] = "acking"
  /\ UNCHANGED vars

\* SQS fails, or refuses the receipt or the delay, which is only logged: the
\* message is visible again after its visibility timeout.
AckFails(c) ==
  /\ pc[c] = "acking"
  /\ Idle(c)
  /\ UNCHANGED <<messageVars, lockVars, handled>>

\* A panic unlocks before it ends the process; a crash leaves the lock to
\* expire.
ConsumerDies(c) ==
  /\ Busy(c)
  /\ \/ Unlock(c)
     \/ /\ owner' = [l \in Locks |-> IF owner[l] = c THEN Nobody ELSE owner[l]]
        /\ UNCHANGED expires
  /\ Idle(c)
  /\ UNCHANGED <<messageVars, handled>>

-----------------------------------------------------------------------------
(* Time                                                                    *)

Less(n) == IF n > 0 THEN n - 1 ELSE 0

\* The tries to acquire a lock end; so does a handler in time.
MayWait(c) ==
  /\ pc[c] = "locking" => wait[c] > 0
  /\ Busy(c) /\ InTime => left[c] > 1

Tick ==
  /\ \A c \in Consumers : MayWait(c)
  /\ hidden' = [m \in Messages |-> Less(hidden[m])]
  /\ expires' = [l \in Locks |-> Less(expires[l])]
  /\ owner' = [l \in Locks |-> IF expires[l] > 1 THEN owner[l] ELSE Nobody]
  /\ left' = [c \in Consumers |-> Less(left[c])]
  /\ wait' = [c \in Consumers |-> Less(wait[c])]
  /\ UNCHANGED <<where, received, pc, msg, receipt, handledOk, handled>>

-----------------------------------------------------------------------------
Work(c) ==
  \/ AcquireLock(c)
  \/ RefuseMessage(c)
  \/ RunHandler(c)
  \/ AckHandled(c)
  \/ AckFailed(c)
  \/ AckFails(c)

Next ==
  \/ \E m \in Messages : Put(m) \/ MoveToDead(m)
  \/ \E c \in Consumers, m \in Messages : TryReceive(c, m)
  \/ \E c \in Consumers : Work(c) \/ ConsumerDies(c)
  \/ Tick

Spec == Init /\ [][Next]_vars

\* Time passes, consumers go on, and SQS gives every message of the queue to a
\* consumer some time; the script for dead letters may not run.
Fairness ==
  /\ WF_vars(Tick)
  /\ \A c \in Consumers : WF_vars(Work(c))
  /\ \A m \in Messages :
       /\ WF_vars(MoveToDead(m))
       /\ SF_vars(\E c \in Consumers \ DeadConsumers : TryReceive(c, m))

FairSpec == Spec /\ Fairness

-----------------------------------------------------------------------------
TypeOK ==
  /\ where \in [Messages -> {"none", "main", "dead", "gone"}]
  /\ hidden \in [Messages -> Nat]
  /\ received \in [Messages -> 0..MaxReceives]
  /\ owner \in [Locks -> Consumers \cup {Nobody}]
  /\ expires \in [Locks -> Nat]
  /\ pc \in [Consumers -> {"polling", "locking", "handling", "acking"}]
  /\ msg \in [Consumers -> Messages \cup {Nobody}]
  /\ receipt \in [Consumers -> 0..MaxReceives]
  /\ left \in [Consumers -> Nat]
  /\ wait \in [Consumers -> Nat]
  /\ handledOk \in [Consumers -> BOOLEAN]
  /\ handled \subseteq Messages

\* Two consumers never handle messages of one lock at the same time, be they
\* of the queue or of the dead letter queue.
LockedAlone ==
  \A c, d \in Consumers :
    pc[c] = "handling" /\ pc[d] = "handling" /\ LockOf(c) = LockOf(d) => c = d

\* A message comes back only when the consumer that had it is done with it.
OneReceiver ==
  \A c, d \in Consumers : Busy(c) /\ msg[c] = msg[d] => c = d

\* A message is deleted only when a handler has handled it: lost answers, old
\* receipts, crashes and dead letters do not lose it.
NotLost == \A m \in Messages : where[m] = "gone" => m \in handled

\* Every message is handled, or is a dead letter in the end.
MessageSettles ==
  \A m \in Messages : where[m] = "main" ~> where[m] \in {"gone", "dead"}

\* What the services may rely on: a message is in the queue until it was
\* handled and nobody handles it, and no two handlers of one lock run.
Queued == {m \in Messages : where[m] \in {"main", "dead"}}

Running == [c \in Consumers |-> IF pc[c] = "handling" THEN msg[c] ELSE Nobody]

Jobs == INSTANCE JobQueue WITH queued <- Queued, running <- Running

RefinesJobQueue == Jobs!Spec

-----------------------------------------------------------------------------
(* Why these hold: the inductive invariant                                 *)

\* A message that a consumer has, or has handled, was put, and is in the queue
\* as long as somebody works on it.
MessagesArePut ==
  /\ \A m \in Messages : m \in handled => where[m] # "none"
  /\ \A c \in Consumers : Busy(c) => where[msg[c]] # "none"

BusyIsQueued == \A c \in Consumers : Busy(c) => msg[c] \in Queued

WorkHasMessage ==
  \A c \in Consumers :
    /\ Busy(c) <=> msg[c] # Nobody
    /\ handledOk[c] => msg[c] \in handled

\* The lock of a handler lasts as long as its context.
LockOutlastsHandler ==
  \A c \in Consumers :
    pc[c] = "handling" =>
      owner[LockOf(c)] = c /\ left[c] > 0 /\ expires[LockOf(c)] >= left[c]

\* The message stays hidden for longer than the context of its consumer lasts.
HiddenWhileBusy ==
  \A c \in Consumers :
    Busy(c) => /\ left[c] > 0 /\ left[c] <= ContextTime
               /\ hidden[msg[c]] > left[c]

QueueInv ==
  /\ WorkHasMessage
  /\ NotLost
  /\ MessagesArePut
  /\ InTime => /\ LockOutlastsHandler
               /\ HiddenWhileBusy
               /\ OneReceiver
               /\ BusyIsQueued

=============================================================================
