--------------------------- MODULE WorkQueueProofs ---------------------------
(***************************************************************************)
(* Proofs about WorkQueue, for all values of its constants.                *)
(***************************************************************************)
EXTENDS WorkQueue, TLAPS

\* The three times that keep a handler within its lock and its message hidden.
LEMMA Times ==
  /\ ContextTime \in Nat \ {0}
  /\ ContextTime <= ConsumerTimeout
  /\ ContextTime < VisibilityTimeout
  /\ VisibilityTimeout \in Nat /\ ConsumerTimeout \in Nat
<1>1. /\ VisibilityTimeout \in Nat /\ ConsumerTimeout \in Nat
      /\ LockTries \in Nat /\ LockTries < ContextTime
  BY WorkQueueAssumption
<1>2. PollTimeout \in Nat
  BY <1>1 DEF PollTimeout
<1>3. ContextTime \in Nat \ {0} /\ ContextTime <= ConsumerTimeout
      /\ ContextTime <= PollTimeout
  BY <1>1, <1>2 DEF ContextTime
<1>4. PollTimeout < VisibilityTimeout
  BY <1>1, <1>2, <1>3 DEF PollTimeout
<1>5. QED
  BY <1>1, <1>2, <1>3, <1>4

LEMMA LessIsNat == \A n \in Nat : Less(n) \in Nat
BY DEF Less

(***************************************************************************)
(* Type correctness                                                        *)
(***************************************************************************)

LEMMA InitTypeOK == Init => TypeOK
BY WorkQueueAssumption DEF Init, TypeOK

LEMMA IdleEffect ==
  ASSUME TypeOK, NEW c \in Consumers, Idle(c)
  PROVE  /\ pc' \in [Consumers -> {"polling", "locking", "handling", "acking"}]
         /\ msg' \in [Consumers -> Messages \cup {Nobody}]
         /\ receipt' \in [Consumers -> 0..MaxReceives]
         /\ left' \in [Consumers -> Nat]
         /\ wait' \in [Consumers -> Nat]
         /\ handledOk' \in [Consumers -> BOOLEAN]
         /\ pc'[c] = "polling" /\ msg'[c] = Nobody /\ ~handledOk'[c]
         /\ \A d \in Consumers \ {c} :
              /\ pc'[d] = pc[d] /\ msg'[d] = msg[d] /\ left'[d] = left[d]
              /\ handledOk'[d] = handledOk[d]
<1>1. 0 \in 0..MaxReceives
  BY WorkQueueAssumption
<1>2. QED
  BY <1>1 DEF TypeOK, Idle

LEMMA UnlockEffect ==
  ASSUME TypeOK, NEW c \in Consumers, Unlock(c)
  PROVE  /\ owner' \in [Locks -> Consumers \cup {Nobody}]
         /\ expires' \in [Locks -> Nat]
         /\ \A l \in Locks : owner[l] # c => owner'[l] = owner[l]
                                             /\ expires'[l] = expires[l]
BY DEF TypeOK, Unlock

LEMMA StepTypeOK == TypeOK /\ WorkHasMessage /\ [Next]_vars => TypeOK'
<1> SUFFICES ASSUME TypeOK, WorkHasMessage, [Next]_vars PROVE TypeOK'
  OBVIOUS
<1>1. ASSUME NEW m \in Messages, Put(m) PROVE TypeOK'
  BY <1>1 DEF TypeOK, Put, lockVars, consumerVars
<1>2. ASSUME NEW m \in Messages, MoveToDead(m) PROVE TypeOK'
  <2>1. 0 \in 0..MaxReceives
    BY WorkQueueAssumption
  <2>2. QED
    BY <1>2, <2>1 DEF TypeOK, MoveToDead, lockVars
<1>3. ASSUME NEW c \in Consumers, NEW m \in Messages, TryReceive(c, m)
      PROVE  TypeOK'
  <2>1. received[m] + 1 \in 0..MaxReceives
    <3>1. received[m] \in 0..MaxReceives /\ received[m] < MaxReceives
      BY <1>3 DEF TypeOK, TryReceive
    <3>2. QED
      BY <3>1, WorkQueueAssumption
  <2>2. VisibilityTimeout \in Nat /\ ContextTime \in Nat /\ LockTries \in Nat
    BY Times, WorkQueueAssumption
  <2>3. received' \in [Messages -> 0..MaxReceives]
        /\ receipt' \in [Consumers -> 0..MaxReceives]
    BY <1>3, <2>1 DEF TypeOK, TryReceive
  <2>4. QED
    BY <1>3, <2>2, <2>3 DEF TypeOK, TryReceive, lockVars
<1>4. ASSUME NEW c \in Consumers, AcquireLock(c) PROVE TypeOK'
  BY <1>4, Times DEF TypeOK, AcquireLock, messageVars
<1>5. ASSUME NEW c \in Consumers, RefuseMessage(c) PROVE TypeOK'
  BY <1>5 DEF TypeOK, RefuseMessage, messageVars, lockVars
<1>6. ASSUME NEW c \in Consumers, RunHandler(c) PROVE TypeOK'
  <2> msg[c] \in Messages
    BY <1>6 DEF RunHandler, WorkHasMessage, Busy, TypeOK
  <2>1. /\ owner' \in [Locks -> Consumers \cup {Nobody}]
        /\ expires' \in [Locks -> Nat]
    BY <1>6, UnlockEffect DEF RunHandler
  <2>2. QED
    BY <1>6, <2>1 DEF TypeOK, RunHandler, messageVars
<1>7. ASSUME NEW c \in Consumers, AckHandled(c) PROVE TypeOK'
  BY <1>7, IdleEffect DEF TypeOK, AckHandled, lockVars
<1>8. ASSUME NEW c \in Consumers, AckFailed(c) PROVE TypeOK'
  <2>1. Backoff(receipt[c]) \in Nat
    BY <1>8, WorkQueueAssumption DEF AckFailed
  <2>2. hidden' \in [Messages -> Nat]
    BY <1>8, <2>1 DEF TypeOK, AckFailed
  <2>3. QED
    BY <1>8, <2>2, IdleEffect DEF TypeOK, AckFailed, lockVars
<1>9. ASSUME NEW c \in Consumers, AckFails(c) PROVE TypeOK'
  BY <1>9, IdleEffect DEF TypeOK, AckFails, messageVars, lockVars
<1>10. ASSUME NEW c \in Consumers, ConsumerDies(c) PROVE TypeOK'
  <2>1. owner' \in [Locks -> Consumers \cup {Nobody}] /\ expires' \in [Locks -> Nat]
    BY <1>10, UnlockEffect DEF TypeOK, ConsumerDies
  <2>2. QED
    BY <1>10, <2>1, IdleEffect DEF TypeOK, ConsumerDies, messageVars
<1>11. CASE Tick
  BY <1>11, LessIsNat DEF TypeOK, Tick
<1>12. CASE UNCHANGED vars
  BY <1>12 DEF TypeOK, vars, messageVars, lockVars, consumerVars
<1>13. QED
  BY <1>1, <1>2, <1>3, <1>4, <1>5, <1>6, <1>7, <1>8, <1>9, <1>10, <1>11, <1>12
     DEF Next, Work

(***************************************************************************)
(* Messages are handled before they are deleted                            *)
(***************************************************************************)

\* What a step makes of a consumer: it keeps its message, is idle, or receives
\* a message.
LEMMA ConsumerMoves ==
  ASSUME TypeOK, [Next]_vars, NEW c \in Consumers
  PROVE  \/ /\ msg'[c] = msg[c]
            /\ pc'[c] = "polling" <=> pc[c] = "polling"
            /\ left'[c] = left[c] \/ Tick
         \/ msg'[c] = Nobody /\ pc'[c] = "polling" /\ ~handledOk'[c]
         \/ \E m \in Messages :
              TryReceive(c, m) /\ msg'[c] = m /\ pc'[c] = "locking"
<1>1. ASSUME NEW d \in Consumers, AckHandled(d) \/ AckFailed(d) \/ AckFails(d)
                                  \/ ConsumerDies(d)
      PROVE  /\ Idle(d)
  BY <1>1 DEF AckHandled, AckFailed, AckFails, ConsumerDies
<1>2. CASE \E d \in Consumers : AckHandled(d) \/ AckFailed(d) \/ AckFails(d)
                                \/ ConsumerDies(d)
  <2>1. PICK d \in Consumers : Idle(d)
    BY <1>1, <1>2
  <2>2. QED
    BY <2>1, IdleEffect
<1>3. CASE \E d \in Consumers, m \in Messages : TryReceive(d, m)
  <2>1. PICK d \in Consumers, m \in Messages : TryReceive(d, m)
    BY <1>3
  <2>2. /\ pc' = [pc EXCEPT ![d] = "locking"]
        /\ msg' = [msg EXCEPT ![d] = m]
        /\ left' = [left EXCEPT ![d] = ContextTime]
    BY <2>1 DEF TryReceive
  <2>3. CASE c = d
    BY <2>1, <2>2, <2>3 DEF TypeOK
  <2>4. CASE c # d
    BY <2>2, <2>4 DEF TypeOK
  <2>5. QED
    BY <2>3, <2>4
<1>4. CASE \E d \in Consumers : AcquireLock(d) \/ RefuseMessage(d) \/ RunHandler(d)
  <2>1. PICK d \in Consumers :
          AcquireLock(d) \/ RefuseMessage(d) \/ RunHandler(d)
    BY <1>4
  <2>2. /\ pc[d] # "polling"
        /\ pc' = [pc EXCEPT ![d] = pc'[d]]
        /\ pc'[d] # "polling"
    BY <2>1 DEF TypeOK, AcquireLock, RefuseMessage, RunHandler
  <2>3. msg' = msg /\ left' = left
    BY <2>1 DEF AcquireLock, RefuseMessage, RunHandler
  <2>4. QED
    BY <2>2, <2>3 DEF TypeOK
<1>5. CASE Tick \/ (\E m \in Messages : Put(m) \/ MoveToDead(m)) \/ UNCHANGED vars
  BY <1>5 DEF Tick, Put, MoveToDead, vars, consumerVars
<1>6. QED
  BY <1>2, <1>3, <1>4, <1>5 DEF Next, Work

LEMMA StepWorkHasMessage ==
  ASSUME TypeOK, WorkHasMessage, [Next]_vars
  PROVE  WorkHasMessage'
<1> SUFFICES ASSUME NEW c \in Consumers
             PROVE  /\ pc'[c] # "polling" <=> msg'[c] # Nobody
                    /\ handledOk'[c] => msg'[c] \in handled'
  BY DEF WorkHasMessage, Busy
<1>1. pc'[c] # "polling" <=> msg'[c] # Nobody
  BY ConsumerMoves, WorkQueueAssumption DEF WorkHasMessage, Busy
<1>2. handled \subseteq handled'
  BY DEF Next, Put, MoveToDead, TryReceive, Work, AcquireLock, RefuseMessage,
     RunHandler, AckHandled, AckFailed, AckFails, ConsumerDies, Tick, vars
<1>3. handledOk'[c] => msg'[c] \in handled'
  <2>1. CASE \E m \in Messages : TryReceive(c, m)
    <3>1. handledOk' = handledOk /\ pc[c] = "polling"
      BY <2>1 DEF TryReceive
    <3>2. ~handledOk[c]
      <4>1. msg[c] = Nobody
        BY <3>1 DEF WorkHasMessage, Busy
      <4>2. QED
        BY <4>1, WorkQueueAssumption DEF WorkHasMessage, TypeOK
    <3>3. QED
      BY <3>1, <3>2
  <2>2. CASE RunHandler(c)
    BY <2>2 DEF RunHandler, WorkHasMessage, TypeOK
  <2>3. CASE ~handledOk'[c]
    BY <2>3
  <2>4. CASE msg'[c] = msg[c] /\ ~RunHandler(c) /\ handledOk'[c]
    <3>1. handledOk[c]
      <4>1. ASSUME NEW d \in Consumers, Idle(d)
            PROVE  handledOk[c]
        BY <2>4, <4>1, IdleEffect
      <4>2. CASE \E d \in Consumers : AckHandled(d) \/ AckFailed(d)
                                      \/ AckFails(d) \/ ConsumerDies(d)
        BY <4>1, <4>2 DEF AckHandled, AckFailed, AckFails, ConsumerDies
      <4>3. CASE \E d \in Consumers : RefuseMessage(d) \/ RunHandler(d)
        BY <2>4, <4>3 DEF TypeOK, RefuseMessage, RunHandler
      <4>4. CASE handledOk' = handledOk
        BY <2>4, <4>4
      <4>5. QED
        BY <4>2, <4>3, <4>4 DEF Next, Put, MoveToDead, TryReceive, Work,
           AcquireLock, Tick, vars, consumerVars
    <3>2. QED
      BY <1>2, <2>4, <3>1 DEF WorkHasMessage
  <2>5. QED
    BY <2>1, <2>2, <2>3, <2>4, ConsumerMoves
<1>4. QED
  BY <1>1, <1>3

LEMMA StepNotLost ==
  ASSUME TypeOK, WorkHasMessage, NotLost, [Next]_vars
  PROVE  NotLost'
<1> SUFFICES ASSUME NEW m \in Messages, where'[m] = "gone"
             PROVE  m \in handled'
  BY DEF NotLost
<1>1. handled \subseteq handled'
  BY DEF Next, Put, MoveToDead, TryReceive, Work, AcquireLock, RefuseMessage,
     RunHandler, AckHandled, AckFailed, AckFails, ConsumerDies, Tick, vars
<1>2. CASE where[m] = "gone"
  BY <1>1, <1>2 DEF NotLost
<1>3. CASE \E c \in Consumers : AckHandled(c) /\ msg[c] = m
  BY <1>1, <1>3 DEF AckHandled, WorkHasMessage
<1>4. CASE /\ where[m] # "gone"
           /\ ~\E c \in Consumers : AckHandled(c) /\ msg[c] = m
  <2>1. ASSUME NEW n \in Messages, Put(n) \/ MoveToDead(n)
        PROVE  FALSE
    BY <1>4, <2>1 DEF TypeOK, Put, MoveToDead
  <2>2. ASSUME NEW c \in Consumers, AckHandled(c)
        PROVE  FALSE
    BY <1>4, <2>2 DEF TypeOK, AckHandled
  <2>3. where' = where
    BY <2>1, <2>2 DEF Next, TryReceive, Work, AcquireLock, RefuseMessage,
       RunHandler, AckFailed, AckFails, ConsumerDies, Tick, vars, messageVars
  <2>4. QED
    BY <1>4, <2>3
<1>5. QED
  BY <1>2, <1>3, <1>4

(***************************************************************************)
(* Handlers stay within their times                                        *)
(***************************************************************************)

LEMMA StepOneReceiver ==
  ASSUME TypeOK, WorkHasMessage, HiddenWhileBusy, OneReceiver, [Next]_vars
  PROVE  OneReceiver'
<1> SUFFICES ASSUME NEW c \in Consumers, NEW d \in Consumers,
                    pc'[c] # "polling", msg'[c] = msg'[d], c # d
             PROVE  FALSE
  BY DEF OneReceiver, Busy
<1>1. msg'[c] # Nobody /\ msg'[d] # Nobody
  BY StepWorkHasMessage DEF WorkHasMessage, Busy
<1>2. ASSUME NEW e \in Consumers, NEW f \in Consumers, NEW m \in Messages,
             e # f, TryReceive(e, m), msg'[e] = m, msg'[f] = m
      PROVE  FALSE
  <2>1. msg[f] = m
    BY <1>2 DEF TypeOK, TryReceive
  <2>2. Busy(f)
    BY <2>1, WorkQueueAssumption DEF WorkHasMessage
  <2>3. hidden[m] > left[f] /\ left[f] > 0
    BY <2>1, <2>2 DEF HiddenWhileBusy
  <2>4. QED
    BY <1>2, <2>3 DEF TryReceive, TypeOK
<1>3. msg'[c] = msg[c] /\ msg'[d] = msg[d]
  BY <1>1, <1>2, ConsumerMoves
<1>4. Busy(c)
  BY <1>1, <1>3 DEF WorkHasMessage
<1>5. QED
  BY <1>3, <1>4 DEF OneReceiver

LEMMA StepHiddenWhileBusy ==
  ASSUME TypeOK, InTime, WorkHasMessage, HiddenWhileBusy, OneReceiver,
         [Next]_vars
  PROVE  HiddenWhileBusy'
<1> SUFFICES ASSUME NEW c \in Consumers, pc'[c] # "polling"
             PROVE  /\ left'[c] > 0 /\ left'[c] <= ContextTime
                    /\ hidden'[msg'[c]] > left'[c]
  BY DEF HiddenWhileBusy, Busy
<1>1. CASE \E m \in Messages : TryReceive(c, m)
  BY <1>1, Times DEF TypeOK, TryReceive
<1>2. CASE Tick
  <2>1. /\ Busy(c) /\ msg' = msg /\ msg[c] \in Messages
        /\ left'[c] = Less(left[c]) /\ hidden'[msg[c]] = Less(hidden[msg[c]])
    BY <1>2 DEF Tick, Busy, WorkHasMessage, TypeOK
  <2>2. left[c] > 1 /\ left[c] <= ContextTime /\ hidden[msg[c]] > left[c]
    BY <1>2, <2>1 DEF Tick, MayWait, HiddenWhileBusy
  <2>3. left[c] \in Nat /\ hidden[msg[c]] \in Nat
    BY <2>1 DEF TypeOK
  <2>4. QED
    BY <2>1, <2>2, <2>3, Times DEF Less
<1>3. CASE ~Tick /\ ~\E m \in Messages : TryReceive(c, m)
  <2>1. msg'[c] = msg[c] /\ left'[c] = left[c] /\ Busy(c)
    BY <1>3, ConsumerMoves DEF Busy
  <2>2. msg[c] \in Messages
    BY <2>1 DEF WorkHasMessage, TypeOK
  <2>3. left[c] > 0 /\ left[c] <= ContextTime /\ hidden[msg[c]] > left[c]
    BY <2>1 DEF HiddenWhileBusy
  <2>4. hidden'[msg[c]] = hidden[msg[c]]
    <3>1. ASSUME NEW d \in Consumers, AckFailed(d)
          PROVE  hidden'[msg[c]] = hidden[msg[c]]
      <4>1. d # c
        BY <3>1, IdleEffect DEF AckFailed
      <4>2. Busy(d) /\ msg[d] # msg[c]
        BY <2>1, <3>1, <4>1 DEF AckFailed, Busy, OneReceiver
      <4>3. QED
        BY <2>2, <3>1, <4>2 DEF AckFailed, TypeOK
    <3>2. ASSUME NEW d \in Consumers, NEW m \in Messages, TryReceive(d, m)
          PROVE  hidden'[msg[c]] = hidden[msg[c]]
      <4>1. m # msg[c]
        BY <2>2, <2>3, <3>2 DEF TryReceive, TypeOK
      <4>2. QED
        BY <2>2, <3>2, <4>1 DEF TryReceive, TypeOK
    <3>3. QED
      BY <1>3, <3>1, <3>2 DEF Next, Put, MoveToDead, Work, AcquireLock,
         RefuseMessage, RunHandler, AckHandled, AckFails, ConsumerDies, vars,
         messageVars
  <2>5. QED
    BY <2>1, <2>3, <2>4
<1>4. QED
  BY <1>1, <1>2, <1>3

LEMMA StepLockOutlastsHandler ==
  ASSUME TypeOK, InTime, WorkHasMessage, HiddenWhileBusy, LockOutlastsHandler,
         [Next]_vars
  PROVE  LockOutlastsHandler'
<1> SUFFICES ASSUME NEW c \in Consumers, pc'[c] = "handling"
             PROVE  /\ owner'[LockID[msg'[c]]] = c
                    /\ left'[c] > 0
                    /\ expires'[LockID[msg'[c]]] >= left'[c]
  BY DEF LockOutlastsHandler, LockOf
<1>1. PICK l \in Locks : l = LockID[msg[c]] /\ msg[c] \in Messages /\ Busy(c)
                         /\ msg'[c] = msg[c]
  <2>1. msg'[c] = msg[c] /\ Busy(c)
    BY ConsumerMoves DEF Busy
  <2>2. msg[c] \in Messages
    BY <2>1 DEF WorkHasMessage, TypeOK
  <2>3. QED
    BY <2>1, <2>2, WorkQueueAssumption
<1>2. left[c] \in Nat /\ expires[l] \in Nat
  BY DEF TypeOK
<1>3. CASE AcquireLock(c)
  <2>1. owner'[l] = c /\ expires'[l] = ConsumerTimeout /\ left' = left
    BY <1>1, <1>3 DEF AcquireLock, LockOf, TypeOK
  <2>2. left[c] > 0 /\ left[c] <= ContextTime
    BY <1>1 DEF HiddenWhileBusy
  <2>3. QED
    BY <1>1, <1>2, <2>1, <2>2, Times
<1>4. CASE ~AcquireLock(c)
  <2>1. pc[c] = "handling" /\ ~RunHandler(c) /\ ~ConsumerDies(c)
    <3>1. ASSUME NEW d \in Consumers, Idle(d)
          PROVE  pc[c] = "handling" /\ d # c
      BY <3>1, IdleEffect
    <3>2. CASE \E d \in Consumers : AckHandled(d) \/ AckFailed(d)
                                    \/ AckFails(d) \/ ConsumerDies(d)
      BY <3>1, <3>2 DEF AckHandled, AckFailed, AckFails, ConsumerDies,
         RunHandler, TypeOK
    <3>3. CASE \E d \in Consumers : \/ RefuseMessage(d) \/ RunHandler(d)
                                    \/ AcquireLock(d)
                                    \/ \E m \in Messages : TryReceive(d, m)
      BY <1>4, <3>1, <3>3 DEF TypeOK, RefuseMessage, RunHandler, AcquireLock,
         TryReceive, ConsumerDies
    <3>4. CASE pc' = pc
      BY <3>1, <3>4 DEF RunHandler, ConsumerDies, TypeOK
    <3>5. QED
      BY <3>2, <3>3, <3>4 DEF Next, Put, MoveToDead, Work, Tick, vars,
         consumerVars
  <2>2. owner[l] = c /\ left[c] > 0 /\ expires[l] >= left[c]
    BY <1>1, <2>1 DEF LockOutlastsHandler, LockOf
  <2>3. CASE Tick
    <3>1. left[c] > 1 /\ expires[l] > 1
      BY <1>1, <1>2, <2>2, <2>3 DEF Tick, MayWait
    <3>2. owner'[l] = c /\ expires'[l] = expires[l] - 1 /\ left'[c] = left[c] - 1
      BY <1>2, <2>2, <2>3, <3>1 DEF Tick, Less
    <3>3. QED
      BY <1>1, <1>2, <2>2, <3>1, <3>2
  <2>4. CASE ~Tick
    <3>1. left'[c] = left[c]
      BY <1>1, <2>4, ConsumerMoves, WorkQueueAssumption DEF TryReceive, Busy
    <3>2. ASSUME NEW d \in Consumers, Unlock(d), d # c
          PROVE  owner'[l] = owner[l] /\ expires'[l] = expires[l]
      BY <2>2, <3>2, UnlockEffect
    <3>3. ASSUME NEW d \in Consumers, RunHandler(d) \/ ConsumerDies(d)
          PROVE  owner'[l] = owner[l] /\ expires'[l] = expires[l]
      BY <2>1, <2>2, <3>2, <3>3 DEF RunHandler, ConsumerDies
    <3>4. ASSUME NEW d \in Consumers, AcquireLock(d)
          PROVE  owner'[l] = owner[l] /\ expires'[l] = expires[l]
      <4>1. LockOf(d) # l
        BY <1>2, <2>2, <3>4 DEF AcquireLock
      <4>2. QED
        BY <3>4, <4>1 DEF AcquireLock, TypeOK
    <3>5. owner'[l] = owner[l] /\ expires'[l] = expires[l]
      BY <2>4, <3>3, <3>4 DEF Next, Put, MoveToDead, TryReceive, Work,
         RefuseMessage, AckHandled, AckFailed, AckFails, vars, lockVars
    <3>6. QED
      BY <1>1, <2>2, <3>1, <3>5
  <2>5. QED
    BY <2>3, <2>4
<1>5. QED
  BY <1>3, <1>4

(***************************************************************************)
(* Messages stay while they are worked on                                  *)
(***************************************************************************)

\* A message is put, moved to the dead letters or deleted, no more.
LEMMA WhoMovesMessages ==
  ASSUME TypeOK, [Next]_vars, NEW m \in Messages, where'[m] # where[m]
  PROVE  \/ where[m] = "none" /\ where'[m] = "main"
         \/ where[m] = "main" /\ where'[m] = "dead"
         \/ /\ where'[m] = "gone"
            /\ \E c \in Consumers : AckHandled(c) /\ msg[c] = m
<1>1. where' # where
  OBVIOUS
<1>2. CASE \E n \in Messages : Put(n) \/ MoveToDead(n)
  BY <1>2 DEF Put, MoveToDead, TypeOK
<1>3. CASE \E c \in Consumers : AckHandled(c)
  BY <1>3 DEF AckHandled, TypeOK
<1>4. QED
  BY <1>1, <1>2, <1>3 DEF Next, TryReceive, Work, AcquireLock, RefuseMessage,
     RunHandler, AckFailed, AckFails, ConsumerDies, Tick, vars, messageVars

LEMMA StepMessagesArePut ==
  ASSUME TypeOK, WorkHasMessage, MessagesArePut, [Next]_vars
  PROVE  MessagesArePut'
<1>1. \A m \in Messages : where[m] # "none" => where'[m] # "none"
  BY WhoMovesMessages DEF TypeOK
<1>2. ASSUME NEW m \in Messages, m \in handled'
      PROVE  where'[m] # "none"
  <2>1. CASE m \in handled
    BY <1>1, <2>1 DEF MessagesArePut
  <2>2. CASE \E c \in Consumers : RunHandler(c) /\ m = msg[c]
    BY <1>1, <2>2 DEF RunHandler, MessagesArePut, Busy
  <2>3. QED
    BY <1>2, <2>1, <2>2 DEF Next, Put, MoveToDead, TryReceive, Work,
       AcquireLock, RefuseMessage, RunHandler, AckHandled, AckFailed, AckFails,
       ConsumerDies, Tick, vars
<1>3. ASSUME NEW c \in Consumers, pc'[c] # "polling"
      PROVE  where'[msg'[c]] # "none"
  <2>1. CASE msg'[c] = msg[c] /\ Busy(c)
    <3>1. msg[c] \in Messages
      BY <2>1 DEF WorkHasMessage, TypeOK
    <3>2. QED
      BY <1>1, <2>1, <3>1 DEF MessagesArePut
  <2>2. CASE \E m \in Messages : TryReceive(c, m) /\ msg'[c] = m
    BY <2>2 DEF TryReceive, Polls
  <2>3. QED
    BY <1>3, <2>1, <2>2, ConsumerMoves DEF Busy
<1>4. QED
  BY <1>2, <1>3 DEF MessagesArePut, Busy

LEMMA StepBusyIsQueued ==
  ASSUME TypeOK, WorkHasMessage, OneReceiver, BusyIsQueued, [Next]_vars
  PROVE  BusyIsQueued'
<1> SUFFICES ASSUME NEW c \in Consumers, pc'[c] # "polling"
             PROVE  msg'[c] \in Messages /\ where'[msg'[c]] \in {"main", "dead"}
  BY DEF BusyIsQueued, Busy, Queued
<1>1. CASE \E m \in Messages : TryReceive(c, m) /\ msg'[c] = m
  BY <1>1 DEF TryReceive, Polls
<1>2. CASE msg'[c] = msg[c] /\ Busy(c)
  <2>1. msg[c] \in Messages /\ where[msg[c]] \in {"main", "dead"}
    BY <1>2 DEF BusyIsQueued, Queued
  <2>2. ASSUME NEW d \in Consumers, AckHandled(d), msg[d] = msg[c]
        PROVE  FALSE
    <3>1. d = c
      BY <1>2, <2>2 DEF OneReceiver
    <3>2. QED
      BY <2>2, <3>1, IdleEffect DEF AckHandled
  <2>3. QED
    BY <1>2, <2>1, <2>2, WhoMovesMessages
<1>3. QED
  BY <1>1, <1>2, ConsumerMoves DEF Busy

(***************************************************************************)
(* The theorems                                                            *)
(***************************************************************************)

LEMMA InitQueueInv == Init => QueueInv
BY DEF Init, QueueInv, WorkHasMessage, NotLost, LockOutlastsHandler,
   HiddenWhileBusy, OneReceiver, MessagesArePut, BusyIsQueued, Busy

LEMMA StepQueueInv == TypeOK /\ QueueInv /\ [Next]_vars => QueueInv'
BY StepWorkHasMessage, StepNotLost, StepMessagesArePut,
   StepLockOutlastsHandler, StepHiddenWhileBusy, StepOneReceiver,
   StepBusyIsQueued DEF QueueInv

\* Whatever the times, consumers, messages and locks: types are right and the
\* inductive invariant holds.
THEOREM QueueInvariant == Spec => [](TypeOK /\ QueueInv)
<1>1. Init => TypeOK /\ QueueInv
  BY InitTypeOK, InitQueueInv
<1>2. TypeOK /\ QueueInv /\ [Next]_vars => (TypeOK /\ QueueInv)'
  BY StepTypeOK, StepQueueInv DEF QueueInv
<1>3. QED
  BY <1>1, <1>2, PTL DEF Spec

\* A message is deleted only when it was handled, also when handlers overrun
\* their times.
THEOREM NeverLost == Spec => []NotLost
<1>1. TypeOK /\ QueueInv => NotLost
  BY DEF QueueInv
<1>2. QED
  BY <1>1, QueueInvariant, PTL

\* While handlers are in time, a message is worked on by one consumer,
THEOREM OneAtATime ==
  ASSUME InTime
  PROVE  Spec => []OneReceiver
<1>1. TypeOK /\ QueueInv => OneReceiver
  BY DEF QueueInv
<1>2. QED
  BY <1>1, QueueInvariant, PTL

\* and jobs of one lock are never handled at the same time.
THEOREM LocksWork ==
  ASSUME InTime
  PROVE  Spec => []LockedAlone
<1>1. TypeOK /\ QueueInv => LockedAlone
  BY DEF QueueInv, LockOutlastsHandler, LockedAlone
<1>2. QED
  BY <1>1, QueueInvariant, PTL

(***************************************************************************)
(* The refinement                                                          *)
(***************************************************************************)

LEMMA InitJobs == Init => Jobs!Init
BY DEF Init, Jobs!Init, Queued, Running

\* A handler starts with a message of the queue, and while the lock of the
\* message has expired or was given back nobody runs under it.
LEMMA AcquireIsStart ==
  ASSUME TypeOK, QueueInv, InTime, NEW c \in Consumers, AcquireLock(c)
  PROVE  Jobs!Start(c, msg[c])
<1>1. Busy(c)
  BY DEF AcquireLock, Busy
<1>2. msg[c] \in Queued
  BY <1>1 DEF QueueInv, BusyIsQueued
<1>3. \A d \in Consumers :
        Jobs!Runs(d) => LockID[Running[d]] # LockID[msg[c]]
  <2> SUFFICES ASSUME NEW d \in Consumers, pc[d] = "handling",
                      LockOf(d) = LockOf(c)
               PROVE  FALSE
    BY DEF Jobs!Runs, Running, LockOf
  <2>1. msg[d] \in Messages
    BY DEF QueueInv, WorkHasMessage, Busy, TypeOK
  <2>2. LockOf(d) \in Locks
    BY <2>1, WorkQueueAssumption DEF LockOf
  <2>3. left[d] \in Nat /\ left[d] > 0 /\ expires[LockOf(d)] >= left[d]
    BY DEF QueueInv, LockOutlastsHandler, TypeOK
  <2>4. QED
    BY <2>2, <2>3 DEF AcquireLock
<1>4. ~Jobs!Runs(c) /\ Running' = [Running EXCEPT ![c] = msg[c]]
  BY DEF AcquireLock, Jobs!Runs, Running, TypeOK
<1>5. UNCHANGED <<Queued, handled>>
  BY DEF AcquireLock, messageVars, Queued
<1>6. QED
  BY <1>2, <1>3, <1>4, <1>5 DEF Jobs!Start

\* A handler that returns or dies is finished; else nobody sees its end.
LEMMA EndIsFinish ==
  ASSUME TypeOK, QueueInv, NEW c \in Consumers, RunHandler(c) \/ ConsumerDies(c)
  PROVE  Jobs!Finish(c) \/ UNCHANGED Jobs!vars
<1>1. Queued' = Queued
  BY DEF RunHandler, ConsumerDies, messageVars, Queued
<1>2. Running' = [Running EXCEPT ![c] = Nobody]
  <2>1. /\ \A d \in Consumers \ {c} : pc'[d] = pc[d] /\ msg'[d] = msg[d]
        /\ pc'[c] # "handling"
    BY IdleEffect DEF RunHandler, ConsumerDies, TypeOK
  <2>2. QED
    BY <2>1 DEF Running
<1>3. CASE pc[c] = "handling"
  <2>1. Running[c] = msg[c] /\ msg[c] # Nobody
    BY <1>3 DEF Running, QueueInv, WorkHasMessage, Busy
  <2>2. handled' \in {handled, handled \cup {msg[c]}}
    BY DEF RunHandler, ConsumerDies
  <2>3. QED
    BY <1>1, <1>2, <2>1, <2>2 DEF Jobs!Finish, Jobs!Runs
<1>4. CASE pc[c] # "handling"
  <2>1. handled' = handled
    BY <1>4 DEF RunHandler, ConsumerDies
  <2>2. Running[c] = Nobody /\ Running' = Running
    BY <1>2, <1>4 DEF Running
  <2>3. QED
    BY <1>1, <2>1, <2>2 DEF Jobs!vars
<1>5. QED
  BY <1>3, <1>4

\* A message is deleted by the only consumer that has it, after its handler.
LEMMA AckIsAcknowledge ==
  ASSUME TypeOK, QueueInv, InTime, NEW c \in Consumers, AckHandled(c)
  PROVE  Jobs!Acknowledge(msg[c])
<1>1. Busy(c) /\ pc[c] # "handling"
  BY DEF AckHandled, Busy
<1>2. msg[c] \in Queued \cap handled
  BY <1>1 DEF AckHandled, QueueInv, BusyIsQueued, WorkHasMessage
<1>3. \A d \in Consumers : Running[d] # msg[c]
  <2> SUFFICES ASSUME NEW d \in Consumers, Running[d] = msg[c]
               PROVE  FALSE
    OBVIOUS
  <2>1. pc[d] = "handling" /\ msg[d] = msg[c]
    BY <1>1 DEF Running, QueueInv, WorkHasMessage
  <2>2. QED
    BY <1>1, <2>1 DEF QueueInv, OneReceiver
<1>4. Queued' = Queued \ {msg[c]}
  BY DEF AckHandled, Queued, TypeOK
<1>5. Running' = Running
  <2>1. /\ \A d \in Consumers \ {c} : pc'[d] = pc[d] /\ msg'[d] = msg[d]
        /\ pc'[c] = "polling"
    BY IdleEffect DEF AckHandled
  <2>2. QED
    BY <1>1, <2>1 DEF Running
<1>6. handled' = handled
  BY DEF AckHandled
<1>7. QED
  BY <1>2, <1>3, <1>4, <1>5, <1>6 DEF Jobs!Acknowledge

\* Polling, waiting for locks, giving a message back, the redrive to the dead
\* letters and time do not concern the handlers.
LEMMA HiddenSteps ==
  ASSUME TypeOK, QueueInv,
         \/ \E m \in Messages : MoveToDead(m)
         \/ \E c \in Consumers, m \in Messages : TryReceive(c, m)
         \/ \E c \in Consumers : RefuseMessage(c) \/ AckFailed(c) \/ AckFails(c)
         \/ Tick
         \/ UNCHANGED vars
  PROVE  UNCHANGED Jobs!vars
<1>1. Queued' = Queued
  BY DEF MoveToDead, TryReceive, RefuseMessage, AckFailed, AckFails, Tick, vars,
     messageVars, Queued, TypeOK
<1>2. handled' = handled
  BY DEF MoveToDead, TryReceive, RefuseMessage, AckFailed, AckFails, Tick, vars
<1>3. Running' = Running
  <2>1. ASSUME NEW c \in Consumers, Idle(c), pc[c] = "acking"
        PROVE  Running' = Running
    BY <2>1, IdleEffect DEF Running
  <2>2. CASE \E c \in Consumers : AckFailed(c) \/ AckFails(c)
    BY <2>1, <2>2 DEF AckFailed, AckFails
  <2>3. CASE \E c \in Consumers, m \in Messages : TryReceive(c, m)
    BY <2>3 DEF TryReceive, Running, TypeOK
  <2>4. CASE \E c \in Consumers : RefuseMessage(c)
    BY <2>4 DEF RefuseMessage, Running, TypeOK
  <2>5. CASE pc' = pc /\ msg' = msg
    BY <2>5 DEF Running
  <2>6. QED
    BY <2>2, <2>3, <2>4, <2>5 DEF MoveToDead, Tick, vars, consumerVars
<1>4. QED
  BY <1>1, <1>2, <1>3 DEF Jobs!vars

LEMMA StepJobs ==
  ASSUME InTime
  PROVE  TypeOK /\ QueueInv /\ [Next]_vars => [Jobs!Next]_(Jobs!vars)
<1> SUFFICES ASSUME TypeOK, QueueInv, [Next]_vars
             PROVE  [Jobs!Next]_(Jobs!vars)
  OBVIOUS
<1>1. ASSUME NEW m \in Messages, Put(m)
      PROVE  Jobs!Next
  <2>1. m \notin Queued \cup handled
    BY <1>1 DEF Put, Queued, QueueInv, MessagesArePut
  <2>2. Queued' = Queued \cup {m}
    BY <1>1 DEF Put, Queued, TypeOK
  <2>3. UNCHANGED <<Running, handled>>
    BY <1>1 DEF Put, Running, consumerVars
  <2>4. Jobs!Put(m)
    BY <2>1, <2>2, <2>3 DEF Jobs!Put
  <2>5. QED
    BY <2>4 DEF Jobs!Next
<1>2. ASSUME NEW c \in Consumers, AcquireLock(c) \/ AckHandled(c)
      PROVE  Jobs!Next
  <2>1. msg[c] \in Messages
    BY <1>2 DEF AcquireLock, AckHandled, QueueInv, WorkHasMessage, Busy, TypeOK
  <2>2. QED
    BY <1>2, <2>1, AcquireIsStart, AckIsAcknowledge DEF Jobs!Next
<1>3. ASSUME NEW c \in Consumers, RunHandler(c) \/ ConsumerDies(c)
      PROVE  [Jobs!Next]_(Jobs!vars)
  BY <1>3, EndIsFinish DEF Jobs!Next
<1>4. QED
  BY <1>1, <1>2, <1>3, HiddenSteps DEF Next, Work

\* With times as the code chooses them the queue keeps what the services rely
\* on: a message is handled while it is queued, alone under its lock, and is
\* deleted only when it was handled.
THEOREM QueueServes ==
  ASSUME InTime
  PROVE  Spec => RefinesJobQueue
<1>1. TypeOK /\ QueueInv /\ [Next]_vars => [Jobs!Next]_(Jobs!vars)
  BY StepJobs
<1>2. QED
  BY <1>1, InitJobs, QueueInvariant, PTL DEF Spec, RefinesJobQueue, Jobs!Spec

=============================================================================
