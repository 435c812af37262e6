\* The primary queue in units of 15 s: 60 s of visibility, 45 s for a handler,
\* 16 s of tries to lock, and delays of which the third is too long.
CONSTANTS
  Consumers = {c1, c2, dlq}
  DeadConsumers = {dlq}
  Messages = {m1, m2}
  Locks = {job}
  LockID <- MCLockID
  Nobody = nobody
  VisibilityTimeout = 4
  ConsumerTimeout = 3
  LockTries = 1
  BackoffUnit = 1
  MaxDelay = 4
  MaxReceives = 3
  InTime = TRUE

SPECIFICATION FairSpec

INVARIANTS
  OneReceiver
  NotLost

PROPERTIES
  MessageSettles
  RefinesJobQueue
