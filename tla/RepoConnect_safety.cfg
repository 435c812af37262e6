\* A private repository: two users, racing requests and consumers
CONSTANTS
  Users = {u1, u2}
  Requests = {q1, q2}
  Consumers = {c1, c2}
  MaxRepos = 1
  MaxCopies = 1
  MaxHooks = 1
  Private = TRUE
  RejectsDuplicateHook = TRUE
  NoUser = NoUser
SPECIFICATION Spec
SYMMETRY Symmetry
INVARIANTS
  ConnectedHasHook
  DisconnectedHasNoHook
  DoneIsAnalyzed
  SentToQueueIsQueued
PROPERTIES
  CommitStateMovesForward
CHECK_DEADLOCK FALSE
