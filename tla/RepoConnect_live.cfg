\* A public repository is connected, disconnected and connected again
CONSTANTS
  Users = {u1}
  Requests = {q1}
  Consumers = {c1}
  MaxRepos = 2
  MaxCopies = 1
  MaxHooks = 1
  Private = FALSE
  RejectsDuplicateHook = TRUE
  NoUser = NoUser
SPECIFICATION FairSpec
PROPERTIES
  RefinesAbs
  ConnectEnds
  DisconnectEnds
CHECK_DEADLOCK FALSE
