\* Liveness: two deliveries, one launcher, one worker
CONSTANTS
  Guids = {g1, g2}
  Commits = {c1, c2}
  Launchers = {l1}
  Workers = {w1}
  MaxCopies = 1
  Private = TRUE
  NoGuid = NoGuid
  NoCommit = NoCommit
SPECIFICATION FairSpec
PROPERTIES
  LaunchedIsFinished
CHECK_DEADLOCK FALSE
