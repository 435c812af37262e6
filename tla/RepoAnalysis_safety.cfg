\* Two deliveries race over two launchers and two workers
CONSTANTS
  Guids = {g1, g2}
  Commits = {c1, c2}
  Launchers = {l1, l2}
  Workers = {w1, w2}
  MaxCopies = 1
  Private = TRUE
  NoGuid = NoGuid
  NoCommit = NoCommit
SPECIFICATION Spec
SYMMETRY Symmetry
INVARIANTS
  UnfinishedIsQueued
  PendingIsAnalyzed
PROPERTIES
  RefinesAnalysis
  ReportMovesForward
CHECK_DEADLOCK FALSE
