\* Liveness: one push, two workers that may run it at the same time
CONSTANTS
  MaxPushes = 1
  Workers = {w1, w2}
  MaxCopies = 1
  Private = FALSE
  LocksLast = FALSE
SPECIFICATION FairSpec
PROPERTIES
  AnalysisSettles
CHECK_DEADLOCK FALSE
