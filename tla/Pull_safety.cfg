\* Two pushes race over two workers, the staler and the reanalyzer
CONSTANTS
  MaxPushes = 2
  Workers = {w1, w2}
  MaxCopies = 1
  Private = TRUE
  LocksLast = TRUE
SPECIFICATION Spec
SYMMETRY Symmetry
CONSTRAINT FewFaults
INVARIANTS
  LinkShowsResult
  CommentedOnce
PROPERTIES
  RefinesPull
CHECK_DEADLOCK FALSE
