\* Two analyses whose containers compete for one port and one public address.
SPECIFICATION FairSpec
CONSTANTS
  a1 = a1
  a2 = a2
  p1 = p1
  i1 = i1
  Analyses = {a1, a2}
  Ports = {p1}
  IPs = {i1}
  SetupTries = 2
  MaxAttempts <- MCMaxAttempts
  MaxContainers = 2
  MaxCommits = 2
INVARIANTS
  OwnContainer
  NothingForgotten
  ResultOfCommit
PROPERTIES
  AnalysisEnds
  ContainersEnd
