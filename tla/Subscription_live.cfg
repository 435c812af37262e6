\* Liveness: events of two plans and an update
CONSTANTS
  Plans = {p1, p2}
  Seats = {s1}
  Requests = {q1}
  Consumers = {c1}
  MaxSubs = 2
  MaxVersion = 2
  MaxCopies = 1
  NoSeats = NoSeats
  NoMsg = NoMsg
SPECIFICATION FairSpec
PROPERTIES
  UpdateEnds
  CancelledIsDeleted
CHECK_DEADLOCK FALSE
