\* Two update requests race; consumers and deliveries repeat
CONSTANTS
  Plans = {p1}
  Seats = {s1, s2}
  Requests = {q1, q2}
  Consumers = {c1, c2}
  MaxSubs = 2
  MaxVersion = 4
  MaxCopies = 2
  NoSeats = NoSeats
  NoMsg = NoMsg
SPECIFICATION Spec
SYMMETRY Symmetry
CONSTRAINT FewFaults
INVARIANTS
  EventsMatchRows
  EventsNotLost
PROPERTIES
  VersionsGrow
  RefinesSubscription
CHECK_DEADLOCK FALSE
