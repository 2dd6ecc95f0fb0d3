SPECIFICATION Spec
CONSTANTS
  Adapters = {a1}
  RecvWindow = 7
  ServerAhead = 2
  Second = 2
  Margin = 1
  Ttl = 2
  Burst = 4
  Rate = 5
  Cost = 2
  MaxTrip = 2
  Wander = 1
  Bases <- Early
  MaxTime = 8
INVARIANTS
  TypeOK
  NeverOutsideWindow
  LimiterHolds
  SignedSoonAfterSync
