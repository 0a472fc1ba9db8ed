SPECIFICATION FairSpec
CONSTANTS
  Cells = {c1}
  Requests = {r1, r2, r3}
  NoCell = NoCell
  IdleTimeout = 1
  Lifespan = 2
  TimeMax = 2
  QueueCapacity = 1
  WaitDurations = {0, 1}
INVARIANTS AnsweredOnce CellOwnedOnce
PROPERTIES HandsOutCurrentValues ImplementsResourcePool  RequestsAnswered DisableEnds
CHECK_DEADLOCK FALSE
