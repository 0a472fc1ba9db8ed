SPECIFICATION FairSpec
CONSTANTS
  Cells = {c1}
  Requests = {r1, r2, r3}
  NoCell = NoCell
  NullCell = NullCell
  IdleTimeout = 1
  Lifespan = 2
  TimeMax = 2
  WaitDurations = {0, 1}
CHECK_DEADLOCK FALSE
INVARIANTS
  Conserved
  DisabledWakesAll
PROPERTIES ImplementsResourcePool SleepEnds
