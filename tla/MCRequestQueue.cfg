SPECIFICATION FairSpec
CONSTANTS
  a = a  b = b  z = z  x = x  y = y
  Requests <- MCRequests
  Contexts <- MCContexts
  ContextOf <- MCContextOf
  Capacity = 3
  Waits = {1, 2}
  TimeMax = 3
  MaxReady = 2
  Off = off
INVARIANT EarliestIsTimed
PROPERTIES WaitEnds ImplementsWaitQueue
