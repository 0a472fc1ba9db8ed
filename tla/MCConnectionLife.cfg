SPECIFICATION LifeFairSpec
CONSTANTS
  Conns = {1, 2}
  Ops = {1, 2}
  Fds = {1, 2, 3}
  Timed = {1}
  Types = 2
  Typeless = {2}
  Addresses = 2
  MaxWaits = 3
CHECK_DEADLOCK FALSE
INVARIANTS QuietAfterAnswer OwnDescriptor DeafForCause
PROPERTIES  ConnectAnswered
