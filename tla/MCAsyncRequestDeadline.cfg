SPECIFICATION LocalFairSpec
CONSTANTS
  Ops = {1}
  Timed = {1}
  MaxOut = 2
  Kinds = {"tuples", "error"}
  MultiThread = FALSE
CHECK_DEADLOCK FALSE
PROPERTIES TimedRequestAnswered
