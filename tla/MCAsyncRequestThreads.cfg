SPECIFICATION Spec
CONSTANTS
  Ops = {1, 2}
  Timed = {1}
  MaxOut = 2
  Kinds = {"tuples", "error"}
  MultiThread = TRUE
CHECK_DEADLOCK FALSE
INVARIANTS NoWriteHandlingAfterResult
