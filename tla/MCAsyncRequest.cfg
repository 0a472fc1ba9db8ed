SPECIFICATION RequestCancelSpec
CONSTANTS
  Ops = {1, 2}
  Timed = {1}
  MaxOut = 2
  Kinds = {"tuples", "error", "copy"}
  MultiThread = FALSE
CHECK_DEADLOCK FALSE
INVARIANTS QuietAfterAnswer SuccessMeansDrained
PROPERTIES RequestAnswered CancelAnswered
