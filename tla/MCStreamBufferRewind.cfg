CONSTANTS
  Handlers <- Mixed
  SameCore = TRUE
  Kinds = {"message"}
  Length = 5
  LengthBytes = 1
  Triggers = {1}
  Payloads <- Short
  RxSizes = {1, 2}
  Waits = {"some"}
SPECIFICATION Spec
INVARIANT ReturnsToPriorState
CHECK_DEADLOCK FALSE
