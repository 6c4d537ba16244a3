CONSTANTS
  Handlers <- Tasks
  SameCore = FALSE
  Kinds = {"message"}
  Length = 5
  LengthBytes = 1
  Triggers = {1}
  Payloads <- Short
  RxSizes = {1, 2}
  Waits = {"some"}
SPECIFICATION Spec
INVARIANT NoLostWakeup
CHECK_DEADLOCK FALSE
