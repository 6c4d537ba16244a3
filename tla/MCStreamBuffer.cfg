CONSTANTS
  Handlers <- Mixed
  SameCore = TRUE
  Kinds = {"stream", "message"}
  Length = 5
  LengthBytes = 1
  Triggers = {1, 3}
  Payloads <- Short
  RxSizes = {1, 2}
  Waits = {"some"}
SPECIFICATION Spec
INVARIANTS NoLostWakeup AssertionsHold
PROPERTIES RefinesFifoStream
VIEW LiveView
