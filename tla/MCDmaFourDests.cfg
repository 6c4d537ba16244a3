CONSTANTS
  Tasks = {t1, t2}
  NChannels = 1
  NHandles = 1
  None = None
  Device = Device
  MemoryFails = TRUE
  MaxOpen = 2
  LoopDests = {4}
  MaxStage = 2
  Foreign = Foreign
VIEW LiveView
SPECIFICATION DmaLiveSpec
INVARIANT BouncesReturned
CHECK_DEADLOCK FALSE
