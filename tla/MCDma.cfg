CONSTANTS
  Tasks = {t1, t2}
  NChannels = 1
  NHandles = 1
  None = None
  Device = Device
  MemoryFails = TRUE
  MaxOpen = 2
  LoopDests = {1, 2}
  MaxStage = 2
  Foreign = Foreign
VIEW LiveView
SPECIFICATION DmaLiveSpec
INVARIANTS HandlesAreOwned TokensCountChannels TransferIsOwners StreamerIsWoken
PROPERTIES OpenReturns
\* configASSERT(dma) can stop the system.
CHECK_DEADLOCK FALSE
