CONSTANTS
  Harts = {c0, c1}
  NoHart = NoHart
  MaxDepth = 2
  MaxCount = 2
SPECIFICATION LockLiveSpec
INVARIANTS LockTypeOK MutualExclusion CountIsDepth
PROPERTIES RefinesRecursiveLock LeftLockIsObtained
\* corelock_unlock stops at its own assertion: see MCCoreLockAssert.cfg.
CHECK_DEADLOCK FALSE
