CONSTANTS
  Harts = {c0, c1}
  NoHart = NoHart
  MaxDepth = 2
  MaxCount = 2
SPECIFICATION LockSpec
INVARIANT OwnerReleases
CHECK_DEADLOCK FALSE
