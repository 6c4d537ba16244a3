CONSTANTS
  low = low
  mid = mid
  high = high
  top = top
  m1 = m1
  m2 = m2
  Tasks = {mid, high, top}
  NoTask = NoTask
  Base <- NestedPriorities
  Mutexes = {m1, m2}
  Recursive = {m1}
  Uses <- NestedUsed
  Waits = {"zero", "some", "max"}
  MaxDepth = 2
SPECIFICATION Spec
INVARIANT HolderInherits
CHECK_DEADLOCK FALSE
