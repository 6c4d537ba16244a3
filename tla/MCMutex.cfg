CONSTANTS
  low = low
  mid = mid
  high = high
  top = top
  m1 = m1
  m2 = m2
  Tasks = {low, mid, high, top}
  NoTask = NoTask
  Base <- Priorities
  Mutexes = {m1, m2}
  Recursive = {m1}
  Uses <- Used
  Waits = {"zero", "some", "max"}
  MaxDepth = 2
SPECIFICATION Spec
INVARIANTS HolderInherits PriorityIsPaidBack FreeMutexIsOffered
\* A failed assertion stops the system: see MCMutexAssert.cfg.
CHECK_DEADLOCK FALSE
