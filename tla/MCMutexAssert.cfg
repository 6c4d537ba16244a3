CONSTANTS
  low = low
  mid = mid
  high = high
  top = top
  m1 = m1
  m2 = m2
  Tasks = {low, mid, high, top}
  NoTask = NoTask
  Base <- Priorities
  Mutexes = {m1, m2}
  Recursive = {m1, m2}
  Uses <- Used
  Waits = {"zero", "some", "max"}
  MaxDepth = 2
SPECIFICATION Spec
INVARIANT AssertionsHold
CHECK_DEADLOCK FALSE
