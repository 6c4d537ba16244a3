CONSTANTS
  m = m
  a = a
  b = b
  Threads = {m, a, b}
  Main = m
  Nobody = Nobody
  Types = {"DEFAULT", "ERRORCHECK", "RECURSIVE"}
  Plans <- Programs
  MaxDepth = 2
  Width = 2
SPECIFICATION Spec
INVARIANT JoinedOnce
CHECK_DEADLOCK FALSE
