CONSTANTS
  m = m
  a = a
  b = b
  Threads = {m, a, b}
  Main = m
  Nobody = Nobody
  Types = {"DEFAULT", "ERRORCHECK", "RECURSIVE"}
  Plans <- Programs
  MaxDepth = 2
  Width = 2
SPECIFICATION Spec
INVARIANTS OwnerSettles TokensCountWaiters JoinIsSafe InitialisedOnce
\* Threads may wait for each other for ever, and an assertion may stop one.
CHECK_DEADLOCK FALSE
