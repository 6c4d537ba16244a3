CONSTANTS
  c0 = c0
  t1 = t1
  t2 = t2
  t3 = t3
  x = x
  y = y
  z = z
  p = p
  q = q
  Cores = {c0}
  Tasks = {t1, t2, t3}
  NoTask = NoTask
  Home <- OneCore
  Bits = {x, y, z, p, q}
  Does <- Mixed
SPECIFICATION Spec
INVARIANTS NoStrandedWaiter DeletedIsUntouched
PROPERTIES RendezvousMeets
\* Every task may wait for ever for bits that nobody sets.
CHECK_DEADLOCK FALSE
