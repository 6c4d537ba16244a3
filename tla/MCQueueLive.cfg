CONSTANTS
  c0 = c0
  c1 = c1
  t1 = t1
  t2 = t2
  t3 = t3
  Cores = {c0}
  Tasks = {t1, t2, t3}
  NoTask = NoTask
  IsrCores = {c0}
  Home <- OneCore
  Prio <- TwoForemost
  Does <- EveryCall
  Waits = {"some"}
  Items = {a}
  Length = 1
  MaxLock = 2
SPECIFICATION LiveSpec

PROPERTIES FiniteWaitReturns
