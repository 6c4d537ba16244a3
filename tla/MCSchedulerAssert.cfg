CONSTANTS
  t1 = t1
  t2 = t2
  t3 = t3
  Tasks = {t1, t2, t3}
  Idle = Idle
  Prio <- Initial
  Priorities <- Levels
  Does <- Mixed
  Waits <- BlockTimes
  Targets = {t2}
  ResumesAny = TRUE
  TickBits = 2
  MaxPended = 1
SPECIFICATION Spec
PROPERTIES NotifiedIsUnlisted
