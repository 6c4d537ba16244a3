CONSTANTS
  t1 = t1
  t2 = t2
  t3 = t3
  Tasks = {t1, t2, t3}
  Idle = Idle
  Prio <- Initial
  Priorities <- Levels
  Does <- Mixed
  Waits <- BlockTimes
  Targets = {t2}
  ResumesAny = FALSE
  TickBits = 2
  MaxPended = 1
SPECIFICATION FairSpec
INVARIANTS OneStateList AssertionsHold HighestRuns NotificationWakes
PROPERTIES RefinesCountdown PeriodIsKept ForemostRuns
