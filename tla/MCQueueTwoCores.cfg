CONSTANTS
  c0 = c0
  c1 = c1
  t1 = t1
  t2 = t2
  t3 = t3
  Cores = {c0, c1}
  Tasks = {t1, t2, t3}
  NoTask = NoTask
  IsrCores = {}
  Home <- TwoCores
  Prio <- Priorities
  Does <- Mixed
  Waits = {"some", "max"}
  Items = {a}
  Length = 1
  MaxLock = 2
SPECIFICATION Spec

PROPERTIES LockedListsAreLeftAlone
