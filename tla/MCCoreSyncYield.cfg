CONSTANTS
  c0 = c0
  c1 = c1
  idle0 = idle0
  idle1 = idle1
  t1 = t1
  t2 = t2
  t3 = t3
  NoTask = NoTask
  NoCore = NoCore
  Cores = {c0, c1}
  Tasks = {idle0, idle1, t1, t2}
  Early = {idle0, idle1}
  By <- Single
  On <- SingleOn
  Yielders = {c1}
SPECIFICATION LiveSpec
PROPERTIES CreatedBecomesReady
\* The mailbox can deadlock: that is what this shows.
CHECK_DEADLOCK FALSE
