CONSTANTS
  c0 = c0
  c1 = c1
  idle0 = idle0
  idle1 = idle1
  t1 = t1
  t2 = t2
  t3 = t3
  NoTask = NoTask
  NoCore = NoCore
  Cores = {c0, c1}
  Tasks = {idle0, idle1, t1, t2, t3}
  Early = {idle0, idle1}
  By <- Cross
  On <- CrossOn
  Yielders = {c0, c1}
SPECIFICATION LiveSpec
INVARIANTS TasksDelivered ListsExclusive
PROPERTIES OnlyMailboxBlocks
\* The mailbox can deadlock: see MCCoreSyncBurst.cfg and MCCoreSyncYield.cfg.
CHECK_DEADLOCK FALSE
