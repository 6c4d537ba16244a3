CONSTANTS
  Users = {t1, t2}
  Rings = {1, 2}
  Length = 3
  SizeMax = 7
  Depth = 2
  MaxRead = 2
  MaxOpens = 4
  NoRing = NoRing
VIEW LiveView
SPECIFICATION UartSpec
INVARIANTS BytesInOrder ReaderIsWoken
\* Nothing is said of what follows a stray access.
CHECK_DEADLOCK FALSE
