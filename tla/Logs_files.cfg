\* A log with each of the settings of NewLogs, over two boundaries of periods, with
\* writes and opens that fail and two calls of exit.
CONSTANTS
  l1 = l1
  l2 = l2
  l3 = l3
  e1 = e1
  e2 = e2
  None = None
  Lines = {l1, l2}
  Level <- TwoLevels
  Exits = {e1, e2}
  Configs = {"nil", "cached", "file"}
  Levels = {2}
  BufSize = 2
  MaxClock = 2
SPECIFICATION FairSpec
INVARIANTS TypeOK RightFile WrittenOnce MutexKept
PROPERTIES ExitSaves Written
CHECK_DEADLOCK FALSE
