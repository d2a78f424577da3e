\* The first two ordinary calls of a process.
CONSTANTS
  c1 = c1
  c2 = c2
  c3 = c3
  k1 = k1
  k2 = k2
  None = None
  Callers = {c1, c2}
  Conns = {k1}
  Fid <- OrdinaryFid
  Handovers <- Once
  Ping = Ping
  PingNum = 1
  WatchInMax = 3
  SerialMod = 6
  CounterMod = 16
  StartNums = {0}
  Deadlined = {}
  Answers = {"data"}
  Faults = {}
SPECIFICATION Spec
INVARIANT OwnAnswer
CHECK_DEADLOCK FALSE
