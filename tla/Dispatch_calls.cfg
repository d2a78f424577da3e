\* The first two calls of a process, over the cache they share: a TCP node that is dialled
\* up to twice, one that listens for HTTP, and one over UDP.
CONSTANTS
  c1 = c1
  c2 = c2
  k1 = k1
  k2 = k2
  k3 = k3
  k4 = k4
  n1 = n1
  n2 = n2
  n3 = n3
  None = None
  Callers = {c1, c2}
  Conns = {k1, k2, k3, k4}
  Fid <- OrdinaryFid
  Handovers <- TwiceOverUdp
  Ping = Ping
  PingNum = 1
  WatchInMax = 3
  SerialMod = 5
  CounterMod = 16
  StartNums = {1}
  Deadlined = {c1}
  Answers = {"data"}
  Faults = {"lose", "break", "test", "refresh", "sweep"}
  Nodes = {n1, n2, n3}
  Home <- ThreeNodes
  Http = {k3}
  Wants <- SomeWants
  MaxUpsets = 1
SPECIFICATION DispatchSpec
INVARIANTS DispatchTypeOK AtMostOnce OwnAnswer ReaderBlocksOnlyOnRepeat
PROPERTY DeadlineReturns
\* A call without a deadline, the other one, waits for ever for an answer that is lost.
CHECK_DEADLOCK FALSE
