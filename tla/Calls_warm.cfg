\* A built-in call and two ordinary ones over one connection that loses, breaks, is closed,
\* tested, dialled again and swept.  The counter is at 0, and the first ordinary call swaps
\* it; or it has passed the modulus, and one of the two gets the number of the built-in
\* call and of the pings.
CONSTANTS
  c1 = c1
  c2 = c2
  c3 = c3
  k1 = k1
  k2 = k2
  None = None
  Callers = {c1, c2, c3}
  Conns = {k1}
  Fid <- MixedFid
  Handovers <- Once
  Ping = Ping
  PingNum = 1
  WatchInMax = 2
  SerialMod = 3
  CounterMod = 16
  StartNums = {0, 3}
  Deadlined = {c2, c3}
  Answers = {"data", "failed"}
  Faults = {"lose", "break", "test", "refresh", "close", "sweep"}
SPECIFICATION Spec
SYMMETRY Symmetric
INVARIANTS TypeOK UniqueNumbers OwnAnswer TableExact ReaderBlocksOnlyOnRepeat
