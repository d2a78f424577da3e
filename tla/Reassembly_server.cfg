\* A server of a TCP connection, with a goroutine for every frame.
CONSTANTS
  b1 = b1
  b2 = b2
  b3 = b3
  b4 = b4
  b5 = b5
  b6 = b6
  b7 = b7
  p1 = p1
  w1 = w1
  w2 = w2
  p2 = p2
  None = None
  Zero = Zero
  BodySplit = 2
  Byte = 2
  Bodies = {b1, b2}
  Size <- TcpSize
  Num <- TcpNum
  Fid <- TcpFid
  Sender <- OneSender
  Ordinary = {b1, b2}
  Failures = {}
  Workers = {w1, w2}
  Ordered = TRUE
  Faults = {}
  MaxLost = 0
  MaxCopies = 1
  MaxExtra = 0
SPECIFICATION Spec
INVARIANT NothingForgotten
