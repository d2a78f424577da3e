\* A client's reader of a TCP connection: bodies of two and three frames, an error
\* answer, a body of too many frames, a serial number used twice, and two pings that have it.
CONSTANTS
  b1 = b1
  b2 = b2
  b3 = b3
  b4 = b4
  b5 = b5
  b6 = b6
  b7 = b7
  p1 = p1
  w1 = w1
  w2 = w2
  p2 = p2
  None = None
  Zero = Zero
  BodySplit = 2
  Byte = 2
  Bodies = {b1, b2, b3, b4, b5, b6, b7}
  Size <- TcpSize
  Num <- TcpNum
  Fid <- TcpFid
  Sender <- OneSender
  Ordinary = {b1, b2, b3, b4, b5}
  Failures = {b4}
  Workers = {w1}
  Ordered = TRUE
  Faults = {}
  MaxLost = 0
  MaxCopies = 1
  MaxExtra = 0
SPECIFICATION FairSpec
INVARIANT TypeOK
PROPERTY Delivered
