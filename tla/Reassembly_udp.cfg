\* A client's reader of a UDP socket: frames lost, duplicated and reordered,
\* and a number in use for two functions at once, one of whose bodies does not fit its header.
CONSTANTS
  b1 = b1
  b2 = b2
  b3 = b3
  b4 = b4
  b5 = b5
  b6 = b6
  b7 = b7
  p1 = p1
  w1 = w1
  w2 = w2
  p2 = p2
  None = None
  Zero = Zero
  BodySplit = 2
  Byte = 2
  Bodies = {b1, b2}
  Size <- UdpSize
  Num <- UdpNum
  Fid <- UdpFid
  Sender <- OneSender
  Ordinary = {b1}
  Failures = {}
  Workers = {w1}
  Ordered = FALSE
  Faults = {"lose", "dup"}
  MaxLost = 1
  MaxCopies = 2
  MaxExtra = 1
SPECIFICATION Spec
CONSTRAINT Overtaking
INVARIANTS WholeBodies NothingForgotten
