\* A node registers while another asks for its function.
CONSTANTS
  h1 = h1
  h2 = h2
  u1 = u1
  u2 = u2
  f = f
  g = g
  a1 = a1
  None = None
  Handlers = {h1, h2}
  Uuids = {u1}
  Names = {f}
  Hosts = {a1}
  Requests <- OneNode
  WatchInMax = 3
  MaxId = 5
SPECIFICATION Spec
INVARIANT Discoverable
