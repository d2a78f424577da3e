\* Two requests at a time: registrations of two nodes, one with two functions,
\* heartbeats, lookups; nodes expire and are cleared.
CONSTANTS
  h1 = h1
  h2 = h2
  u1 = u1
  u2 = u2
  f = f
  g = g
  a1 = a1
  None = None
  Handlers = {h1, h2}
  Uuids = {u1, u2}
  Names = {f, g}
  Hosts = {a1}
  Requests <- MixedRequests
  WatchInMax = 3
  MaxId = 6
SPECIFICATION Spec
INVARIANTS TypeOK AnsweredIds NamedIsNumbered KeptWhenAlone
SYMMETRY Symmetric
