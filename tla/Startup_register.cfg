\* Two nodes start beside a running watcher with three built-in functions.
CONSTANTS
  n1 = n1
  n2 = n2
  registered = registered
  heartbeats = heartbeats
  getFuncMsg = getFuncMsg
  serveA = serveA
  serveB = serveB
  None = None
  Nodes = {n1, n2}
  Watcher = watcher
  Builtin = {registered, heartbeats, getFuncMsg}
  Registered = registered
  Serves <- EachServes
SPECIFICATION Spec
INVARIANT Starts
