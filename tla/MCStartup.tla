----------------------------- MODULE MCStartup -----------------------------
EXTENDS Startup, TLC

CONSTANTS n1, n2, registered, heartbeats, getFuncMsg, serveA, serveB

EachServes == n1 :> {serveA} @@ n2 :> {serveB}
=============================================================================
