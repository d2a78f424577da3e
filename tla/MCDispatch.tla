------------------------------ MODULE MCDispatch ------------------------------
(* Instances of Dispatch. *)
EXTENDS Dispatch, TLC

CONSTANTS c1, c2, k1, k2, k3, k4, n1, n2, n3

OrdinaryFid == [c \in Callers |-> WatchInMax + 1]
\* Two connections to a TCP node, one to a node that listens for HTTP, and one to a node
\* over UDP, which may be handed one of the requests twice.
ThreeNodes == (k1 :> n1) @@ (k2 :> n1) @@ (k3 :> n2) @@ (k4 :> n3)
TwiceOverUdp == [c \in Callers |-> [k \in Conns |-> IF c = c1 /\ k = k4 THEN 2 ELSE 1]]

Wanted(op, uuid, name, here, has) ==
  [op |-> op, uuid |-> uuid, name |-> name, here |-> here, has |-> has]
Pair(v, w) == [c \in Callers |-> IF c = c1 THEN v ELSE w]
Away(op, uuid, has) == Wanted(op, uuid, "", "nothing", has)
Here(op, uuid, name, here) == Wanted(op, uuid, name, here, {})
\* Two calls that share connections to the TCP node; two that share the one to the UDP
\* node; calls that may fail over to the HTTP node or share its connection; and calls of
\* what is, or is thought to be, in this process.
SomeWants ==
  {Pair(Away("call", None, {n1}), Away("send", n1, {})),
   Pair(Away("send", n3, {}), Away("watch", n3, {})),
   Pair(Away("call", None, {n1, n2}), Away("byte", None, {})),
   Pair(Away("call", n1, {}), Away("call", None, {n2})),
   Pair(Away("call", None, {n2}), Away("watch", n2, {}))}
    \cup {Pair(Here("call", None, "own", "function"), w) :
            w \in {Here("call", "self", "", "function"), Here("send", "self", "", "function"),
                   Here("multi", "self", "", "function"), Here("multi", None, "own", "struct"),
                   Here("send", None, "", "struct"), Here("call", n1, "other", "nothing")}}
=============================================================================
