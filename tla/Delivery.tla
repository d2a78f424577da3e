------------------------------ MODULE Delivery ------------------------------
(***************************************************************************)
(* What the framing of network/rpc promises over a reliable connection: a   *)
(* body that was sent is handed over, whole, once.                          *)
(***************************************************************************)
EXTENDS Naturals

CONSTANT Bodies

VARIABLES
  sent,     \* the bodies that were sent
  handed    \* how often each body was handed over

vars == <<sent, handed>>

Init == sent = {} /\ handed = [b \in Bodies |-> 0]

\* A body is sent.
Send(b) ==
  /\ b \notin sent
  /\ sent' = sent \cup {b}
  /\ UNCHANGED handed

Hand(b) ==
  /\ b \in sent /\ handed[b] = 0
  /\ handed' = [handed EXCEPT ![b] = 1]
  /\ UNCHANGED sent

Next == \E b \in Bodies : Send(b) \/ Hand(b)

Spec == Init /\ [][Next]_vars /\ \A b \in Bodies : WF_vars(Hand(b))
=============================================================================
