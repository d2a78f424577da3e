-------------------------------- MODULE MCLogs --------------------------------
(* Instances of Logs. *)
EXTENDS Logs

CONSTANTS l1, l2, l3, e1, e2

\* Two lines of an error, one of an information.
TwoLevels == [l \in Lines |-> IF l = l2 THEN 2 ELSE 4]

=============================================================================
