------------------------------ MODULE MCCalls ------------------------------
(***************************************************************************)
(* Instances of Calls for TLC.                                              *)
(***************************************************************************)
EXTENDS Calls, TLC

CONSTANTS c1, c2, c3, k1, k2

\* Every caller calls an ordinary api.
OrdinaryFid  == [c \in Callers |-> WatchInMax + 1]
\* One caller calls a built-in id, whose number is that of a ping.
MixedFid     == [c \in Callers |-> IF c = c1 THEN PingNum ELSE WatchInMax + 1]
\* Over TCP, with requests of one or two frames.
Once         == [c \in Callers |-> [k \in Conns |-> 1]]

\* The callers that call an ordinary api are alike.
Symmetric == Permutations({c2, c3})

=============================================================================
