----------------------------- MODULE MCRegistry -----------------------------
(***************************************************************************)
(* Instances of Registry for TLC.                                           *)
(***************************************************************************)
EXTENDS Registry, TLC

CONSTANTS h1, h2, u1, u2, f, g, a1

Registers(u, a, fs) == [op |-> "Registered", uuid |-> u, host |-> a, funcs |-> fs]
Beats(u)    == [op |-> "Heartbeats", uuid |-> u]
Message(n)  == [op |-> "GetFuncMsg", name |-> n]
Conns(n)    == [op |-> "GetApiConn", name |-> n]

\* Two nodes of one function, one of which has a second function.
MixedRequests ==
  {Registers(u1, a1, <<f>>), Registers(u2, a1, <<f, g>>), Beats(u1), Message(f), Conns(f)}

\* A node registers while another asks for its function.
OneNode == {Registers(u1, a1, <<f>>), Conns(f)}

Symmetric == Permutations({h1, h2})

=============================================================================
