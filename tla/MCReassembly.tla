--------------------------- MODULE MCReassembly ---------------------------
(***************************************************************************)
(* Instances of Reassembly for TLC.  Frames carry two bytes and a byte has  *)
(* two values, so that a header has room for three frames.                  *)
(***************************************************************************)
EXTENDS Reassembly, TLC

CONSTANTS b1, b2, b3, b4, b5, b6, b7, p1, p2, w1, w2

\* b1 and b3 have one number and as many frames; b4 is an error answer and b5 has
\* five frames, of which the header says one.  b6 and b7 are pings, whose number b1 and b3
\* have, too.
TcpSize   == [b \in Bodies |-> (b1 :> 3 @@ b2 :> 6 @@ b3 :> 4 @@ b4 :> 3 @@ b5 :> 9
                                   @@ b6 :> 0 @@ b7 :> 1)[b]]
TcpNum    == [b \in Bodies |-> (b1 :> 1 @@ b2 :> 2 @@ b3 :> 1 @@ b4 :> 3 @@ b5 :> 4
                                   @@ b6 :> 1 @@ b7 :> 1)[b]]
TcpFid    == [b \in Bodies |-> (b1 :> 1 @@ b2 :> 1 @@ b3 :> 1 @@ b4 :> 2 @@ b5 :> 2
                                   @@ b6 :> 1 @@ b7 :> 1)[b]]
OneSender == [b \in Bodies |-> p1]

\* b1, of three frames, and b2, of a built-in call, share a number, for two functions; b2 has six
\* frames, of which the header says two, and the fourth place does not fit it.
UdpSize   == b1 :> 5 @@ b2 :> 11
UdpNum    == b1 :> 1 @@ b2 :> 1
UdpFid    == b1 :> 1 @@ b2 :> 2

\* Bound: a frame overtakes those of the two places before its own.
Overtaking == \A t \in taken, u \in wire : t.body = u.body => t.pos <= u.pos + 2

=============================================================================
