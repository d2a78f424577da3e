------------------------------- MODULE MCTimer -------------------------------
(***************************************************************************)
(* Instances of Timer for TLC.                                              *)
(***************************************************************************)
EXTENDS Timer, TLC

CONSTANTS t1, t2, s1, s2

Duration(n, d) == [count |-> TRUE, times |-> n, interval |-> d,
                   stamp |-> FALSE, offset |-> 0, now |-> FALSE]
Boolean(d)     == [count |-> FALSE, times |-> 0, interval |-> d,
                   stamp |-> FALSE, offset |-> 0, now |-> FALSE]
TimerRun(n, d, o) == [count |-> TRUE, times |-> n, interval |-> d,
                      stamp |-> TRUE, offset |-> o, now |-> TRUE]

\* A job that runs until it returns false, and one that runs three times, the first
\* at once and the others when the clock shows an odd number, as it was asked; the
\* timer calls it at the even ones.
MixedJobs == t1 :> Boolean(2) @@ t2 :> TimerRun(3, 2, 1)
OneJob    == t1 :> Duration(-1, 1)

=============================================================================
