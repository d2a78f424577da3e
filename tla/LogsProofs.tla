----------------------------- MODULE LogsProofs -----------------------------
(***************************************************************************)
(* What holds of the log for any lines, any calls of exit, any settings and  *)
(* any size of the buffer.                                                  *)
(***************************************************************************)
EXTENDS Logs, FiniteSetTheorems, SequenceTheorems, TLAPS

Sending == {"send", "rename", "reswap", "rewrite"}

\* Where a line and a call of exit may be: a cached log does not write lines, the
\* others have no buffer, and exit does not check.
StagesInv ==
  /\ \A l \in Lines : pc[l] \in IF Cached
       THEN {"new", "dropped", "check", "lock", "append", "stuck", "done"}
       ELSE {"new", "dropped", "check", "lock", "done"} \cup Rotating \cup Sending
  /\ \A e \in Exits : pc[e] \in {"new", "close", "done"} \cup (IF Cached THEN Sending ELSE {})

\* Nothing runs before NewLogs has returned.
BootInv ==
  boot # "up" =>
    /\ \A p \in Procs : pc[p] = "new"
    /\ mu = None /\ buf = {} /\ turned = {} /\ stamp = 0 /\ slipped = FALSE
    /\ boot = "open" => file = 0

\* Who has mu: the put that rotates, the exit that writes, and whom MutexKept names.
MutexInv ==
  /\ \A l \in Lines : pc[l] \in Rotating => mu = l /\ stamp <= at[l]
  /\ \A e \in Exits : pc[e] \in Sending <=> mu = e
  /\ \A l \in turned : pc[l] \in Sending \cup {"done"}
  /\ mu \in Lines => pc[mu] \notin {"new", "dropped", "check", "lock"}
  /\ Cached => turned = {} /\ \A l \in Lines : pc[l] = "lock" => stamp <= at[l]
  /\ MutexKept

\* Nothing is ahead of the clock.
ClockInv ==
  /\ \A l \in Lines : at[l] <= clock
  /\ boot # "open" => file <= clock
  /\ stamp <= clock + 1
  /\ \A p \in Procs : pc[p] \in {"swap", "reswap"} => name[p] <= clock

\* The file is no older than stamp, nor than the line of a put that turned to it.
FileInv ==
  ~slipped /\ boot = "up" =>
     /\ stamp <= file + 1
     /\ \A l \in turned : at[l] <= file
     /\ \A l \in Lines : pc[l] = "up" => at[l] <= file

\* Nor is the file that a put is about to turn to.
NameInv ==
  \A l \in Lines : pc[l] = "swap" => at[l] <= name[l] /\ \A r \in turned : at[r] <= name[l]

\* A line that check has let pass is of a period before stamp, unless it moved stamp.
PassedInv ==
  /\ \A l \in Lines : pc[l] \in Sending \cup {"append"} => l \in turned \/ at[l] < stamp
  /\ \A l \in buf : at[l] < stamp /\ pc[l] # "new"

\* exit has written the buffer.
Written2 == {e \in Exits : pc[e] \in {"close", "done"}}

\* What was written, and by whom.
WroteInv ==
  /\ Cached => \A l \in Lines : /\ Len(wrote[l]) <= Cardinality(Written2)
                                /\ wrote[l] # <<>> => l \in buf
  /\ ~Cached => /\ buf = {}
                /\ \A l \in Lines : IF pc[l] = "done" THEN Len(wrote[l]) <= 1 ELSE wrote[l] = <<>>
  /\ RightFile

IInv == /\ TypeOK /\ StagesInv /\ BootInv /\ MutexInv
        /\ ClockInv /\ FileInv /\ NameInv /\ PassedInv /\ WroteInv

-----------------------------------------------------------------------------
(* The steps that branch.                                                   *)

Unwritten == UNCHANGED <<clock, config, boot, level, fileVars, disk, stamp, buf, at, name,
                         slipped, turned>>

\* sendChann and reset write, or fail for the first time, or once more.
LEMMA WriteCases ==
  ASSUME NEW p \in Procs, Write(p)
  PROVE  /\ pc[p] \in {"send", "rewrite"} /\ Unwritten
         /\ \/ Sent(p) /\ num' = [num EXCEPT ![p] = 0] /\ UNCHANGED crashed
            \/ UNCHANGED <<wrote, mu, crashed>> /\ pc' = [pc EXCEPT ![p] = "rename"]
                 /\ num' = [num EXCEPT ![p] = 1]
            \/ UNCHANGED <<wrote, mu>> /\ pc' = [pc EXCEPT ![p] = "rename"]
                 /\ crashed' = (num[p] >= Tries)
                 /\ num' = [num EXCEPT ![p] = IF num[p] >= Tries THEN num[p] ELSE num[p] + 1]
BY Zenon DEF Write, FirstFailure, Goto, Unwritten

Unswapped == UNCHANGED <<clock, config, boot, level, disk, stamp, mu, buf, at, num, wrote, turned>>

\* open goes over to the file it has named, or panics.
LEMMA SwapCases ==
  ASSUME NEW p \in Procs, Swap(p), TypeOK
  PROVE  /\ pc[p] \in {"swap", "reswap"} /\ Unswapped
         /\ \/ /\ file' = name[p] /\ live' = TRUE /\ doomed' = FALSE
               /\ slipped' \in BOOLEAN
               /\ slipped' = FALSE => slipped = FALSE /\ (pc[p] = "reswap" => name[p] = clock)
               /\ pc' = [pc EXCEPT ![p] = IF pc[p] = "swap" THEN "up" ELSE "rewrite"]
               /\ name' = [name EXCEPT ![p] = 0] /\ UNCHANGED crashed
            \/ /\ crashed' = TRUE /\ live' = FALSE
               /\ UNCHANGED <<file, doomed, name, slipped, pc>>
BY Zenon DEF Swap, Goto, Unswapped, TypeOK

\* open goes to a file that some clock has named.
LEMMA SwapTyped ==
  ASSUME NEW p \in Procs, Swap(p), TypeOK
  PROVE  TypeOK'
<1>1. Unswapped
  BY SwapCases
<1>2. file' = name[p] \/ file' = file
  BY SwapCases
<1>3. name' = name \/ name' = [name EXCEPT ![p] = 0]
  BY SwapCases
<1>4. 0 \in 0 .. MaxClock
  BY LogsAssumption
<1>5. file' \in 0 .. MaxClock /\ name' \in [Procs -> 0 .. MaxClock]
  BY <1>2, <1>3, <1>4 DEF TypeOK
<1>6. pc' \in [Procs -> Where]
  BY SwapCases DEF TypeOK, Where
<1>7. live' \in BOOLEAN /\ doomed' \in BOOLEAN /\ slipped' \in BOOLEAN /\ crashed' \in BOOLEAN
  BY SwapCases, Zenon DEF TypeOK
<1> QED
  BY <1>1, <1>5, <1>6, <1>7 DEF Unswapped, TypeOK

-----------------------------------------------------------------------------

\* A step keeps every variable in its range: stamp, since a put that adds to it saw the
\* clock at or past it, and num, since reset gives up.
LEMMA StepTyped == IInv /\ [Next]_vars => TypeOK'
<1> SUFFICES ASSUME IInv, [Next]_vars PROVE TypeOK'
  OBVIOUS
<1> USE LogsAssumption DEF IInv, Procs, Goto, fileVars
<1>1. ASSUME Tick PROVE TypeOK'
  BY <1>1 DEF Tick, TypeOK
<1>2. ASSUME Fault PROVE TypeOK'
  BY <1>2 DEF Fault, TypeOK
<1>3. ASSUME OpenFirst PROVE TypeOK'
  BY <1>3 DEF OpenFirst, TypeOK
<1>4. ASSUME InitStamp PROVE TypeOK'
  BY <1>4 DEF InitStamp, TypeOK
<1>5. ASSUME NEW v \in Levels, ChangeErrLevel(v) PROVE TypeOK'
  BY <1>5 DEF ChangeErrLevel, TypeOK
<1>6. ASSUME NEW l \in Lines, Put(l) PROVE TypeOK'
  BY <1>6 DEF Put, Passes, TypeOK, Where
<1>7. ASSUME NEW e \in Exits, Exit(e) PROVE TypeOK'
  BY <1>7 DEF Exit, TypeOK, Where
<1>8. ASSUME CloseLate PROVE TypeOK'
  BY <1>8 DEF CloseLate, TypeOK
<1>9. ASSUME NEW p \in Lines, Check(p) PROVE TypeOK'
  BY <1>9 DEF Check, Sends, TypeOK, Where
<1>10. ASSUME NEW p \in Lines, Rotate(p) PROVE TypeOK'
  BY <1>10 DEF Rotate, Sends, TypeOK, Where
<1>11. ASSUME NEW p \in Lines, UpStamp(p) PROVE TypeOK'
  BY <1>11 DEF UpStamp, Sends, TypeOK, Where, MutexInv, Rotating
<1>12. ASSUME NEW p \in Lines, SendCache(p) PROVE TypeOK'
  BY <1>12 DEF SendCache, TypeOK, Where, Sending
<1>13. ASSUME NEW p \in Procs, Name(p) PROVE TypeOK'
  BY <1>13 DEF Name, TypeOK, Where
<1>14. ASSUME NEW p \in Procs, Swap(p) PROVE TypeOK'
  BY <1>14, SwapTyped
<1>15. ASSUME NEW p \in Procs, Write(p) PROVE TypeOK'
  <2>1. /\ \A l \in Lines : Append(wrote[l], file) \in Seq(0 .. MaxClock)
        /\ pc[p] \in {"send", "rewrite"} /\ Unwritten
    BY <1>15, AppendProperties, WriteCases DEF TypeOK
  <2>2. CASE Sent(p) /\ num' = [num EXCEPT ![p] = 0] /\ UNCHANGED crashed
    <3>1. wrote' \in [Lines -> Seq(0 .. MaxClock)]
      BY <2>1, <2>2 DEF Sent, TypeOK
    <3>2. pc' \in [Procs -> Where] /\ mu' \in Procs \cup {None}
      BY <2>2 DEF Sent, TypeOK, Where
    <3>3. num' \in [Procs -> 0 .. 4]
      BY <2>2 DEF TypeOK
    <3> QED
      BY <2>1, <2>2, <3>1, <3>2, <3>3 DEF Unwritten, TypeOK
  <2>3. CASE /\ UNCHANGED <<wrote, mu, crashed>> /\ pc' = [pc EXCEPT ![p] = "rename"]
             /\ num' = [num EXCEPT ![p] = 1]
    BY <2>1, <2>3 DEF Unwritten, TypeOK, Where
  <2>4. CASE /\ UNCHANGED <<wrote, mu>> /\ pc' = [pc EXCEPT ![p] = "rename"]
             /\ crashed' = (num[p] >= Tries)
             /\ num' = [num EXCEPT ![p] = IF num[p] >= Tries THEN num[p] ELSE num[p] + 1]
    <3>1. crashed' \in BOOLEAN
      BY <2>4 DEF Tries
    <3>2. num' \in [Procs -> 0 .. 4]
      BY <2>4 DEF Tries, TypeOK
    <3> QED
      BY <2>1, <2>4, <3>1, <3>2 DEF Unwritten, TypeOK, Where
  <2> QED
    BY <1>15, <2>2, <2>3, <2>4, WriteCases
<1>16. ASSUME NEW p \in Exits, Close(p) PROVE TypeOK'
  BY <1>16 DEF Close, TypeOK, Where
<1>17. CASE UNCHANGED vars
  BY <1>17 DEF vars, TypeOK
<1> QED
  BY <1>1, <1>2, <1>3, <1>4, <1>5, <1>6, <1>7, <1>8, <1>9, <1>10, <1>11, <1>12, <1>13, <1>14, <1>15, <1>16, <1>17 DEF Next, Step

\* A step leads each line and each call of exit to where its kind of log lets it be.
LEMMA StepStages == IInv /\ [Next]_vars => StagesInv'
<1> SUFFICES ASSUME IInv, [Next]_vars PROVE StagesInv'
  OBVIOUS
<1> USE LogsAssumption DEF IInv, Procs, Goto, fileVars
<1>1. ASSUME Tick PROVE StagesInv'
  BY <1>1 DEF Tick, StagesInv, Cached
<1>2. ASSUME Fault PROVE StagesInv'
  BY <1>2 DEF Fault, StagesInv, Cached
<1>3. ASSUME OpenFirst PROVE StagesInv'
  BY <1>3 DEF OpenFirst, StagesInv, Cached
<1>4. ASSUME InitStamp PROVE StagesInv'
  BY <1>4 DEF InitStamp, StagesInv, Cached
<1>5. ASSUME NEW v \in Levels, ChangeErrLevel(v) PROVE StagesInv'
  BY <1>5 DEF ChangeErrLevel, StagesInv, Cached
<1>6. ASSUME NEW l \in Lines, Put(l) PROVE StagesInv'
  BY <1>6 DEF Put, Passes, StagesInv, Cached
<1>7. ASSUME NEW e \in Exits, Exit(e) PROVE StagesInv'
  BY ZenonT(60), <1>7 DEF Exit, TypeOK, StagesInv, Cached, Sending
<1>8. ASSUME CloseLate PROVE StagesInv'
  BY <1>8 DEF CloseLate, StagesInv, Cached
<1>9. ASSUME NEW p \in Lines, Check(p) PROVE StagesInv'
  BY <1>9 DEF Check, Sends, StagesInv, Cached, Sending
<1>10. ASSUME NEW p \in Lines, Rotate(p) PROVE StagesInv'
  BY ZenonT(60), <1>10 DEF Rotate, Sends, TypeOK, StagesInv, Cached, Rotating, Sending
<1>11. ASSUME NEW p \in Lines, UpStamp(p) PROVE StagesInv'
  BY <1>11 DEF UpStamp, Sends, StagesInv, Cached, Sending
<1>12. ASSUME NEW p \in Lines, SendCache(p) PROVE StagesInv'
  BY ZenonT(60), <1>12 DEF SendCache, TypeOK, StagesInv, MutexInv, Cached, Sending
<1>13. ASSUME NEW p \in Procs, Name(p) PROVE StagesInv'
  BY <1>13 DEF Name, StagesInv, Cached, Rotating, Sending
<1>14. ASSUME NEW p \in Procs, Swap(p) PROVE StagesInv'
  BY <1>14 DEF Swap, TypeOK, StagesInv, Cached, Rotating, Sending
<1>15. ASSUME NEW p \in Procs, Write(p) PROVE StagesInv'
  BY ZenonT(60), <1>15 DEF Write, Sent, FirstFailure, Tries, Data, TypeOK, StagesInv, Cached, Sending
<1>16. ASSUME NEW p \in Exits, Close(p) PROVE StagesInv'
  BY <1>16 DEF Close, StagesInv, Cached
<1>17. CASE UNCHANGED vars
  BY <1>17 DEF vars, StagesInv, Cached
<1> QED
  BY <1>1, <1>2, <1>3, <1>4, <1>5, <1>6, <1>7, <1>8, <1>9, <1>10, <1>11, <1>12, <1>13, <1>14, <1>15, <1>16, <1>17 DEF Next, Step

\* A step before the end of NewLogs is one of NewLogs.
LEMMA StepBoot == IInv /\ [Next]_vars => BootInv'
<1> SUFFICES ASSUME IInv, [Next]_vars PROVE BootInv'
  OBVIOUS
<1> USE LogsAssumption DEF IInv, Procs, Goto, fileVars
<1>1. ASSUME Tick PROVE BootInv'
  BY <1>1 DEF Tick, BootInv
<1>2. ASSUME Fault PROVE BootInv'
  BY <1>2 DEF Fault, BootInv
<1>3. ASSUME OpenFirst PROVE BootInv'
  BY <1>3 DEF OpenFirst, BootInv
<1>4. ASSUME InitStamp PROVE BootInv'
  BY <1>4 DEF InitStamp, BootInv
<1>5. ASSUME NEW v \in Levels, ChangeErrLevel(v) PROVE BootInv'
  BY <1>5 DEF ChangeErrLevel, BootInv
<1>6. ASSUME NEW l \in Lines, Put(l) PROVE BootInv'
  BY <1>6 DEF Put, Passes, BootInv
<1>7. ASSUME NEW e \in Exits, Exit(e) PROVE BootInv'
  BY <1>7 DEF Exit, BootInv
<1>8. ASSUME CloseLate PROVE BootInv'
  BY <1>8 DEF CloseLate, BootInv
<1>9. ASSUME NEW p \in Lines, Check(p) PROVE BootInv'
  BY <1>9 DEF Check, BootInv
<1>10. ASSUME NEW p \in Lines, Rotate(p) PROVE BootInv'
  BY <1>10 DEF Rotate, BootInv
<1>11. ASSUME NEW p \in Lines, UpStamp(p) PROVE BootInv'
  BY <1>11 DEF UpStamp, BootInv
<1>12. ASSUME NEW p \in Lines, SendCache(p) PROVE BootInv'
  BY <1>12 DEF SendCache, BootInv
<1>13. ASSUME NEW p \in Procs, Name(p) PROVE BootInv'
  BY <1>13 DEF Name, BootInv
<1>14. ASSUME NEW p \in Procs, Swap(p) PROVE BootInv'
  BY <1>14 DEF Swap, BootInv
<1>15. ASSUME NEW p \in Procs, Write(p) PROVE BootInv'
  BY <1>15 DEF Write, Tries, Data, BootInv
<1>16. ASSUME NEW p \in Exits, Close(p) PROVE BootInv'
  BY <1>16 DEF Close, BootInv
<1>17. CASE UNCHANGED vars
  BY <1>17 DEF vars, BootInv
<1> QED
  BY <1>1, <1>2, <1>3, <1>4, <1>5, <1>6, <1>7, <1>8, <1>9, <1>10, <1>11, <1>12, <1>13, <1>14, <1>15, <1>16, <1>17 DEF Next, Step

\* A step hands mu from none to a put or an exit, or back.
LEMMA StepMutex == IInv /\ [Next]_vars => MutexInv'
<1> SUFFICES ASSUME IInv, [Next]_vars PROVE MutexInv'
  OBVIOUS
<1> USE LogsAssumption DEF IInv, Procs, Goto, fileVars
<1>1. ASSUME Tick PROVE MutexInv'
  BY <1>1 DEF Tick, MutexInv, MutexKept, Cached
<1>2. ASSUME Fault PROVE MutexInv'
  BY <1>2 DEF Fault, MutexInv, MutexKept, Cached
<1>3. ASSUME OpenFirst PROVE MutexInv'
  BY <1>3 DEF OpenFirst, BootInv, MutexInv, MutexKept
<1>4. ASSUME InitStamp PROVE MutexInv'
  BY <1>4 DEF InitStamp, BootInv, MutexInv, MutexKept
<1>5. ASSUME NEW v \in Levels, ChangeErrLevel(v) PROVE MutexInv'
  BY <1>5 DEF ChangeErrLevel, MutexInv, MutexKept, Cached
<1>6. ASSUME NEW l \in Lines, Put(l) PROVE MutexInv'
  <2>1. pc[l] = "new" /\ UNCHANGED <<mu, stamp, turned, config>> /\ l \notin turned /\ mu # l
    BY <1>6 DEF Put, MutexInv, Sending
  <2>2. \A p \in Procs : p # l => pc'[p] = pc[p]
    BY <1>6 DEF Put, TypeOK
  <2>3. pc'[l] \in {"check", "dropped"} /\ \A r \in Lines : r # l => at'[r] = at[r]
    BY <1>6 DEF Put, TypeOK
  <2> QED
    BY <2>1, <2>2, <2>3 DEF TypeOK, MutexInv, MutexKept, Cached, Rotating
<1>7. ASSUME NEW e \in Exits, Exit(e) PROVE MutexInv'
  <2>1. UNCHANGED <<stamp, turned, config, at>> /\ pc[e] = "new"
    BY <1>7 DEF Exit
  <2>2. \A p \in Procs : p # e => pc'[p] = pc[p]
    BY <1>7 DEF Exit, TypeOK
  <2>3. CASE Cached
    <3>1. mu = None /\ mu' = e /\ pc'[e] = "send"
      BY <1>7, <2>3 DEF Exit, TypeOK
    <3> QED
      BY <2>1, <2>2, <2>3, <3>1 DEF MutexInv, MutexKept, Sending
  <2>4. CASE ~Cached
    <3>1. mu' = mu /\ pc'[e] = "close"
      BY <1>7, <2>4 DEF Exit, TypeOK
    <3> QED
      BY <2>1, <2>2, <2>4, <3>1 DEF TypeOK, MutexInv, MutexKept, Cached, Sending
  <2> QED
    BY <2>3, <2>4
<1>8. ASSUME CloseLate PROVE MutexInv'
  BY <1>8 DEF CloseLate, MutexInv, MutexKept, Cached
<1>9. ASSUME NEW p \in Lines, Check(p) PROVE MutexInv'
  BY <1>9 DEF Check, Sends, MutexInv, MutexKept, Cached, Rotating, Sending
<1>10. ASSUME NEW p \in Lines, Rotate(p) PROVE MutexInv'
  <2>1. UNCHANGED <<stamp, turned, config, at>> /\ pc[p] = "lock" /\ mu = None /\ mu' = p
    BY <1>10 DEF Rotate
  <2>2. \A q \in Procs : q # p => pc'[q] = pc[q]
    BY <1>10 DEF Rotate, TypeOK
  <2>3. p \notin turned
    BY <2>1 DEF MutexInv, Sending
  <2>4. CASE Cached
    <3>1. stamp <= at[p] /\ pc'[p] = "stuck"
      BY <1>10, <2>4 DEF Rotate, MutexInv, TypeOK
    <3> QED
      BY <2>1, <2>2, <2>3, <2>4, <3>1 DEF MutexInv, MutexKept, Cached
  <2>5. CASE ~Cached
    <3>1. \/ stamp > at[p] /\ pc'[p] = "send"
          \/ stamp <= at[p] /\ pc'[p] = "name"
      BY <1>10, <2>5 DEF Rotate, Sends, TypeOK
    <3> QED
      BY <2>1, <2>2, <2>3, <2>5, <3>1 DEF TypeOK, MutexInv, MutexKept, Cached, Rotating
  <2> QED
    BY <2>4, <2>5
<1>11. ASSUME NEW p \in Lines, UpStamp(p) PROVE MutexInv'
  BY ZenonT(60), <1>11 DEF UpStamp, Sends, TypeOK, StagesInv, MutexInv, MutexKept, Cached, Rotating, Sending
<1>12. ASSUME NEW p \in Lines, SendCache(p) PROVE MutexInv'
  BY ZenonT(60), <1>12 DEF SendCache, TypeOK, StagesInv, MutexInv, MutexKept, Cached, Rotating, Sending
<1>13. ASSUME NEW p \in Procs, Name(p) PROVE MutexInv'
  BY <1>13 DEF Name, MutexInv, MutexKept, Cached, Rotating, Sending
<1>14. ASSUME NEW p \in Procs, Swap(p) PROVE MutexInv'
  BY <1>14 DEF Swap, TypeOK, MutexInv, MutexKept, Cached, Rotating, Sending
<1>15. ASSUME NEW p \in Procs, Write(p) PROVE MutexInv'
  <2>1. UNCHANGED <<stamp, turned, config, at>> /\ pc[p] \in {"send", "rewrite"}
    BY <1>15 DEF Write
  <2>2. \A q \in Procs : q # p => pc'[q] = pc[q]
    BY <1>15 DEF Write, Sent, FirstFailure, TypeOK
  <2>3. \/ pc'[p] = "rename" /\ mu' = mu
        \/ p \in Lines /\ pc'[p] = "done" /\ mu' = mu
        \/ p \in Exits /\ pc'[p] = "close" /\ mu' = None
    BY <1>15 DEF Write, Sent, FirstFailure, TypeOK
  <2> QED
    BY ZenonT(60), <2>1, <2>2, <2>3 DEF TypeOK, MutexInv, MutexKept, Cached, Rotating, Sending
<1>16. ASSUME NEW p \in Exits, Close(p) PROVE MutexInv'
  BY <1>16 DEF Close, MutexInv, MutexKept, Cached, Sending
<1>17. CASE UNCHANGED vars
  BY <1>17 DEF vars, MutexInv, MutexKept, Cached
<1> QED
  BY <1>1, <1>2, <1>3, <1>4, <1>5, <1>6, <1>7, <1>8, <1>9, <1>10, <1>11, <1>12, <1>13, <1>14, <1>15, <1>16, <1>17 DEF Next, Step

\* A step takes no time from ahead of the clock: a stamp that grows was at most the time
\* of the put.
LEMMA StepClock == IInv /\ [Next]_vars => ClockInv'
<1> SUFFICES ASSUME IInv, [Next]_vars PROVE ClockInv'
  OBVIOUS
<1> USE LogsAssumption DEF IInv, Procs, Goto, fileVars
<1>1. ASSUME Tick PROVE ClockInv'
  BY <1>1 DEF Tick, TypeOK, ClockInv
<1>2. ASSUME Fault PROVE ClockInv'
  BY <1>2 DEF Fault, ClockInv
<1>3. ASSUME OpenFirst PROVE ClockInv'
  BY <1>3 DEF OpenFirst, TypeOK, ClockInv
<1>4. ASSUME InitStamp PROVE ClockInv'
  <2>1. boot = "stamp" /\ boot' = "up" /\ stamp' = clock + 1 /\ UNCHANGED <<clock, file, at, pc, name>>
    BY <1>4 DEF InitStamp
  <2>2. (\A p \in Procs : pc[p] = "new") /\ clock \in Nat /\ file <= clock
    BY <2>1 DEF BootInv, ClockInv, TypeOK
  <2> QED
    BY <2>1, <2>2 DEF ClockInv
<1>5. ASSUME NEW v \in Levels, ChangeErrLevel(v) PROVE ClockInv'
  BY <1>5 DEF ChangeErrLevel, ClockInv
<1>6. ASSUME NEW l \in Lines, Put(l) PROVE ClockInv'
  <2>1. UNCHANGED <<clock, boot, file, stamp, name>> /\ boot = "up"
    BY <1>6 DEF Put
  <2>2. at' = [at EXCEPT ![l] = clock] /\ pc'[l] \in {"check", "dropped"}
    BY <1>6 DEF Put, TypeOK
  <2>3. \A p \in Procs : p # l => pc'[p] = pc[p]
    BY <1>6 DEF Put, TypeOK
  <2>4. \A r \in Lines : at'[r] <= clock
    BY <2>2 DEF TypeOK, ClockInv
  <2>5. \A p \in Procs : pc'[p] \in {"swap", "reswap"} => pc[p] \in {"swap", "reswap"}
    BY <2>2, <2>3
  <2> QED
    BY <2>1, <2>4, <2>5 DEF ClockInv
<1>7. ASSUME NEW e \in Exits, Exit(e) PROVE ClockInv'
  BY <1>7 DEF Exit, TypeOK, ClockInv
<1>8. ASSUME CloseLate PROVE ClockInv'
  BY <1>8 DEF CloseLate, ClockInv
<1>9. ASSUME NEW p \in Lines, Check(p) PROVE ClockInv'
  BY <1>9 DEF Check, Sends, ClockInv
<1>10. ASSUME NEW p \in Lines, Rotate(p) PROVE ClockInv'
  BY <1>10 DEF Rotate, Sends, TypeOK, ClockInv
<1>11. ASSUME NEW p \in Lines, UpStamp(p) PROVE ClockInv'
  BY <1>11 DEF UpStamp, Sends, TypeOK, ClockInv, MutexInv, Rotating
<1>12. ASSUME NEW p \in Lines, SendCache(p) PROVE ClockInv'
  BY <1>12 DEF SendCache, TypeOK, ClockInv
<1>13. ASSUME NEW p \in Procs, Name(p) PROVE ClockInv'
  BY <1>13 DEF Name, TypeOK, ClockInv
<1>14. ASSUME NEW p \in Procs, Swap(p) PROVE ClockInv'
  <2>1. Unswapped /\ pc[p] \in {"swap", "reswap"}
    BY <1>14, SwapCases
  <2>2. CASE file' = name[p] /\ pc' = [pc EXCEPT ![p] = IF pc[p] = "swap" THEN "up" ELSE "rewrite"]
             /\ name' = [name EXCEPT ![p] = 0]
    BY <2>1, <2>2 DEF Unswapped, TypeOK, ClockInv
  <2>3. CASE UNCHANGED <<file, name, pc>>
    BY <2>1, <2>3 DEF Unswapped, ClockInv
  <2> QED
    BY <1>14, <2>2, <2>3, SwapCases
<1>15. ASSUME NEW p \in Procs, Write(p) PROVE ClockInv'
  <2>1. UNCHANGED <<clock, boot, file, stamp, name, at>>
    BY <1>15 DEF Write
  <2>2. \A q \in Procs : q # p => pc'[q] = pc[q]
    BY <1>15 DEF Write, Sent, FirstFailure, TypeOK
  <2>3. pc'[p] \in {"rename", "done", "close"}
    BY <1>15 DEF Write, Sent, FirstFailure, TypeOK
  <2> QED
    BY <2>1, <2>2, <2>3 DEF TypeOK, ClockInv
<1>16. ASSUME NEW p \in Exits, Close(p) PROVE ClockInv'
  BY <1>16 DEF Close, ClockInv
<1>17. CASE UNCHANGED vars
  BY <1>17 DEF vars, ClockInv
<1> QED
  BY <1>1, <1>2, <1>3, <1>4, <1>5, <1>6, <1>7, <1>8, <1>9, <1>10, <1>11, <1>12, <1>13, <1>14, <1>15, <1>16, <1>17 DEF Next, Step

\* A step keeps the file at least as new as stamp and as the puts that turned to it.
LEMMA StepFile == IInv /\ [Next]_vars => FileInv'
<1> SUFFICES ASSUME IInv, [Next]_vars PROVE FileInv'
  OBVIOUS
<1> USE LogsAssumption DEF IInv, Procs, Goto, fileVars
<1>1. ASSUME Tick PROVE FileInv'
  BY <1>1 DEF Tick, FileInv
<1>2. ASSUME Fault PROVE FileInv'
  BY <1>2 DEF Fault, FileInv
<1>3. ASSUME OpenFirst PROVE FileInv'
  BY <1>3 DEF OpenFirst, FileInv
<1>4. ASSUME InitStamp PROVE FileInv'
  <2>1. boot = "stamp" /\ stamp' = clock + 1 /\ UNCHANGED <<file, turned, pc, at>>
    BY <1>4 DEF InitStamp
  <2>2. slipped' = FALSE => clock = file
    BY <1>4, Zenon DEF InitStamp
  <2>3. turned = {} /\ \A p \in Procs : pc[p] = "new"
    BY <2>1 DEF BootInv
  <2>4. slipped' = FALSE => stamp' <= file' + 1
    BY <2>1, <2>2 DEF TypeOK
  <2> QED
    BY <2>1, <2>3, <2>4 DEF FileInv
<1>5. ASSUME NEW v \in Levels, ChangeErrLevel(v) PROVE FileInv'
  BY <1>5 DEF ChangeErrLevel, FileInv
<1>6. ASSUME NEW l \in Lines, Put(l) PROVE FileInv'
  <2>1. UNCHANGED <<boot, file, stamp, turned, slipped>> /\ pc[l] = "new"
    BY <1>6 DEF Put
  <2>2. l \notin turned
    BY <2>1 DEF MutexInv, Sending
  <2>3. at' = [at EXCEPT ![l] = clock] /\ pc'[l] \in {"check", "dropped"}
    BY <1>6 DEF Put, TypeOK
  <2>4. \A p \in Procs : p # l => pc'[p] = pc[p]
    BY <1>6 DEF Put, TypeOK
  <2> QED
    BY <2>1, <2>2, <2>3, <2>4 DEF TypeOK, FileInv
<1>7. ASSUME NEW e \in Exits, Exit(e) PROVE FileInv'
  BY <1>7 DEF Exit, TypeOK, FileInv
<1>8. ASSUME CloseLate PROVE FileInv'
  BY <1>8 DEF CloseLate, FileInv
<1>9. ASSUME NEW p \in Lines, Check(p) PROVE FileInv'
  BY <1>9 DEF Check, Sends, FileInv
<1>10. ASSUME NEW p \in Lines, Rotate(p) PROVE FileInv'
  BY <1>10 DEF Rotate, TypeOK, FileInv
<1>11. ASSUME NEW p \in Lines, UpStamp(p) PROVE FileInv'
  BY <1>11 DEF UpStamp, TypeOK, MutexInv, Rotating, FileInv
<1>12. ASSUME NEW p \in Lines, SendCache(p) PROVE FileInv'
  <2>1. UNCHANGED <<boot, file, stamp, turned, at, slipped>>
    BY <1>12 DEF SendCache
  <2>2. \A l \in Lines : pc'[l] = "up" => pc[l] = "up"
    BY <1>12 DEF SendCache, TypeOK
  <2> QED
    BY <2>1, <2>2 DEF FileInv
<1>13. ASSUME NEW p \in Procs, Name(p) PROVE FileInv'
  BY <1>13 DEF Name, FileInv
<1>14. ASSUME NEW p \in Procs, Swap(p) PROVE FileInv'
  <2>1. Unswapped /\ pc[p] \in {"swap", "reswap"} /\ name[p] <= clock
    BY <1>14, SwapCases DEF ClockInv
  <2>2. CASE /\ file' = name[p]
             /\ slipped' = FALSE => slipped = FALSE /\ (pc[p] = "reswap" => name[p] = clock)
             /\ pc' = [pc EXCEPT ![p] = IF pc[p] = "swap" THEN "up" ELSE "rewrite"]
    <3> DEFINE Newer == /\ stamp <= name[p] + 1
                        /\ \A l \in turned : at[l] <= name[p]
                        /\ \A l \in Lines : pc'[l] = "up" => at[l] <= name[p]
    <3> SUFFICES ASSUME slipped' = FALSE PROVE Newer
      <4>1. file' = name[p]
        BY <2>2
      <4>2. (slipped' = FALSE => Newer) => FileInv'
        BY <2>1, <4>1 DEF Unswapped, FileInv
      <4> QED
        BY <4>2
    <3>1. CASE pc[p] = "reswap"
      <4>1. name[p] = clock /\ pc'[p] = "rewrite"
        BY <2>2, <3>1 DEF TypeOK
      <4> QED
        BY <2>1, <4>1 DEF ClockInv, TypeOK
    <3>2. CASE pc[p] = "swap"
      <4>1. p \in Lines
        BY <3>2 DEF StagesInv, Sending
      <4>2. mu = p /\ stamp <= at[p] /\ at[p] <= name[p]
        BY <3>2, <4>1 DEF MutexInv, Rotating, NameInv
      <4>3. \A r \in turned : at[r] <= name[p]
        BY <3>2, <4>1 DEF NameInv
      <4>4. \A l \in Lines : pc'[l] = "up" => l = p
        BY <2>2, <4>2 DEF MutexInv, Rotating, TypeOK
      <4> QED
        BY <4>1, <4>2, <4>3, <4>4 DEF TypeOK
    <3> QED
      BY <2>1, <3>1, <3>2
  <2>3. CASE UNCHANGED <<file, name, slipped, pc>>
    BY <2>1, <2>3 DEF Unswapped, FileInv
  <2> QED
    BY <1>14, <2>2, <2>3, SwapCases
<1>15. ASSUME NEW p \in Procs, Write(p) PROVE FileInv'
  <2>1. UNCHANGED <<boot, file, stamp, turned, at, slipped>>
    BY <1>15 DEF Write
  <2>2. \A l \in Lines : pc'[l] = "up" => pc[l] = "up"
    BY <1>15 DEF Write, Sent, FirstFailure, TypeOK
  <2> QED
    BY <2>1, <2>2 DEF FileInv
<1>16. ASSUME NEW p \in Exits, Close(p) PROVE FileInv'
  BY <1>16 DEF Close, FileInv
<1>17. CASE UNCHANGED vars
  BY <1>17 DEF vars, FileInv
<1> QED
  BY <1>1, <1>2, <1>3, <1>4, <1>5, <1>6, <1>7, <1>8, <1>9, <1>10, <1>11, <1>12, <1>13, <1>14, <1>15, <1>16, <1>17 DEF Next, Step

\* A step that names a file names that of the clock; no put turns while another is at it.
LEMMA StepName == IInv /\ [Next]_vars => NameInv'
<1> SUFFICES ASSUME IInv, [Next]_vars PROVE NameInv'
  OBVIOUS
<1> USE LogsAssumption DEF IInv, Procs, Goto, fileVars
<1>1. ASSUME Tick PROVE NameInv'
  BY <1>1 DEF Tick, NameInv
<1>2. ASSUME Fault PROVE NameInv'
  BY <1>2 DEF Fault, NameInv
<1>3. ASSUME OpenFirst PROVE NameInv'
  BY <1>3 DEF OpenFirst, NameInv
<1>4. ASSUME InitStamp PROVE NameInv'
  BY <1>4 DEF InitStamp, NameInv
<1>5. ASSUME NEW v \in Levels, ChangeErrLevel(v) PROVE NameInv'
  BY <1>5 DEF ChangeErrLevel, NameInv
<1>6. ASSUME NEW l \in Lines, Put(l) PROVE NameInv'
  <2>1. UNCHANGED <<turned, name>> /\ pc[l] = "new"
    BY <1>6 DEF Put
  <2>2. l \notin turned
    BY <2>1 DEF MutexInv, Sending
  <2>3. at' = [at EXCEPT ![l] = clock] /\ pc'[l] \in {"check", "dropped"}
    BY <1>6 DEF Put, TypeOK
  <2>4. \A p \in Procs : p # l => pc'[p] = pc[p]
    BY <1>6 DEF Put, TypeOK
  <2> QED
    BY <2>1, <2>2, <2>3, <2>4 DEF TypeOK, NameInv
<1>7. ASSUME NEW e \in Exits, Exit(e) PROVE NameInv'
  BY <1>7 DEF Exit, TypeOK, NameInv
<1>8. ASSUME CloseLate PROVE NameInv'
  BY <1>8 DEF CloseLate, NameInv
<1>9. ASSUME NEW p \in Lines, Check(p) PROVE NameInv'
  BY <1>9 DEF Check, Sends, NameInv
<1>10. ASSUME NEW p \in Lines, Rotate(p) PROVE NameInv'
  BY <1>10 DEF Rotate, Sends, TypeOK, NameInv
<1>11. ASSUME NEW p \in Lines, UpStamp(p) PROVE NameInv'
  BY <1>11 DEF UpStamp, Sends, MutexInv, NameInv, Rotating
<1>12. ASSUME NEW p \in Lines, SendCache(p) PROVE NameInv'
  <2>1. UNCHANGED <<turned, at, name>>
    BY <1>12 DEF SendCache
  <2>2. \A l \in Lines : pc'[l] = "swap" => pc[l] = "swap"
    BY <1>12 DEF SendCache, TypeOK
  <2> QED
    BY <2>1, <2>2 DEF NameInv
<1>13. ASSUME NEW p \in Procs, Name(p) PROVE NameInv'
  BY <1>13 DEF Name, TypeOK, ClockInv, NameInv
<1>14. ASSUME NEW p \in Procs, Swap(p) PROVE NameInv'
  <2>1. UNCHANGED <<turned, at>>
    BY <1>14, SwapCases DEF Unswapped
  <2>2. \A l \in Lines : pc'[l] = "swap" => pc[l] = "swap" /\ name'[l] = name[l]
    BY <1>14, SwapCases DEF TypeOK
  <2> QED
    BY <2>1, <2>2 DEF NameInv
<1>15. ASSUME NEW p \in Procs, Write(p) PROVE NameInv'
  <2>1. UNCHANGED <<turned, at, name>>
    BY <1>15 DEF Write
  <2>2. \A l \in Lines : pc'[l] = "swap" => pc[l] = "swap"
    BY <1>15 DEF Write, Sent, FirstFailure, TypeOK
  <2> QED
    BY <2>1, <2>2 DEF NameInv
<1>16. ASSUME NEW p \in Exits, Close(p) PROVE NameInv'
  BY <1>16 DEF Close, NameInv
<1>17. CASE UNCHANGED vars
  BY <1>17 DEF vars, NameInv
<1> QED
  BY <1>1, <1>2, <1>3, <1>4, <1>5, <1>6, <1>7, <1>8, <1>9, <1>10, <1>11, <1>12, <1>13, <1>14, <1>15, <1>16, <1>17 DEF Next, Step

\* A step lets no line pass check whose period stamp has not left behind.
LEMMA StepPassed == IInv /\ [Next]_vars => PassedInv'
<1> SUFFICES ASSUME IInv, [Next]_vars PROVE PassedInv'
  OBVIOUS
<1> USE LogsAssumption DEF IInv, Procs, Goto, fileVars
<1>1. ASSUME Tick PROVE PassedInv'
  BY <1>1 DEF Tick, PassedInv
<1>2. ASSUME Fault PROVE PassedInv'
  BY <1>2 DEF Fault, PassedInv
<1>3. ASSUME OpenFirst PROVE PassedInv'
  BY <1>3 DEF OpenFirst, PassedInv
<1>4. ASSUME InitStamp PROVE PassedInv'
  BY <1>4 DEF InitStamp, BootInv, PassedInv, Sending
<1>5. ASSUME NEW v \in Levels, ChangeErrLevel(v) PROVE PassedInv'
  BY <1>5 DEF ChangeErrLevel, PassedInv
<1>6. ASSUME NEW l \in Lines, Put(l) PROVE PassedInv'
  <2>1. UNCHANGED <<turned, buf, stamp>> /\ pc[l] = "new" /\ l \notin buf
    BY <1>6 DEF Put, PassedInv
  <2>2. pc'[l] \in {"check", "dropped"} /\ \A r \in Lines : r # l => at'[r] = at[r]
    BY <1>6 DEF Put, TypeOK
  <2>3. \A p \in Procs : p # l => pc'[p] = pc[p]
    BY <1>6 DEF Put, TypeOK
  <2> QED
    BY <2>1, <2>2, <2>3 DEF TypeOK, PassedInv, Sending
<1>7. ASSUME NEW e \in Exits, Exit(e) PROVE PassedInv'
  BY <1>7 DEF Exit, TypeOK, PassedInv
<1>8. ASSUME CloseLate PROVE PassedInv'
  BY <1>8 DEF CloseLate, PassedInv
<1>9. ASSUME NEW p \in Lines, Check(p) PROVE PassedInv'
  BY <1>9 DEF Check, Sends, TypeOK, PassedInv, Sending
<1>10. ASSUME NEW p \in Lines, Rotate(p) PROVE PassedInv'
  BY <1>10 DEF Rotate, Sends, TypeOK, PassedInv, Sending
<1>11. ASSUME NEW p \in Lines, UpStamp(p) PROVE PassedInv'
  BY <1>11 DEF UpStamp, Sends, TypeOK, PassedInv
<1>12. ASSUME NEW p \in Lines, SendCache(p) PROVE PassedInv'
  <2>1. UNCHANGED <<turned, at, stamp>> /\ pc[p] = "append"
    BY <1>12 DEF SendCache
  <2>2. at[p] < stamp
    BY <2>1 DEF MutexInv, PassedInv, Sending
  <2>3. buf' \subseteq buf \cup {p}
    BY <1>12 DEF SendCache
  <2>4. \A q \in Procs : q # p => pc'[q] = pc[q]
    BY <1>12 DEF SendCache, TypeOK
  <2>5. pc'[p] \in {"append", "stuck", "done"}
    BY <1>12 DEF SendCache, TypeOK
  <2> QED
    BY <2>1, <2>2, <2>3, <2>4, <2>5 DEF TypeOK, PassedInv
<1>13. ASSUME NEW p \in Procs, Name(p) PROVE PassedInv'
  BY <1>13 DEF Name, PassedInv, Sending
<1>14. ASSUME NEW p \in Procs, Swap(p) PROVE PassedInv'
  <2>1. UNCHANGED <<turned, at, stamp, buf>>
    BY <1>14, SwapCases DEF Unswapped
  <2>2. \A q \in Procs : \/ pc'[q] = pc[q]
                         \/ pc[q] = "swap" /\ pc'[q] = "up"
                         \/ pc[q] = "reswap" /\ pc'[q] = "rewrite"
    BY <1>14, SwapCases DEF TypeOK
  <2> QED
    BY <2>1, <2>2 DEF TypeOK, PassedInv, Sending
<1>15. ASSUME NEW p \in Procs, Write(p) PROVE PassedInv'
  <2>1. UNCHANGED <<turned, at, stamp, buf>> /\ pc[p] \in {"send", "rewrite"}
    BY <1>15 DEF Write
  <2>2. \A q \in Procs : q # p => pc'[q] = pc[q]
    BY <1>15 DEF Write, Sent, FirstFailure, TypeOK
  <2>3. pc'[p] \in {"rename", "done", "close"}
    BY <1>15 DEF Write, Sent, FirstFailure, TypeOK
  <2> QED
    BY <2>1, <2>2, <2>3 DEF TypeOK, PassedInv, Sending
<1>16. ASSUME NEW p \in Exits, Close(p) PROVE PassedInv'
  BY <1>16 DEF Close, PassedInv
<1>17. CASE UNCHANGED vars
  BY <1>17 DEF vars, PassedInv
<1> QED
  BY <1>1, <1>2, <1>3, <1>4, <1>5, <1>6, <1>7, <1>8, <1>9, <1>10, <1>11, <1>12, <1>13, <1>14, <1>15, <1>16, <1>17 DEF Next, Step

-----------------------------------------------------------------------------
(* What was written.                                                        *)

\* A step that writes nothing, and loses nothing of what the invariant says was written.
WritesNothing ==
  /\ UNCHANGED <<config, wrote>> /\ buf \subseteq buf' /\ (Cached \/ buf' = {})
  /\ ~Cached \/ Written2' = Written2
  /\ \A l \in Lines : pc[l] = "done" => pc'[l] = "done"
  /\ \A l \in Lines : \/ wrote[l] = <<>>
                      \/ at'[l] = at[l] /\ (slipped' = FALSE => slipped = FALSE)

\* Such a step keeps what the invariant says of the files.
LEMMA NothingWritten ==
  ASSUME TypeOK, WroteInv, WritesNothing, slipped' \in BOOLEAN
  PROVE  WroteInv'
<1>1. Cached' = Cached /\ wrote' = wrote
  BY DEF WritesNothing, Cached
<1>2. ASSUME Cached, NEW l \in Lines
      PROVE  Len(wrote'[l]) <= Cardinality(Written2') /\ (wrote'[l] # <<>> => l \in buf')
  BY <1>1, <1>2 DEF WritesNothing, WroteInv
<1>3. ASSUME ~Cached
      PROVE  /\ buf' = {}
             /\ \A l \in Lines : IF pc'[l] = "done" THEN Len(wrote'[l]) <= 1
                                 ELSE wrote'[l] = <<>>
  BY <1>1, <1>3, EmptySeq DEF WritesNothing, WroteInv
<1>4. ASSUME slipped' = FALSE, NEW l \in Lines, NEW i \in DOMAIN wrote[l]
      PROVE  wrote[l][i] >= at'[l]
  <2>1. wrote[l] # <<>>
    BY <1>4, EmptySeq DEF TypeOK
  <2>2. at'[l] = at[l] /\ slipped = FALSE
    BY <2>1, <1>4 DEF WritesNothing
  <2> QED
    BY <2>2, <1>4 DEF WroteInv, RightFile
<1>5. ~slipped' => slipped' = FALSE
  BY Zenon
<1>6. RightFile'
  BY <1>1, <1>4, <1>5 DEF RightFile
<1> QED
  BY <1>1, <1>2, <1>3, <1>6 DEF WroteInv

\* A line that has not been put, or a log that is not up, has nothing in any file.
LEMMA NewUnwritten ==
  ASSUME IInv, NEW l \in Lines, pc[l] = "new"
  PROVE  wrote[l] = <<>>
<1>1. CASE Cached
  BY <1>1 DEF IInv, PassedInv, WroteInv
<1>2. CASE ~Cached
  BY <1>2 DEF IInv, WroteInv
<1> QED
  BY <1>1, <1>2

\* sendChann writes to a file no older than the lines it is given.
LEMMA FileForData ==
  ASSUME IInv, NEW p \in Procs, pc[p] \in {"send", "rewrite"}, slipped = FALSE
  PROVE  \A l \in Data(p) : l \in Lines /\ at[l] <= file
<1>1. boot = "up"
  BY DEF IInv, BootInv
<1>2. stamp <= file + 1 /\ \A l \in turned : at[l] <= file
  BY <1>1 DEF IInv, FileInv
<1>3. Data(p) \subseteq Lines /\ \A l \in Data(p) : l \in turned \/ at[l] < stamp
  BY DEF IInv, TypeOK, PassedInv, Data, Sending
<1> QED
  BY <1>2, <1>3 DEF IInv, TypeOK

\* A write adds the present file to the data, of a line once, of the buffer once an exit.
LEMMA StepSent ==
  ASSUME IInv, NEW p \in Procs, pc[p] \in {"send", "rewrite"}, Unwritten, Sent(p)
  PROVE  WroteInv'
<1> USE DEF IInv
<1>1. /\ Cached' = Cached /\ UNCHANGED <<buf, at, file, slipped>>
      /\ \A q \in Procs : q # p => pc'[q] = pc[q]
      /\ \A l \in Data(p) \cap Lines : wrote'[l] = Append(wrote[l], file)
      /\ \A l \in Lines \ Data(p) : wrote'[l] = wrote[l]
  <2>1. Cached' = Cached /\ UNCHANGED <<buf, at, file, slipped>>
    BY DEF Unwritten, Cached, fileVars
  <2>2. \A q \in Procs : q # p => pc'[q] = pc[q]
    BY DEF Sent, Goto
  <2>3. wrote' = [l \in Lines |-> IF l \in Data(p) THEN Append(wrote[l], file) ELSE wrote[l]]
    BY DEF Sent
  <2> QED
    BY <2>1, <2>2, <2>3
<1>2. \A l \in Lines : /\ wrote[l] \in Seq(0 .. MaxClock)
                       /\ Append(wrote[l], file) \in Seq(0 .. MaxClock)
                       /\ Len(Append(wrote[l], file)) = Len(wrote[l]) + 1
                       /\ Len(wrote[l]) \in Nat
  BY AppendProperties, LenProperties DEF TypeOK
<1>3. ASSUME Cached
      PROVE  \A l \in Lines : /\ Len(wrote'[l]) <= Cardinality(Written2')
                              /\ wrote'[l] # <<>> => l \in buf'
  <2>1. p \in Exits /\ p \notin Lines
    BY <1>3, LogsAssumption DEF StagesInv, Procs
  <2>2. Data(p) = buf /\ pc' = [pc EXCEPT ![p] = "close"]
    BY <2>1 DEF Data, Sent, Goto
  <2>3. Written2' = Written2 \cup {p} /\ p \notin Written2
    BY <2>1, <2>2 DEF Written2, TypeOK, Procs
  <2>4. IsFiniteSet(Written2)
    BY LogsAssumption, FS_Subset DEF Written2
  <2>5. Cardinality(Written2') = Cardinality(Written2) + 1 /\ Cardinality(Written2) \in Nat
    BY <2>3, <2>4, FS_AddElement, FS_CardinalityType
  <2>6. ASSUME NEW l \in Lines
        PROVE  Len(wrote'[l]) <= Cardinality(Written2') /\ (wrote'[l] # <<>> => l \in buf')
    <3>1. Len(wrote[l]) <= Cardinality(Written2) /\ (wrote[l] # <<>> => l \in buf)
      BY <1>3, <2>6 DEF WroteInv
    <3>2. CASE l \in buf
      <4>1. Len(wrote'[l]) = Len(wrote[l]) + 1 /\ Len(wrote[l]) \in Nat
        BY <1>1, <1>2, <2>2, <3>2
      <4> QED
        BY <1>1, <2>5, <3>1, <3>2, <4>1
    <3>3. CASE l \notin buf
      BY <1>1, <1>2, <2>2, <2>5, <3>1, <3>3
    <3> QED
      BY <3>2, <3>3
  <2> QED
    BY <2>6
<1>4. ASSUME ~Cached
      PROVE  /\ buf' = {}
             /\ \A l \in Lines : IF pc'[l] = "done" THEN Len(wrote'[l]) <= 1
                                 ELSE wrote'[l] = <<>>
  <2>1. p \in Lines
    BY <1>4 DEF StagesInv, Procs
  <2>2. Data(p) = {p} /\ pc'[p] = "done" /\ wrote[p] = <<>> /\ buf = {}
    <3>1. Data(p) = {p}
      BY <2>1 DEF Data
    <3>2. pc'[p] = "done"
      BY <2>1 DEF Sent, Goto, TypeOK
    <3>3. wrote[p] = <<>> /\ buf = {}
      BY <1>4, <2>1 DEF WroteInv
    <3> QED
      BY <3>1, <3>2, <3>3
  <2>3. Len(wrote'[p]) = 1
    <3>1. Len(wrote'[p]) = Len(wrote[p]) + 1
      BY <1>1, <1>2, <2>1, <2>2
    <3> QED
      BY <2>2, <3>1, EmptySeq
  <2>4. \A l \in Lines : l # p => pc'[l] = pc[l] /\ wrote'[l] = wrote[l]
    BY <1>1, <2>2 DEF Procs
  <2> QED
    BY <1>1, <1>4, <2>2, <2>3, <2>4 DEF WroteInv
<1>5. ASSUME slipped = FALSE, NEW l \in Lines, NEW i \in DOMAIN wrote'[l]
      PROVE  wrote'[l][i] >= at[l]
  <2>1. \A j \in DOMAIN wrote[l] : wrote[l][j] >= at[l]
    BY <1>5 DEF WroteInv, RightFile
  <2>2. CASE l \in Data(p)
    <3>1. at[l] <= file
      BY <1>5, <2>2, FileForData
    <3>2. wrote'[l] = Append(wrote[l], file) /\ wrote[l] \in Seq(0 .. MaxClock)
      BY <1>1, <1>2, <2>2
    <3>3. i = Len(wrote[l]) + 1 \/ i \in DOMAIN wrote[l]
      BY <3>2, <1>5, AppendProperties, LenProperties DEF TypeOK
    <3>4. CASE i = Len(wrote[l]) + 1
      BY <3>1, <3>2, <3>4, AppendProperties DEF TypeOK
    <3>5. CASE i \in DOMAIN wrote[l]
      <4>1. wrote'[l][i] = wrote[l][i]
        BY <3>2, <3>5, AppendProperties, LenProperties DEF TypeOK
      <4> QED
        BY <2>1, <3>5, <4>1
    <3> QED
      BY <3>3, <3>4, <3>5
  <2>3. CASE l \notin Data(p)
    BY <1>1, <1>5, <2>1, <2>3
  <2> QED
    BY <2>2, <2>3
<1>6. ~slipped' => slipped = FALSE
  BY <1>1, Zenon DEF TypeOK
<1>7. RightFile'
  BY <1>1, <1>5, <1>6 DEF RightFile
<1> QED
  BY <1>1, <1>3, <1>4, <1>7 DEF WroteInv

\* A step of no Write writes nothing.
LEMMA StepWrote == IInv /\ [Next]_vars => WroteInv'
<1> SUFFICES ASSUME IInv, [Next]_vars PROVE WroteInv'
  OBVIOUS
<1> USE LogsAssumption DEF IInv, Procs, Goto, fileVars
<1>0. slipped' \in BOOLEAN
  BY StepTyped DEF TypeOK
<1>1. ASSUME Tick PROVE WritesNothing
  BY <1>1 DEF Tick, WritesNothing, WroteInv, Written2
<1>2. ASSUME Fault PROVE WritesNothing
  BY <1>2 DEF Fault, WritesNothing, WroteInv, Written2
<1>3. ASSUME OpenFirst PROVE WritesNothing
  BY <1>3 DEF OpenFirst, WritesNothing, WroteInv, Written2
<1>4. ASSUME InitStamp PROVE WritesNothing
  <2>1. UNCHANGED <<config, wrote, buf, pc, at>> /\ boot = "stamp"
    BY <1>4 DEF InitStamp
  <2>2. \A l \in Lines : wrote[l] = <<>>
    <3>1. \A l \in Lines : pc[l] = "new"
      BY <2>1 DEF BootInv
    <3> QED
      BY <3>1, NewUnwritten DEF IInv
  <2> QED
    BY <2>1, <2>2 DEF WritesNothing, WroteInv, Written2
<1>5. ASSUME NEW v \in Levels, ChangeErrLevel(v) PROVE WritesNothing
  BY <1>5 DEF ChangeErrLevel, WritesNothing, WroteInv, Written2
<1>6. ASSUME NEW l \in Lines, Put(l) PROVE WritesNothing
  <2>1. UNCHANGED <<config, wrote, buf, slipped>> /\ pc[l] = "new" /\ wrote[l] = <<>>
    BY <1>6, NewUnwritten DEF Put
  <2>2. \A p \in Procs : p # l => pc'[p] = pc[p]
    BY <1>6 DEF Put, TypeOK
  <2>3. \A r \in Lines : r # l => at'[r] = at[r]
    BY <1>6 DEF Put, TypeOK
  <2> QED
    BY <2>1, <2>2, <2>3 DEF WritesNothing, WroteInv, Written2
<1>7. ASSUME NEW e \in Exits, Exit(e) PROVE WritesNothing
  <2>1. UNCHANGED <<config, wrote, buf, slipped, at>> /\ pc[e] = "new"
    BY <1>7 DEF Exit
  <2>2. \A p \in Procs : p # e => pc'[p] = pc[p]
    BY <1>7 DEF Exit, TypeOK
  <2>3. Cached => pc'[e] = "send"
    BY <1>7 DEF Exit, TypeOK
  <2> QED
    BY <2>1, <2>2, <2>3 DEF WritesNothing, WroteInv, Written2
<1>8. ASSUME CloseLate PROVE WritesNothing
  BY <1>8 DEF CloseLate, WritesNothing, WroteInv, Written2
<1>9. ASSUME NEW p \in Lines, Check(p) PROVE WritesNothing
  BY <1>9 DEF Check, WritesNothing, WroteInv, Written2
<1>10. ASSUME NEW p \in Lines, Rotate(p) PROVE WritesNothing
  BY <1>10 DEF Rotate, WritesNothing, TypeOK, WroteInv, Written2
<1>11. ASSUME NEW p \in Lines, UpStamp(p) PROVE WritesNothing
  BY <1>11 DEF UpStamp, WritesNothing, WroteInv, Written2
<1>12. ASSUME NEW p \in Lines, SendCache(p) PROVE WritesNothing
  <2>1. UNCHANGED <<config, wrote, slipped, at>> /\ pc[p] = "append" /\ Cached
    BY <1>12 DEF SendCache, StagesInv, Rotating, Sending
  <2>2. buf \subseteq buf' /\ \A q \in Procs : q # p => pc'[q] = pc[q]
    BY <1>12 DEF SendCache, TypeOK
  <2> QED
    BY <2>1, <2>2 DEF WritesNothing, Written2
<1>13. ASSUME NEW p \in Procs, Name(p) PROVE WritesNothing
  BY <1>13 DEF Name, WritesNothing, WroteInv, Written2
<1>14. ASSUME NEW p \in Procs, Swap(p) PROVE WritesNothing
  <2>1. UNCHANGED <<config, wrote, buf, at>>
    BY <1>14, SwapCases DEF Unswapped
  <2>2. slipped' = FALSE => slipped = FALSE
    BY <1>14, SwapCases
  <2>3. \A q \in Procs : \/ pc'[q] = pc[q]
                         \/ pc[q] \in {"swap", "reswap"} /\ pc'[q] \in {"up", "rewrite"}
    BY <1>14, SwapCases DEF TypeOK
  <2> QED
    BY <2>1, <2>2, <2>3 DEF WritesNothing, WroteInv, Written2
<1>15. ASSUME NEW p \in Procs, Write(p) PROVE WroteInv'
  <2>1. pc[p] \in {"send", "rewrite"} /\ Unwritten
    BY <1>15, WriteCases
  <2>2. CASE Sent(p)
    BY <2>1, <2>2, StepSent
  <2>3. CASE wrote' = wrote /\ pc' = [pc EXCEPT ![p] = "rename"]
    <3>1. WritesNothing
      BY <2>1, <2>3 DEF Unwritten, WritesNothing, WroteInv, Written2
    <3> QED
      BY <1>0, <3>1, NothingWritten
  <2> QED
    BY <1>15, <2>2, <2>3, WriteCases
<1>16. ASSUME NEW p \in Exits, Close(p) PROVE WritesNothing
  BY <1>16 DEF Close, WritesNothing, WroteInv, Written2
<1>17. ASSUME UNCHANGED vars PROVE WritesNothing
  BY <1>17 DEF vars, WritesNothing, WroteInv, Written2
<1>18. CASE WritesNothing
  BY <1>0, <1>18, NothingWritten
<1> QED
  BY <1>1, <1>2, <1>3, <1>4, <1>5, <1>6, <1>7, <1>8, <1>9, <1>10, <1>11, <1>12, <1>13, <1>14, <1>15, <1>16, <1>17, <1>18 DEF Next, Step

-----------------------------------------------------------------------------

\* NewLogs has not begun, and nothing was put.
LEMMA InitIInv == Init => IInv
<1> SUFFICES ASSUME Init PROVE IInv
  OBVIOUS
<1>1. TypeOK
  <2>1. 0 \in 0 .. MaxClock /\ 0 \in 0 .. MaxClock + 1 /\ 4 \in 1 .. 4 /\ 0 \in 0 .. 4
    BY LogsAssumption
  <2>2. wrote \in [Lines -> Seq(0 .. MaxClock)]
    BY EmptySeq DEF Init
  <2>3. /\ pc \in [Procs -> Where] /\ at \in [Lines -> 0 .. MaxClock]
        /\ name \in [Procs -> 0 .. MaxClock] /\ num \in [Procs -> 0 .. 4]
    BY <2>1 DEF Init, Where
  <2> QED
    BY <2>1, <2>2, <2>3 DEF Init, TypeOK
<1>2. StagesInv /\ BootInv /\ MutexInv /\ ClockInv /\ NameInv /\ PassedInv /\ FileInv
  BY LogsAssumption DEF Init, StagesInv, BootInv, MutexInv, MutexKept, ClockInv, NameInv,
     PassedInv, FileInv, Procs, Sending, Rotating, Cached
<1>3. Written2 = {} /\ \A l \in Lines : wrote[l] = <<>> /\ Len(wrote[l]) = 0
  BY EmptySeq DEF Init, Written2, Procs
<1>4. WroteInv
  BY <1>3, FS_EmptySet DEF Init, WroteInv, RightFile, Procs
<1> QED
  BY <1>1, <1>2, <1>4 DEF IInv

\* The invariant holds of every log, in every order of its puts and exits.
THEOREM Inductive == Spec => []IInv
<1>1. IInv /\ [Next]_vars => IInv'
  BY StepTyped, StepStages, StepBoot, StepMutex, StepClock, StepFile, StepName, StepPassed,
     StepWrote DEF IInv
<1> QED
  BY <1>1, InitIInv, PTL DEF Spec

\* Every variable of the log keeps to its range: stamp runs no further than one period
\* ahead of the clock (upStamp), and reset counts to four (LogData.function is nil).
THEOREM Typing == Spec => []TypeOK
<1>1. IInv => TypeOK
  BY DEF IInv
<1> QED
  BY <1>1, Inductive, PTL

\* check keeps mu for ever only under a put that waits for itself (sendCache) or that
\* waited for the mutex while another went over to the next file.
THEOREM MutexKeptHolds == Spec => []MutexKept
<1>1. IInv => MutexKept
  BY DEF IInv, MutexInv
<1> QED
  BY <1>1, Inductive, PTL

\* No line lands in a file of a period before its own (check, open, sendChann, reset),
\* but for a boundary that NewLogs or reset meets half-way.
THEOREM RightFileHolds == Spec => []RightFile
<1>1. IInv => RightFile
  BY DEF IInv, WroteInv
<1> QED
  BY <1>1, Inductive, PTL

\* What sendCache is done with is in the buffer, and stays there: nothing resets it.
Buffered == Cached => \A l \in Lines : pc[l] = "done" => l \in buf

\* A step that finishes a line of a cached log is one of sendCache.
LEMMA StepBuffered ==
  ASSUME IInv, Buffered, [Next]_vars
  PROVE  Buffered'
<1> SUFFICES ASSUME Cached PROVE \A l \in Lines : pc'[l] = "done" => l \in buf'
  <2>1. Cached' = Cached
    BY Zenon DEF Next, Step, Cached, Tick, Fault, OpenFirst, InitStamp, ChangeErrLevel, Put, Exit,
       CloseLate, Check, Rotate, UpStamp, SendCache, Name, Swap, Write, Close, vars
  <2> QED
    BY <2>1 DEF Buffered
<1>1. TypeOK /\ StagesInv /\ \A l \in Lines : pc[l] = "done" => l \in buf
  BY DEF IInv, Buffered
<1>2. CASE UNCHANGED <<pc, buf>>
  BY <1>1, <1>2
<1>3. ASSUME NEW p \in Procs, NEW w \in Where, w # "done" \/ p \in Exits,
             pc' = [pc EXCEPT ![p] = w], buf' = buf
      PROVE  \A l \in Lines : pc'[l] = "done" => l \in buf'
  BY <1>1, <1>3, LogsAssumption DEF TypeOK
<1>4. ASSUME NEW l \in Lines, Put(l) \/ Check(l) \/ Rotate(l) \/ UpStamp(l)
      PROVE  \A r \in Lines : pc'[r] = "done" => r \in buf'
  <2>1. buf' = buf /\ \E w \in Where \ {"done"} : pc' = [pc EXCEPT ![l] = w]
    BY <1>4, Zenon DEF Put, Check, Rotate, UpStamp, Goto, Sends, Where
  <2> QED
    BY <1>3, <2>1 DEF Procs
<1>5. ASSUME NEW l \in Lines, SendCache(l) PROVE \A r \in Lines : pc'[r] = "done" => r \in buf'
  BY <1>1, <1>5 DEF SendCache, Goto, TypeOK, Procs
<1>6. ASSUME NEW p \in Procs, Name(p) PROVE \A r \in Lines : pc'[r] = "done" => r \in buf'
  <2>1. buf' = buf /\ \E w \in Where \ {"done"} : pc' = [pc EXCEPT ![p] = w]
    BY <1>6, Zenon DEF Name, Goto, Where
  <2> QED
    BY <1>3, <2>1
<1>7. ASSUME NEW p \in Procs, Swap(p) PROVE \A r \in Lines : pc'[r] = "done" => r \in buf'
  <2>1. buf' = buf /\ (pc' = pc \/ \E w \in Where \ {"done"} : pc' = [pc EXCEPT ![p] = w])
    BY <1>1, <1>7, SwapCases DEF Unswapped, Where
  <2> QED
    BY <1>2, <1>3, <2>1
<1>8. ASSUME NEW p \in Procs, Write(p) PROVE \A r \in Lines : pc'[r] = "done" => r \in buf'
  <2>1. p \in Exits /\ buf' = buf
    BY <1>1, <1>8, WriteCases DEF StagesInv, Procs, Unwritten
  <2>2. \E w \in Where : pc' = [pc EXCEPT ![p] = w]
    BY <1>8, <2>1, WriteCases DEF Sent, Goto, Where
  <2> QED
    BY <1>3, <2>1, <2>2
<1>9. ASSUME NEW e \in Exits, Exit(e) \/ Close(e) PROVE \A r \in Lines : pc'[r] = "done" => r \in buf'
  <2>1. buf' = buf /\ \E w \in Where : pc' = [pc EXCEPT ![e] = w]
    BY <1>9, Zenon DEF Exit, Close, Goto, Where
  <2> QED
    BY <1>3, <2>1 DEF Procs
<1>10. CASE Tick \/ Fault \/ OpenFirst \/ InitStamp \/ CloseLate \/ \E v \in Levels : ChangeErrLevel(v)
  BY <1>2, <1>10 DEF Tick, Fault, OpenFirst, InitStamp, CloseLate, ChangeErrLevel
<1>11. CASE UNCHANGED vars
  BY <1>2, <1>11 DEF vars
<1> QED
  BY <1>4, <1>5, <1>6, <1>7, <1>8, <1>9, <1>10, <1>11 DEF Next, Step

\* An exit that is done with sendChann has written the buffer.
LEMMA ExitWrites ==
  ASSUME IInv, Buffered, [Next]_vars, Cached, NEW e \in Exits,
         pc[e] \notin {"close", "done"}, pc'[e] \in {"close", "done"},
         NEW l \in Lines, pc[l] = "done"
  PROVE  wrote'[l] # <<>>
<1>1. TypeOK /\ e \in Procs /\ e \notin Lines /\ l \in buf /\ pc[e] \in Where
  BY LogsAssumption DEF IInv, Buffered, TypeOK, Procs
<1>2. pc' # pc
  BY <1>1
<1>3. ASSUME NEW p \in Procs, NEW w \in Where \ {"close", "done"}, pc' = [pc EXCEPT ![p] = w] PROVE FALSE
  BY <1>1, <1>3 DEF TypeOK
<1>4. ASSUME NEW p \in Lines, NEW w \in Where, pc' = [pc EXCEPT ![p] = w] PROVE FALSE
  BY <1>1, <1>4 DEF TypeOK
<1>5. ASSUME NEW p \in Exits, Close(p) PROVE FALSE
  BY <1>1, <1>5 DEF Close, Goto, TypeOK
<1>6. ASSUME NEW p \in Lines, Put(p) \/ Check(p) \/ Rotate(p) \/ UpStamp(p) \/ SendCache(p) PROVE FALSE
  <2>1. pc' = pc \/ \E w \in Where : pc' = [pc EXCEPT ![p] = w]
    BY <1>6, Zenon DEF Put, Check, Rotate, UpStamp, SendCache, Goto, Sends, Where
  <2> QED
    BY <1>2, <1>4, <2>1
<1>7. ASSUME NEW p \in Exits, Exit(p) PROVE FALSE
  <2>1. pc' = [pc EXCEPT ![p] = "send"] /\ "send" \in Where \ {"close", "done"}
    BY <1>7 DEF Exit, Goto, Where
  <2> QED
    BY <1>3, <2>1 DEF Procs
<1>8. ASSUME NEW p \in Procs, Name(p) \/ Swap(p) PROVE FALSE
  <2>1. CASE Name(p)
    <3>1. \E w \in Where \ {"close", "done"} : pc' = [pc EXCEPT ![p] = w]
      BY <2>1, Zenon DEF Name, Goto, Where
    <3> QED
      BY <1>3, <3>1
  <2>2. CASE Swap(p)
    <3>1. pc' = pc \/ \E w \in Where \ {"close", "done"} : pc' = [pc EXCEPT ![p] = w]
      BY <1>1, <2>2, SwapCases DEF Where
    <3> QED
      BY <1>2, <1>3, <3>1
  <2> QED
    BY <1>8, <2>1, <2>2
<1>9. ASSUME NEW p \in Procs, Write(p) PROVE wrote'[l] # <<>>
  <2>1. CASE Sent(p)
    <3>1. p = e
      BY <1>1, <2>1 DEF Sent, Goto, TypeOK
    <3>2. wrote'[l] = Append(wrote[l], file)
      BY <1>1, <2>1, <3>1 DEF Sent, Data
    <3>3. wrote[l] \in Seq(0 .. MaxClock) /\ file \in 0 .. MaxClock
      BY <1>1 DEF TypeOK
    <3>4. Len(wrote'[l]) > 0
      BY <3>2, <3>3, AppendProperties, LenProperties
    <3> QED
      BY <3>4, EmptySeq
  <2>2. CASE pc' = [pc EXCEPT ![p] = "rename"]
    BY <1>3, <2>2 DEF Where
  <2> QED
    BY <1>9, <2>1, <2>2, WriteCases
<1>10. CASE Tick \/ Fault \/ OpenFirst \/ InitStamp \/ CloseLate \/ \E v \in Levels : ChangeErrLevel(v)
  BY <1>2, <1>10 DEF Tick, Fault, OpenFirst, InitStamp, CloseLate, ChangeErrLevel
<1>11. CASE UNCHANGED vars
  BY <1>2, <1>11 DEF vars
<1> QED
  BY <1>5, <1>6, <1>7, <1>8, <1>9, <1>10, <1>11 DEF Next, Step

\* exit has written every line that sendCache has buffered when it goes on to close the
\* file, whatever failed on the way.
THEOREM ExitSavesHolds == Spec => ExitSaves
<1>1. Init => IInv /\ Buffered
  <2>1. Init => Buffered
    BY DEF Init, Buffered, Procs
  <2> QED
    BY <2>1, InitIInv
<1>2. IInv /\ Buffered /\ [Next]_vars => (IInv /\ Buffered)'
  BY StepTyped, StepStages, StepBoot, StepMutex, StepClock, StepFile, StepName, StepPassed,
     StepWrote, StepBuffered DEF IInv
<1>3. IInv /\ Buffered /\ [Next]_vars =>
        [\A e \in Exits : Cached /\ pc[e] \notin {"close", "done"} /\ pc'[e] \in {"close", "done"} =>
           \A l \in Lines : pc[l] = "done" => wrote'[l] # <<>>]_vars
  BY ExitWrites
<1> QED
  BY <1>1, <1>2, <1>3, PTL DEF Spec, ExitSaves

\* sendChann and reset write a line once, whatever fails, and exit a cached line once for
\* each call of it.
THEOREM WrittenOnceHolds == Spec => []WrittenOnce
<1>1. ASSUME IInv, Cached, NEW l \in Lines PROVE Len(wrote[l]) <= Cardinality(Saved)
  <2>1. IsFiniteSet(Saved) /\ Written2 \subseteq Saved
    BY LogsAssumption, FS_Subset DEF Written2, Saved
  <2>2. /\ Cardinality(Written2) <= Cardinality(Saved) /\ Cardinality(Saved) \in Nat
        /\ Cardinality(Written2) \in Nat
    BY <2>1, FS_Subset, FS_CardinalityType
  <2>3. Len(wrote[l]) <= Cardinality(Written2) /\ Len(wrote[l]) \in Nat
    BY <1>1, LenProperties DEF IInv, WroteInv
  <2> QED
    BY <2>2, <2>3
<1>2. ASSUME IInv, ~Cached, NEW l \in Lines PROVE Len(wrote[l]) <= 1
  BY <1>2, EmptySeq DEF IInv, WroteInv
<1>3. IInv => WrittenOnce
  BY <1>1, <1>2 DEF WrittenOnce
<1> QED
  BY <1>3, Inductive, PTL

=============================================================================
