--------------------------------- MODULE Logs ---------------------------------
(***************************************************************************)
(* The log (logs/): lines put by any goroutine, each written by a goroutine *)
(* of its own, to a file per period or to a buffer that is to be written     *)
(* later; check, which every put calls, goes over to the next file; reset    *)
(* opens the file again when a write fails; exit saves and closes.           *)
(*                                                                          *)
(* flock is taken and given back around one operation at each of its uses,   *)
(* which makes these operations single steps here.  mu is a variable: it is  *)
(* held across steps, and not always given back.  Time is counted in periods *)
(* of LogStruct.FileTime.                                                    *)
(***************************************************************************)
EXTENDS Integers, Sequences, FiniteSets

CONSTANTS
  Lines,    \* the calls of WriteError and the like, one line each
  Level,    \* the level of each: 1 debug to 4 error (fatal and panic are 4 too)
  Exits,    \* the calls of SaveAndExit, SignalKill, WritePanic
  Configs,  \* the settings NewLogs may be called with
  Levels,   \* the values ChangeErrLevel may be called with
  BufSize,  \* LogData.size, in lines
  MaxClock, \* the bound on the clock
  None      \* nobody

\* "nil": NewLogs(nil), "cached": Cache or CacheSize given, "file": neither.
ASSUME LogsAssumption ==
  /\ Level \in [Lines -> 1 .. 4] /\ Levels \subseteq 1 .. 4
  /\ Configs \subseteq {"nil", "cached", "file"}
  /\ BufSize \in Nat \ {0} /\ MaxClock \in Nat
  /\ Lines \cap Exits = {} /\ IsFiniteSet(Exits) /\ None \notin Lines \cup Exits

VARIABLES
  clock,   \* the period the time is in
  config,  \* what NewLogs was called with
  boot,    \* where NewLogs is
  level,   \* LogData.level
  file,    \* the period in the name of LogData.file
  live,    \* it is not closed
  stamp,   \* LogData.stamp
  mu,      \* the holder of LogData.mu
  buf,     \* LogData.buf: the lines in it
  doomed,  \* a goroutine that check started is to close it
  pc,      \* where each line and each call of exit is
  at,      \* the period of the time of each line
  name,    \* the file name that open has computed, for each goroutine in it
  num,     \* the argument num of reset
  wrote,   \* the files each line was written to
  disk,    \* whether writes succeed: it turns bad once, and may be mended
  slipped, \* an open was cut by a boundary between its name, or NewLogs's, and its use
  turned,  \* the puts that went over to another file
  crashed  \* a goroutine panicked

fileVars == <<file, live, doomed>>
vars == <<clock, config, boot, level, fileVars, stamp, mu, buf, pc, at, name,
          num, wrote, disk, slipped, turned, crashed>>

Procs == Lines \cup Exits
Cached == config # "file"

\* check: it has compared stamp; lock: it waits for mu; name, swap, up: it rotates.
\* append: sendCache; send: sendChann; rename, reswap, rewrite: reset.
\* stuck: in a second Lock of mu, which it holds.
Where == {"new", "dropped", "check", "lock", "name", "swap", "up", "append", "send",
          "rename", "reswap", "rewrite", "close", "stuck", "done"}

TypeOK ==
  /\ clock \in 0 .. MaxClock /\ config \in Configs /\ boot \in {"open", "stamp", "up"}
  /\ level \in 1 .. 4 /\ file \in 0 .. MaxClock /\ live \in BOOLEAN
  /\ stamp \in 0 .. MaxClock + 1 /\ mu \in Procs \cup {None} /\ buf \subseteq Lines
  /\ doomed \in BOOLEAN /\ pc \in [Procs -> Where]
  /\ at \in [Lines -> 0 .. MaxClock] /\ name \in [Procs -> 0 .. MaxClock]
  /\ num \in [Procs -> 0 .. 4] /\ wrote \in [Lines -> Seq(0 .. MaxClock)]
  /\ disk \in {"good", "bad", "mended"} /\ slipped \in BOOLEAN /\ turned \subseteq Lines /\ crashed \in BOOLEAN

-----------------------------------------------------------------------------

Init ==
  /\ clock = 0 /\ config \in Configs /\ boot = "open" /\ level = 4
  /\ file = 0 /\ live = FALSE /\ doomed = FALSE /\ stamp = 0 /\ mu = None /\ buf = {}
  /\ pc = [p \in Procs |-> "new"] /\ at = [l \in Lines |-> 0]
  /\ name = [p \in Procs |-> 0] /\ num = [p \in Procs |-> 0]
  /\ wrote = [l \in Lines |-> <<>>]
  /\ disk = "good" /\ slipped = FALSE /\ turned = {} /\ crashed = FALSE

Goto(p, w) == pc' = [pc EXCEPT ![p] = w]

Tick ==
  /\ clock < MaxClock
  /\ clock' = clock + 1
  /\ UNCHANGED <<config, boot, level, fileVars, stamp, mu, buf, pc, at, name, num,
                 wrote, disk, slipped, turned, crashed>>

Fault ==
  /\ boot = "up" /\ disk # "mended"
  /\ disk' = IF disk = "good" THEN "bad" ELSE "mended"
  /\ UNCHANGED <<clock, config, boot, level, fileVars, stamp, mu, buf, pc, at, name, num,
                 wrote, slipped, turned, crashed>>

\* NewLogs opens the file of the period it reads the clock in.
OpenFirst ==
  /\ boot = "open"
  /\ boot' = "stamp" /\ file' = clock /\ live' = TRUE
  /\ UNCHANGED <<clock, config, level, doomed, stamp, mu, buf, pc, at, name, num, wrote,
                 disk, slipped, turned, crashed>>

\* initStamp reads the clock again.
InitStamp ==
  /\ boot = "stamp"
  /\ boot' = "up" /\ stamp' = clock + 1 /\ slipped' = (clock # file)
  /\ UNCHANGED <<clock, config, level, fileVars, mu, buf, pc, at, name, num, wrote,
                 disk, turned, crashed>>

\* A level that no line will be compared with is not told apart.
ChangeErrLevel(v) ==
  /\ boot = "up" /\ \E l \in Lines : pc[l] = "new"
  /\ level' = v
  /\ UNCHANGED <<clock, config, boot, fileVars, stamp, mu, buf, pc, at, name, num,
                 wrote, disk, slipped, turned, crashed>>

\* WriteError and WriteFatal do not look at the level.
Passes(l) == Level[l] = 4 \/ level <= Level[l]

\* WriteDebug to WritePanicf up to the call of check: put takes the time once.
Put(l) ==
  /\ boot = "up" /\ pc[l] = "new"
  /\ at' = [at EXCEPT ![l] = clock]
  /\ Goto(l, IF Passes(l) THEN "check" ELSE "dropped")
  /\ UNCHANGED <<clock, config, boot, level, fileVars, stamp, mu, buf, name, num,
                 wrote, disk, slipped, turned, crashed>>

Sends == IF Cached THEN "append" ELSE "send"

\* A variant, for RightFile: the boundary itself belongs to the period before.
CheckLate(l) ==
  /\ pc[l] = "check"
  /\ Goto(l, IF stamp < at[l] THEN "lock" ELSE Sends)
  /\ UNCHANGED <<clock, config, boot, level, fileVars, stamp, mu, buf, at, name, num,
                 wrote, disk, slipped, turned, crashed>>

\* check compares stamp without the mutex.
Check(l) ==
  /\ pc[l] = "check"
  /\ Goto(l, IF stamp <= at[l] THEN "lock" ELSE Sends)
  /\ UNCHANGED <<clock, config, boot, level, fileVars, stamp, mu, buf, at, name, num,
                 wrote, disk, slipped, turned, crashed>>

\* With the mutex it compares again, and returns with it when another was faster.  A
\* cached log now calls sendCache, which waits for the mutex; the others start the
\* goroutine that closes the present file later.
Rotate(l) ==
  /\ l \in Lines /\ pc[l] = "lock" /\ mu = None
  /\ mu' = l
  /\ IF stamp > at[l] THEN /\ Goto(l, Sends) /\ UNCHANGED doomed
     ELSE IF Cached   THEN /\ Goto(l, "stuck") /\ UNCHANGED doomed
     ELSE /\ Goto(l, "name") /\ doomed' = TRUE
  /\ UNCHANGED <<clock, config, boot, level, file, live, stamp, buf, at, name, num, wrote,
                 disk, slipped, turned, crashed>>

\* open makes the name from the clock before it waits for flock.
Name(p) ==
  /\ pc[p] \in {"name", "rename"}
  /\ name' = [name EXCEPT ![p] = clock]
  /\ Goto(p, IF pc[p] = "name" THEN "swap" ELSE "reswap")
  /\ UNCHANGED <<clock, config, boot, level, fileVars, stamp, mu, buf, at, num, wrote,
                 disk, slipped, turned, crashed>>

\* The rest of open: it closes the present file and opens the other, or panics.
Swap(p) ==
  /\ pc[p] \in {"swap", "reswap"}
  /\ \/ /\ file' = name[p] /\ live' = TRUE /\ doomed' = FALSE
        /\ slipped' = (slipped \/ (pc[p] = "reswap" /\ name[p] # clock))
        /\ Goto(p, IF pc[p] = "swap" THEN "up" ELSE "rewrite")
        /\ name' = [name EXCEPT ![p] = 0]
        /\ UNCHANGED crashed
     \/ /\ disk = "bad" /\ crashed' = TRUE /\ live' = FALSE
        /\ UNCHANGED <<file, doomed, name, slipped, pc>>
  /\ UNCHANGED <<clock, config, boot, level, disk, stamp, mu, buf, at, num, wrote, turned>>

\* A variant, for MutexKept: check forgets the Unlock after upStamp.
UpStampLocked(l) ==
  /\ pc[l] = "up"
  /\ stamp' = stamp + 1 /\ turned' = turned \cup {l}
  /\ Goto(l, Sends)
  /\ UNCHANGED <<clock, config, boot, level, fileVars, mu, buf, at, name, num, wrote,
                 disk, slipped, crashed>>

\* upStamp adds one period, however long no line came.
UpStamp(l) ==
  /\ pc[l] = "up"
  /\ stamp' = stamp + 1 /\ mu' = None /\ turned' = turned \cup {l}
  /\ Goto(l, Sends)
  /\ UNCHANGED <<clock, config, boot, level, fileVars, buf, at, name, num, wrote,
                 disk, slipped, crashed>>

-----------------------------------------------------------------------------

\* sendCache.  A buffer that is full makes it call itself with the mutex held; the
\* settings nil have no buffer.
Fills(l) == Cardinality(buf \cup {l}) >= BufSize

SendCache(l) ==
  /\ pc[l] = "append" /\ mu = None
  /\ IF config = "nil"
     THEN crashed' = TRUE /\ UNCHANGED <<buf, mu, pc>>
     ELSE /\ buf' = buf \cup {l}
          /\ mu' = IF Fills(l) THEN l ELSE None
          /\ Goto(l, IF Fills(l) THEN "stuck" ELSE "done")
          /\ UNCHANGED crashed
  /\ UNCHANGED <<clock, config, boot, level, fileVars, stamp, at, name, num, wrote,
                 disk, slipped, turned>>

\* What sendChann was given: a line, or the buffer, which stands while exit has mu.
Data(p) == IF p \in Lines THEN {p} ELSE buf

\* A variant, for WrittenOnce: reset calls itself whether the write failed or not.
SentAgain(p) ==
  /\ wrote' = [l \in Lines |-> IF l \in Data(p) THEN Append(wrote[l], file) ELSE wrote[l]]
  /\ Goto(p, IF pc[p] = "rewrite" THEN "rename" ELSE IF p \in Lines THEN "done" ELSE "close")
  /\ mu' = IF p \in Exits THEN None ELSE mu

\* Sent: sendChann returns.  exit goes on with the mutex given back.
Sent(p) ==
  /\ wrote' = [l \in Lines |-> IF l \in Data(p) THEN Append(wrote[l], file)
                               ELSE wrote[l]]
  /\ Goto(p, IF p \in Lines THEN "done" ELSE "close")
  /\ mu' = IF p \in Exits THEN None ELSE mu

\* A variant, for Written and ExitSaves: sendChann ignores the error.
GivesUp(p) == Goto(p, "done") /\ UNCHANGED num
\* sendChann hands the data to reset.
FirstFailure(p) == Goto(p, "rename") /\ num' = [num EXCEPT ![p] = 1]

\* A variant, for TypeOK: one try more.
Tries5 == 5
\* The failure of reset that calls LogData.function, which nothing sets.
Tries == 4

\* sendChann up to the call of reset, and reset after its open.  A write to a closed
\* file fails too.
Write(p) ==
  /\ pc[p] \in {"send", "rewrite"}
  /\ IF live /\ disk # "bad"
     THEN Sent(p) /\ num' = [num EXCEPT ![p] = 0] /\ UNCHANGED crashed
     ELSE /\ UNCHANGED <<wrote, mu>>
          /\ IF pc[p] = "send" THEN FirstFailure(p) /\ UNCHANGED crashed
             ELSE /\ crashed' = (num[p] >= Tries)
                  /\ num' = [num EXCEPT ![p] = IF @ >= Tries THEN @ ELSE @ + 1]
                  /\ Goto(p, "rename")
  /\ UNCHANGED <<clock, config, boot, level, fileVars, disk, stamp, buf, at, name, slipped, turned>>

\* The goroutine that check started closes what was the file then; open has closed the
\* files before the present one.
CloseLate ==
  /\ doomed
  /\ doomed' = FALSE /\ live' = FALSE
  /\ UNCHANGED <<clock, config, boot, level, file, stamp, mu, buf, pc, at, name, num,
                 wrote, disk, slipped, turned, crashed>>

\* exit: a cached log writes its buffer, which stays as it is, with mu held.
Exit(e) ==
  /\ boot = "up" /\ pc[e] = "new"
  /\ IF Cached THEN mu = None /\ mu' = e /\ Goto(e, "send")
     ELSE Goto(e, "close") /\ UNCHANGED mu
  /\ UNCHANGED <<clock, config, boot, level, fileVars, stamp, buf, at, name, num,
                 wrote, disk, slipped, turned, crashed>>

Close(e) ==
  /\ pc[e] = "close"
  /\ live' = FALSE /\ Goto(e, "done")
  /\ UNCHANGED <<clock, config, boot, level, file, doomed, stamp, mu, buf, at, name, num,
                 wrote, disk, slipped, turned, crashed>>

\* What a goroutine that was started does next.
Step(p) ==
  \/ p \in Lines /\ (Check(p) \/ Rotate(p) \/ UpStamp(p) \/ SendCache(p))
  \/ Name(p) \/ Swap(p) \/ Write(p)
  \/ p \in Exits /\ Close(p)

Next ==
  /\ ~crashed
  /\ \/ Tick \/ Fault \/ OpenFirst \/ InitStamp
     \/ \E v \in Levels : ChangeErrLevel(v)
     \/ \E l \in Lines : Put(l)
     \/ \E e \in Exits : Exit(e)
     \/ \E p \in Procs : Step(p)
     \/ CloseLate

Spec == Init /\ [][Next]_vars

\* The scheduler runs every goroutine that can; nobody has to put a line or to exit.
FairSpec ==
  /\ Spec /\ WF_vars(~crashed /\ OpenFirst) /\ WF_vars(~crashed /\ InitStamp)
  /\ \A p \in Procs : WF_vars(~crashed /\ Step(p))

-----------------------------------------------------------------------------

\* A line lands in no file of a period before its own: check opens before it moves
\* stamp, so that whoever sees the new stamp writes to the new file.  The exceptions
\* are the boundaries that NewLogs and reset may meet half-way.
RightFile ==
  ~slipped => \A l \in Lines : \A i \in DOMAIN wrote[l] : wrote[l][i] >= at[l]

\* sendChann and reset write a line once, whatever fails; exit leaves the buffer as it
\* is, so a cached line is written once by each exit that came after it.
Saved == {e \in Exits : pc[e] # "new"}
WrittenOnce ==
  \A l \in Lines : Len(wrote[l]) <= IF Cached THEN Cardinality(Saved) ELSE 1

\* SaveAndExit: "if log use cache write, need save to exit".  When exit goes on to close
\* the file, every line that sendCache has buffered is in a file, though writes failed and
\* another exit closed the file under this one.  (A line whose put has returned may not be
\* buffered yet: put leaves that to a goroutine.)
ExitSaves ==
  [][\A e \in Exits : Cached /\ pc[e] \notin {"close", "done"} /\ pc'[e] \in {"close", "done"} =>
       \A l \in Lines : pc[l] = "done" => wrote'[l] # <<>>]_vars

\* A line that is not cached reaches a file: a file closed under it, or a write that
\* failed, is made good by reset, unless the process ends with a panic.
Written ==
  \A l \in Lines : (~Cached /\ pc[l] = "send") ~> (wrote[l] # <<>> \/ crashed)

\* A goroutine that has left check and sendCache keeps mu for ever, so that every later
\* one waits for it, in two cases only: it waits for itself, or it waited for the mutex
\* while another put went over to the next file.  Puts that do not overlap never lose it.
Rotating == {"name", "swap", "up"}
MutexKept ==
  (mu \in Lines /\ pc[mu] \notin Rotating) =>
     IF Cached THEN pc[mu] = "stuck" ELSE mu \notin turned /\ at[mu] < stamp

=============================================================================
