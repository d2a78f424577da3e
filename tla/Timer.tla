-------------------------------- MODULE Timer --------------------------------
(***************************************************************************)
(* The timer (timer/): jobs that a ticker goroutine starts when they are    *)
(* due.  Jobs due soon are in the map one, which the ticker goes through at *)
(* every tick; the others wait in the map two, from which checkSave, a      *)
(* goroutine started at every fourth tick, moves those that come near.      *)
(* Each start of a job is a goroutine of its own, run, which puts the job   *)
(* back when it is to run again.                                            *)
(*                                                                          *)
(* Nothing but the sync.Maps is guarded: every goroutine is cut at each     *)
(* operation on them.  The unit of time is the interval of the ticker.      *)
(***************************************************************************)
EXTENDS Integers, FiniteSets

CONSTANTS
  Timers,     \* the jobs, each known by its uniq
  Job,        \* what each was added with, see JobType
  Part,       \* TimerData.part: 5 ticks in the code
  SaveEvery,  \* the ticks from one checkSave to the next: 4 in the code
  Savers,     \* the goroutines that may be inside checkSave at once
  MaxTime,    \* the bound on the clock
  LastAdd,    \* the bound on the time at which a job is added
  None        \* no job

\* count tells FuncOnly and FuncArg from FuncBool and FuncArgBool; times is -1 for
\* ever; stamp tells "05", "04:05" and "15:04:05" from a duration; offset is what
\* such a stamp names, counted from the start of its minute, hour or day; now is
\* the argument run of AddTimerRun.
JobType == [count : BOOLEAN, times : Nat \cup {-1}, interval : Nat,
            stamp : BOOLEAN, offset : Nat, now : BOOLEAN]

ASSUME TimerAssumption ==
  /\ Job \in [Timers -> JobType]
  /\ \A t \in Timers : IF Job[t].stamp THEN Job[t].offset < Job[t].interval
                                       ELSE Job[t].offset = 0
  /\ Part \in Nat /\ SaveEvery \in Nat \ {0} /\ MaxTime \in Nat /\ LastAdd \in Nat
  /\ None \notin Timers

VARIABLES
  now,      \* the clock
  tick,     \* ticker.C: a tick that was not taken yet
  done,     \* TimerData.done: its buffer holds the order to exit
  seq,      \* TimerData.next
  fresh,    \* the jobs that were not added yet
  next,     \* TimerFunc.next of each job
  times,    \* TimerFunc.times
  one, two, \* the maps: the jobs in them
  loop,     \* the ticker goroutine
  saves,    \* the goroutines in checkSave
  runs,     \* how many goroutines are at each stage with each job
  first,    \* the time for which each job was asked first, see Asked
  calls,    \* how often run called its function
  ended     \* the jobs whose function returned false

jobVars  == <<fresh, next, times, first, calls, ended>>
mapVars  == <<one, two>>
loopVars == <<tick, done, seq, loop>>
vars     == <<now, jobVars, mapVars, loopVars, saves, runs>>

\* begin: run has not looked at times yet; calling, last: it is in the function, and
\* will put the job back or not; first: AddTimerRun is in the function, which it
\* calls itself; put: on the way to a map.
Stages == {"begin", "calling", "last", "first", "put"}

Waiting == [at |-> "wait", now |-> 0, seen |-> {}, must |-> {}, key |-> None]
Idle    == [at |-> "idle", limit |-> 0, seen |-> {}, must |-> {}, key |-> None]

Init ==
  /\ now = 0 /\ tick = FALSE /\ done = FALSE /\ seq = 0
  /\ fresh = Timers
  /\ next = [t \in Timers |-> 0] /\ times = [t \in Timers |-> 0]
  /\ one = {} /\ two = {}
  /\ loop = Waiting /\ saves = [s \in Savers |-> Idle]
  /\ runs = [t \in Timers |-> [p \in Stages |-> 0]]
  /\ first = [t \in Timers |-> 0] /\ calls = [t \in Timers |-> 0] /\ ended = {}

-----------------------------------------------------------------------------
(* Adding a job: AddTimerRun and AddDuration...                             *)

\* A goroutine reaches a stage, or passes from one to the next, or ends.
Enter(t, p)    == runs' = [runs EXCEPT ![t][p] = @ + 1]
Leave(t, p)    == runs[t][p] > 0 /\ runs' = [runs EXCEPT ![t][p] = @ - 1]
Pass(t, p, q)  == runs[t][p] > 0 /\ runs' = [runs EXCEPT ![t][p] = @ - 1, ![t][q] = @ + 1]

\* checkTime: a stamp "05" is due at the next full minute, "04:05" at the next full
\* hour and "15:04:05" at the next midnight, for the division drops the rest.
checkTime(j) == IF j.stamp THEN ((now \div j.interval) + 1) * j.interval
                           ELSE now + j.interval

\* What timer/README.md says of the stamps: the next time the clock shows the offset.
Asked(j) ==
  LET period == (now \div j.interval) * j.interval
  IN  IF ~ j.stamp THEN now + j.interval
      ELSE IF period + j.offset > now THEN period + j.offset
      ELSE period + j.interval + j.offset

\* times = 0 is refused.  The first call of AddTimerRun counts.
Add(t) ==
  LET j == Job[t] IN
  /\ t \in fresh /\ now <= LastAdd /\ (j.count => j.times # 0)
  /\ fresh' = fresh \ {t}
  /\ next' = [next EXCEPT ![t] = checkTime(j)]
  /\ first' = [first EXCEPT ![t] = Asked(j)]
  /\ times' = [times EXCEPT ![t] = IF j.now /\ j.times > 1 THEN j.times - 1 ELSE j.times]
  /\ Enter(t, IF j.now THEN "first" ELSE "put")
  /\ UNCHANGED <<now, calls, ended, mapVars, loopVars, saves>>

\* The first call returns: the job is put unless that was all.
FirstReturns(t) ==
  /\ IF Job[t].times = 1 THEN Leave(t, "first") ELSE Pass(t, "first", "put")
  /\ UNCHANGED <<now, jobVars, mapVars, loopVars, saves>>

\* put
Put(t) ==
  /\ Leave(t, "put")
  /\ IF next[t] <= now + Part THEN one' = one \cup {t} /\ UNCHANGED two
                              ELSE two' = two \cup {t} /\ UNCHANGED one
  /\ UNCHANGED <<now, jobVars, loopVars, saves>>

-----------------------------------------------------------------------------
(* run                                                                      *)

\* A mutant of RunLast: it goes on after the call.
RunLastGoesOn(t) ==
  /\ Job[t].count /\ times[t] = 1
  /\ Pass(t, "begin", "calling")
  /\ calls' = [calls EXCEPT ![t] = @ + 1]
  /\ UNCHANGED <<now, fresh, next, times, first, ended, mapVars, loopVars, saves>>

\* case 1
RunLast(t) ==
  /\ Job[t].count /\ times[t] = 1
  /\ Pass(t, "begin", "last")
  /\ calls' = [calls EXCEPT ![t] = @ + 1]
  /\ UNCHANGED <<now, fresh, next, times, first, ended, mapVars, loopVars, saves>>

\* case -1, default, and the functions that return a bool.  (Case 0 is never met:
\* a job at 1 is not put again.)
RunMore(t) ==
  /\ ~ Job[t].count \/ times[t] \notin {0, 1}
  /\ Pass(t, "begin", "calling")
  /\ times' = [times EXCEPT ![t] = IF Job[t].count /\ @ # -1 THEN @ - 1 ELSE @]
  /\ calls' = [calls EXCEPT ![t] = @ + 1]
  /\ UNCHANGED <<now, fresh, next, first, ended, mapVars, loopVars, saves>>

LastReturns(t) ==
  /\ Leave(t, "last")
  /\ UNCHANGED <<now, jobVars, mapVars, loopVars, saves>>

\* RunFunc returned true, as it does for a function without a result.
Again(t) ==
  /\ Pass(t, "calling", "put")
  /\ next' = [next EXCEPT ![t] = @ + Job[t].interval]
  /\ UNCHANGED <<now, fresh, times, first, calls, ended, mapVars, loopVars, saves>>

\* A mutant of ReturnsFalse: the result is not looked at.
ReturnsFalseUnseen(t) ==
  /\ ~ Job[t].count
  /\ Pass(t, "calling", "put")
  /\ next' = [next EXCEPT ![t] = @ + Job[t].interval]
  /\ ended' = ended \cup {t}
  /\ UNCHANGED <<now, fresh, times, first, calls, mapVars, loopVars, saves>>

ReturnsFalse(t) ==
  /\ ~ Job[t].count
  /\ Leave(t, "calling")
  /\ ended' = ended \cup {t}
  /\ UNCHANGED <<now, fresh, next, times, first, calls, mapVars, loopVars, saves>>

-----------------------------------------------------------------------------
(* The ticker goroutine.  A Range visits no key twice, every key that is    *)
(* there throughout, and perhaps a key that is stored meanwhile.            *)

Clock ==
  /\ now < MaxTime
  /\ now' = now + 1
  /\ tick' = TRUE
  /\ UNCHANGED <<jobVars, mapVars, done, seq, loop, saves, runs>>

Scan == loop' = [loop EXCEPT !.at = "scan", !.now = now, !.must = one]

\* A tick that starts no checkSave.
Tick ==
  /\ loop.at = "wait" /\ tick /\ seq + 1 < SaveEvery
  /\ tick' = FALSE /\ seq' = seq + 1
  /\ Scan
  /\ UNCHANGED <<now, jobVars, mapVars, done, saves, runs>>

\* A mutant of TickSaves: the counter goes on.
TickSavesOn(s) ==
  /\ loop.at = "wait" /\ tick /\ seq + 1 >= SaveEvery
  /\ saves[s] = Idle
  /\ saves' = [saves EXCEPT ![s].at = "begin"]
  /\ tick' = FALSE /\ seq' = seq + 1
  /\ Scan
  /\ UNCHANGED <<now, jobVars, mapVars, done, runs>>

\* One that does.  (There is a goroutine free for it: see Savers.)
TickSaves(s) ==
  /\ loop.at = "wait" /\ tick /\ seq + 1 >= SaveEvery
  /\ saves[s] = Idle
  /\ saves' = [saves EXCEPT ![s].at = "begin"]
  /\ tick' = FALSE /\ seq' = 0
  /\ Scan
  /\ UNCHANGED <<now, jobVars, mapVars, done, runs>>

\* A mutant of ScanDue: a job is due a tick too early.
ScanDueEarly(t) ==
  /\ loop.at = "scan" /\ t \in one \ loop.seen /\ next[t] <= loop.now + 1
  /\ Enter(t, "begin")
  /\ loop' = [loop EXCEPT !.at = "delete", !.key = t, !.seen = @ \cup {t}]
  /\ UNCHANGED <<now, jobVars, mapVars, tick, done, seq, saves>>

\* go s.run(v) ...
ScanDue(t) ==
  /\ loop.at = "scan" /\ t \in one \ loop.seen /\ next[t] <= loop.now
  /\ Enter(t, "begin")
  /\ loop' = [loop EXCEPT !.at = "delete", !.key = t, !.seen = @ \cup {t}]
  /\ UNCHANGED <<now, jobVars, mapVars, tick, done, seq, saves>>

\* A mutant of ScanDelete: the job stays in the map.
ScanDeleteNot ==
  /\ loop.at = "delete"
  /\ loop' = [loop EXCEPT !.at = "scan", !.key = None]
  /\ UNCHANGED <<now, jobVars, one, two, tick, done, seq, saves, runs>>

\* ... s.one.Delete(key)
ScanDelete ==
  /\ loop.at = "delete"
  /\ one' = one \ {loop.key}
  /\ loop' = [loop EXCEPT !.at = "scan", !.key = None]
  /\ UNCHANGED <<now, jobVars, two, tick, done, seq, saves, runs>>

ScanLater(t) ==
  /\ loop.at = "scan" /\ t \in one \ loop.seen /\ next[t] > loop.now
  /\ loop' = [loop EXCEPT !.seen = @ \cup {t}]
  /\ UNCHANGED <<now, jobVars, mapVars, tick, done, seq, saves, runs>>

ScanEnd ==
  /\ loop.at = "scan" /\ loop.must \subseteq loop.seen
  /\ loop' = Waiting
  /\ UNCHANGED <<now, jobVars, mapVars, tick, done, seq, saves, runs>>

\* CloseAndExit; what runs, runs on.
CloseAndExit ==
  /\ ~ done /\ loop.at # "exited"
  /\ done' = TRUE
  /\ UNCHANGED <<now, jobVars, mapVars, tick, seq, loop, saves, runs>>

Exit ==
  /\ loop.at = "wait" /\ done
  /\ done' = FALSE
  /\ loop' = [Waiting EXCEPT !.at = "exited"]
  /\ UNCHANGED <<now, jobVars, mapVars, tick, seq, saves, runs>>

-----------------------------------------------------------------------------
(* checkSave                                                                *)

SaveBegins(s) ==
  /\ saves[s].at = "begin"
  /\ saves' = [saves EXCEPT ![s] = [Idle EXCEPT !.at = "scan", !.limit = now + Part, !.must = two]]
  /\ UNCHANGED <<now, jobVars, mapVars, loopVars, runs>>

SaveNear(s, t) ==
  /\ saves[s].at = "scan" /\ t \in two \ saves[s].seen /\ next[t] <= saves[s].limit
  /\ saves' = [saves EXCEPT ![s].at = "store", ![s].key = t, ![s].seen = @ \cup {t}]
  /\ UNCHANGED <<now, jobVars, mapVars, loopVars, runs>>

SaveLater(s, t) ==
  /\ saves[s].at = "scan" /\ t \in two \ saves[s].seen /\ next[t] > saves[s].limit
  /\ saves' = [saves EXCEPT ![s].seen = @ \cup {t}]
  /\ UNCHANGED <<now, jobVars, mapVars, loopVars, runs>>

\* t.one.Store(key, value) ...
SaveStores(s) ==
  /\ saves[s].at = "store"
  /\ one' = one \cup {saves[s].key}
  /\ saves' = [saves EXCEPT ![s].at = "delete"]
  /\ UNCHANGED <<now, jobVars, two, loopVars, runs>>

\* ... t.two.Delete(key)
SaveDeletes(s) ==
  /\ saves[s].at = "delete"
  /\ two' = two \ {saves[s].key}
  /\ saves' = [saves EXCEPT ![s].at = "scan", ![s].key = None]
  /\ UNCHANGED <<now, jobVars, one, loopVars, runs>>

SaveEnd(s) ==
  /\ saves[s].at = "scan" /\ saves[s].must \subseteq saves[s].seen
  /\ saves' = [saves EXCEPT ![s] = Idle]
  /\ UNCHANGED <<now, jobVars, mapVars, loopVars, runs>>

\* The clock has come to its bound.
Finished == now = MaxTime /\ UNCHANGED vars

-----------------------------------------------------------------------------

run(t)    == RunLast(t) \/ RunMore(t) \/ LastReturns(t) \/ Again(t) \/ ReturnsFalse(t)
Adding(t) == Add(t) \/ FirstReturns(t)
Ticker    == \/ Tick \/ ScanDelete \/ ScanEnd \/ Exit
             \/ \E s \in Savers : TickSaves(s)
             \/ \E t \in Timers : ScanDue(t) \/ ScanLater(t)
checkSave(s) == \/ SaveBegins(s) \/ SaveStores(s) \/ SaveDeletes(s) \/ SaveEnd(s)
                \/ \E t \in Timers : SaveNear(s, t) \/ SaveLater(s, t)

Next == \/ \E t \in Timers : Adding(t) \/ run(t) \/ Put(t)
        \/ Ticker \/ CloseAndExit
        \/ \E s \in Savers : checkSave(s)
        \/ Clock \/ Finished

Spec == Init /\ [][Next]_vars

-----------------------------------------------------------------------------

\* The range of every variable.
TypeOK ==
  /\ now \in 0 .. MaxTime /\ tick \in BOOLEAN /\ done \in BOOLEAN
  /\ seq \in 0 .. (SaveEvery - 1)
  /\ fresh \subseteq Timers /\ one \subseteq Timers /\ two \subseteq Timers
  /\ next \in [Timers -> Nat] /\ first \in [Timers -> Nat] /\ calls \in [Timers -> Nat]
  /\ times \in [Timers -> Nat \cup {-1}]
  /\ loop \in [at : {"wait", "scan", "delete", "exited"}, now : Nat, seen : SUBSET Timers,
               must : SUBSET Timers, key : Timers \cup {None}]
  /\ saves \in [Savers -> [at : {"idle", "begin", "scan", "store", "delete"}, limit : Nat,
                           seen : SUBSET Timers, must : SUBSET Timers, key : Timers \cup {None}]]
  /\ runs \in [Timers -> [Stages -> Nat]]
  /\ ended \subseteq Timers

Added(t) == t \notin fresh

\* timer/README.md, "times: run times": a function is called at most as often as
\* asked, the call AddTimerRun makes itself included, though its job passes from
\* goroutine to goroutine and from map to map.
AtMostTimes ==
  \A t \in Timers : Added(t) /\ Job[t].count /\ Job[t].times > 0 =>
    calls[t] + (IF Job[t].now THEN 1 ELSE 0) <= Job[t].times

\* run adds the interval to next once for each call: however late the calls are, none
\* comes before its turn, counted from the time that was asked for, but for the part
\* of the stamp that checkTime drops: a job "04:05" may be called at the full hour.
NeverEarly ==
  \A t \in Timers : calls[t] > 0 =>
    now + Job[t].offset >= first[t] + (calls[t] - 1) * Job[t].interval

\* A function that takes longer than its interval is never called again beside
\* itself: its job is in no map that could start it.
OneAtATime ==
  \A t \in Timers : runs[t]["calling"] + runs[t]["last"] + runs[t]["first"] <= 1

\* AddDurationBoolean: once the function returned false it is not called again.
NoCallAfterFalse ==
  [][\A t \in ended : calls'[t] = calls[t]]_vars

\* timer/README.md, "-1:forever": a job that is to run for ever is in one of the
\* maps or in the hands of a goroutine that puts it there.
Kept ==
  \A t \in Timers : Added(t) /\ Job[t].count /\ Job[t].times = -1 =>
    t \in one \cup two \/ \E p \in Stages : runs[t][p] > 0
=============================================================================
