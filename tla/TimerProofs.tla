---------------------------- MODULE TimerProofs ----------------------------
(***************************************************************************)
(* What holds of Timer for any jobs, intervals and speed of the goroutines, *)
(* as long as no checkSave meets the next one.  A job is in one place at a  *)
(* time: not added yet, in a map, or in the hands of one goroutine.         *)
(***************************************************************************)
EXTENDS Timer, TLAPS

\* A checkSave ends before the next one starts.
OneSaver == \A s, r \in Savers : s = r

-----------------------------------------------------------------------------

\* A job in a map may be started from there, unless a goroutine is about to delete
\* it: the ticker after it started the job, checkSave after it stored it in one.
InOne(t) == t \in one /\ ~ (loop.at = "delete" /\ loop.key = t)
InTwo(t) == t \in two /\ \A s \in Savers : ~ (saves[s].at = "delete" /\ saves[s].key = t)

\* A job is in one place at a time ...
OnePlace(t) ==
  /\ \A p \in Stages : runs[t][p] <= 1
  /\ \A p, q \in Stages : runs[t][p] > 0 /\ runs[t][q] > 0 => p = q
  /\ t \in fresh \/ InOne(t) \/ InTwo(t) => \A p \in Stages : runs[t][p] = 0
  /\ ~ (t \in fresh /\ InOne(t)) /\ ~ (t \in fresh /\ InTwo(t)) /\ ~ (InOne(t) /\ InTwo(t))

\* ... or in none.
Nowhere(t) ==
  t \notin fresh /\ ~ InOne(t) /\ ~ InTwo(t) /\ \A p \in Stages : runs[t][p] = 0

\* The job will be called again, or is being called and may be.
Active(t) ==
  \/ InOne(t) \/ InTwo(t)
  \/ runs[t]["begin"] > 0 \/ runs[t]["calling"] > 0 \/ runs[t]["put"] > 0
  \/ runs[t]["first"] > 0 /\ Job[t].times # 1

\* The calls that were made, and the one of AddTimerRun.
Made(t) == calls[t] + (IF Job[t].now THEN 1 ELSE 0)

\* What is left of the times of a job, and what was made, is what was asked for.
CountInv(t) ==
  t \notin fresh /\ Job[t].count /\ Job[t].times > 0 =>
    /\ times[t] >= 1
    /\ \/ Made(t) + times[t] = Job[t].times
       \/ Made(t) = Job[t].times /\ ~ Active(t)

\* next is the time of the next call, or of the one under way, or earlier than that
\* by what the stamp lost.
DueInv(t) ==
  /\ runs[t]["begin"] > 0 => next[t] <= now
  /\ InOne(t) \/ InTwo(t) \/ runs[t]["begin"] > 0 \/ runs[t]["put"] > 0 \/ runs[t]["first"] > 0 =>
       next[t] + Job[t].offset >= first[t] + calls[t] * Job[t].interval
  /\ runs[t]["calling"] > 0 =>
       calls[t] > 0 /\ next[t] + Job[t].offset >= first[t] + (calls[t] - 1) * Job[t].interval
  /\ calls[t] > 0 => now + Job[t].offset >= first[t] + (calls[t] - 1) * Job[t].interval

JobInv(t) ==
  /\ OnePlace(t)
  /\ t \in fresh => calls[t] = 0
  /\ t \in ended => Nowhere(t)
  /\ CountInv(t)
  /\ DueInv(t)

\* The ticker compares with a time that has come; checkSave moves a job that is
\* in two until it is deleted there.
LoopInv == loop.now <= now
SaveInv == \A s \in Savers : saves[s].at = "store" => saves[s].key \in two

IInv == TypeOK /\ LoopInv /\ SaveInv /\ \A t \in Timers : JobInv(t)

-----------------------------------------------------------------------------
(* The goroutines of a job.                                                 *)

\* One goroutine more at stage p.
LEMMA Enters ==
  ASSUME TypeOK, NEW t \in Timers, NEW p \in Stages, Enter(t, p)
  PROVE  /\ runs' \in [Timers -> [Stages -> Nat]]
         /\ \A u \in Timers : u # t => runs'[u] = runs[u]
         /\ \A q \in Stages : runs'[t][q] = IF q = p THEN runs[t][q] + 1 ELSE runs[t][q]
BY DEF Enter, TypeOK

\* One goroutine fewer.
LEMMA Leaves ==
  ASSUME TypeOK, NEW t \in Timers, NEW p \in Stages, Leave(t, p)
  PROVE  /\ runs' \in [Timers -> [Stages -> Nat]] /\ runs[t][p] > 0
         /\ \A u \in Timers : u # t => runs'[u] = runs[u]
         /\ \A q \in Stages : runs'[t][q] = IF q = p THEN runs[t][q] - 1 ELSE runs[t][q]
<1>1. runs[t][p] \in Nat /\ runs[t][p] > 0
  BY DEF Leave, TypeOK
<1>2. runs[t][p] - 1 \in Nat
  BY <1>1
<1> QED
  BY <1>1, <1>2 DEF Leave, TypeOK

\* One goroutine passes from p to q.
LEMMA Passes ==
  ASSUME TypeOK, NEW t \in Timers, NEW p \in Stages, NEW q \in Stages, p # q, Pass(t, p, q)
  PROVE  /\ runs' \in [Timers -> [Stages -> Nat]] /\ runs[t][p] > 0
         /\ \A u \in Timers : u # t => runs'[u] = runs[u]
         /\ \A r \in Stages : runs'[t][r] =
              IF r = p THEN runs[t][r] - 1 ELSE IF r = q THEN runs[t][r] + 1 ELSE runs[t][r]
<1>1. runs[t][p] \in Nat /\ runs[t][p] > 0 /\ runs[t][q] \in Nat
  BY DEF Pass, TypeOK
<1>2. runs[t][p] - 1 \in Nat
  BY <1>1
<1> QED
  BY <1>1, <1>2 DEF Pass, TypeOK

\* A step that does nothing with a job but take it out of a map, or let time pass,
\* keeps what holds of it.
LEMMA SameJob ==
  ASSUME TypeOK, NEW t \in Timers, JobInv(t), now' \in Nat, now <= now',
         t \in fresh' <=> t \in fresh, t \in ended' <=> t \in ended,
         next'[t] = next[t], times'[t] = times[t], first'[t] = first[t], calls'[t] = calls[t],
         runs'[t] = runs[t], InOne(t)' => InOne(t), InTwo(t)' => InTwo(t)
  PROVE  JobInv(t)'
<1> USE TimerAssumption
<1>1. /\ now \in Nat /\ next[t] \in Nat /\ first[t] \in Nat /\ calls[t] \in Nat
      /\ Job[t] \in JobType
      /\ \A p \in Stages : runs[t][p] \in Nat
  BY DEF TypeOK
<1>2. Job[t].interval \in Nat /\ Job[t].offset \in Nat /\ calls[t] * Job[t].interval \in Int
      /\ (calls[t] - 1) * Job[t].interval \in Int
  BY <1>1 DEF JobType
<1>3. OnePlace(t)' /\ (Nowhere(t) => Nowhere(t)')
  BY DEF JobInv, OnePlace, Nowhere
<1>4. CountInv(t)'
  BY <1>1 DEF JobInv, CountInv, Made, Active
<1>5. DueInv(t)'
  BY <1>1, <1>2 DEF JobInv, DueInv
<1> QED
  BY <1>3, <1>4, <1>5 DEF JobInv

\* The ranges of what concerns one job.
LEMMA JobTyped ==
  ASSUME TypeOK, NEW t \in Timers
  PROVE  /\ now \in Nat /\ next[t] \in Nat /\ first[t] \in Nat /\ calls[t] \in Nat
         /\ times[t] \in Nat \cup {-1}
         /\ \A p \in Stages : runs[t][p] \in Nat
         /\ Job[t] \in JobType /\ Job[t].interval \in Nat /\ Job[t].offset \in Nat
         /\ Job[t].times \in Nat \cup {-1}
         /\ Job[t].count \in BOOLEAN /\ Job[t].now \in BOOLEAN
         /\ calls[t] * Job[t].interval \in Int
<1>1. /\ Job[t] \in JobType /\ calls[t] \in Nat
  BY TimerAssumption DEF TypeOK
<1>2. Job[t].interval \in Nat
  BY <1>1 DEF JobType
<1>3. calls[t] * Job[t].interval \in Int
  BY <1>1, <1>2
<1> QED
  BY <1>1, <1>2, <1>3, TimerAssumption DEF TypeOK, JobType

\* A step that is about one job.
LEMMA OneJob ==
  ASSUME IInv, TypeOK', NEW t \in Timers, UNCHANGED <<now, loop, saves>>, two \subseteq two',
         \A u \in Timers \ {t} :
           /\ (u \in fresh' <=> u \in fresh) /\ (u \in ended' <=> u \in ended)
           /\ (u \in one' <=> u \in one) /\ (u \in two' <=> u \in two)
           /\ next'[u] = next[u] /\ times'[u] = times[u] /\ first'[u] = first[u]
           /\ calls'[u] = calls[u] /\ runs'[u] = runs[u],
         JobInv(t)'
  PROVE  IInv'
<1>1. now' \in Nat /\ now <= now'
  BY DEF IInv, TypeOK
<1>2. ASSUME NEW u \in Timers \ {t} PROVE JobInv(u)'
  <2>1. (InOne(u)' => InOne(u)) /\ (InTwo(u)' => InTwo(u))
    BY DEF InOne, InTwo
  <2> QED
    BY <1>1, <2>1, SameJob DEF IInv
<1>3. LoopInv'
  BY DEF IInv, LoopInv
<1>4. SaveInv'
  BY DEF IInv, SaveInv
<1> QED
  BY <1>2, <1>3, <1>4 DEF IInv

-----------------------------------------------------------------------------
(* One lemma for each thing that happens to a job.                          *)

\* checkTime: a job is due first at the time that was asked for, or at the start of
\* the period that time is in.
LEMMA FirstTime ==
  ASSUME TypeOK, NEW t \in Timers
  PROVE  /\ checkTime(Job[t]) \in Nat /\ Asked(Job[t]) \in Nat
         /\ checkTime(Job[t]) + Job[t].offset >= Asked(Job[t])
<1>1. now \in Nat /\ Job[t] \in JobType /\ Job[t].offset \in Nat
  BY JobTyped
<1>2. CASE Job[t].stamp
  <2>1. Job[t].interval \in Nat \ {0}
    BY <1>1, <1>2, TimerAssumption DEF JobType
  <2>2. PICK d \in Nat : d = now \div Job[t].interval
    BY <1>1, <2>1
  <2>3. PICK p \in Nat : p = d * Job[t].interval
    BY <2>1, <2>2
  <2>4. (d + 1) * Job[t].interval = p + Job[t].interval
    <3>1. ASSUME NEW n \in Nat PROVE (d + 1) * n = d * n + n
      OBVIOUS
    <3> QED
      BY <2>1, <2>3, <3>1
  <2>5. /\ checkTime(Job[t]) = p + Job[t].interval
        /\ Asked(Job[t]) = IF p + Job[t].offset > now THEN p + Job[t].offset
                                                     ELSE p + Job[t].interval + Job[t].offset
    BY <1>2, <2>2, <2>3, <2>4 DEF checkTime, Asked
  <2> QED
    BY <1>1, <2>1, <2>3, <2>5
<1>3. CASE ~ Job[t].stamp
  BY <1>1, <1>3 DEF checkTime, Asked, JobType
<1> QED
  BY <1>1, <1>2, <1>3 DEF JobType

\* AddTimerRun and AddDuration: all the calls are left, but the one made at once.
LEMMA AddSound == ASSUME IInv, NEW t \in Timers, Add(t) PROVE IInv'
<1> DEFINE p == IF Job[t].now THEN "first" ELSE "put"
<1>1. TypeOK /\ JobInv(t) /\ p \in Stages /\ Enter(t, p)
  BY DEF IInv, Stages, Add
<1>2. /\ runs' \in [Timers -> [Stages -> Nat]]
      /\ \A u \in Timers : u # t => runs'[u] = runs[u]
      /\ \A q \in Stages : runs'[t][q] = IF q = p THEN runs[t][q] + 1 ELSE runs[t][q]
  BY <1>1, Enters
<1>3. /\ UNCHANGED <<now, loop, saves, calls, ended, one, two, tick, done, seq>>
      /\ t \in fresh /\ fresh' = fresh \ {t} /\ (Job[t].count => Job[t].times # 0)
      /\ next' = [next EXCEPT ![t] = checkTime(Job[t])]
      /\ first' = [first EXCEPT ![t] = Asked(Job[t])]
      /\ times' = [times EXCEPT ![t] =
           IF Job[t].now /\ Job[t].times > 1 THEN Job[t].times - 1 ELSE Job[t].times]
  BY DEF Add, mapVars, loopVars
<1>4. /\ checkTime(Job[t]) \in Nat /\ Asked(Job[t]) \in Nat
      /\ checkTime(Job[t]) + Job[t].offset >= Asked(Job[t])
  BY <1>1, FirstTime
<1>5. TypeOK'
  <2>1. (IF Job[t].now /\ Job[t].times > 1 THEN Job[t].times - 1 ELSE Job[t].times)
          \in Nat \cup {-1}
    BY <1>1, JobTyped
  <2> QED
    BY <1>1, <1>2, <1>3, <1>4, <2>1 DEF TypeOK
<1>6. /\ next'[t] = checkTime(Job[t]) /\ first'[t] = Asked(Job[t]) /\ calls'[t] = 0
      /\ times'[t] = IF Job[t].now /\ Job[t].times > 1 THEN Job[t].times - 1 ELSE Job[t].times
      /\ t \notin fresh' /\ calls[t] = 0
  BY <1>1, <1>3 DEF TypeOK, JobInv
<1>7. /\ ~ InOne(t) /\ ~ InTwo(t) /\ ~ InOne(t)' /\ ~ InTwo(t)'
      /\ \A q \in Stages : runs[t][q] = 0
  <2>1. ~ InOne(t) /\ ~ InTwo(t) /\ \A q \in Stages : runs[t][q] = 0
    BY <1>1, <1>3, JobTyped DEF JobInv, OnePlace
  <2> QED
    BY <2>1, <1>3 DEF InOne, InTwo
<1>8. OnePlace(t)' /\ t \notin ended'
  <2>1. OnePlace(t)'
    BY <1>2, <1>6, <1>7 DEF OnePlace
  <2> QED
    BY <1>1, <1>3, <2>1 DEF JobInv, Nowhere
<1>9. CountInv(t)'
  BY <1>1, <1>2, <1>3, <1>6, <1>7, JobTyped DEF CountInv, Made, Active, Stages
<1>10. DueInv(t)'
  <2>1. 0 * Job[t].interval = 0
    BY <1>1, JobTyped
  <2> QED
    BY <1>2, <1>4, <1>6, <1>7, <2>1 DEF DueInv, Stages
<1>11. JobInv(t)'
  BY <1>6, <1>8, <1>9, <1>10 DEF JobInv
<1> QED
  BY <1>2, <1>3, <1>5, <1>11, OneJob DEF TypeOK

\* A goroutine that holds the job is the only place it is in.
LEMMA Alone ==
  ASSUME TypeOK, NEW t \in Timers, JobInv(t), NEW p \in Stages, runs[t][p] > 0
  PROVE  /\ t \notin fresh /\ t \notin ended /\ ~ InOne(t) /\ ~ InTwo(t)
         /\ \A q \in Stages : runs[t][q] = IF q = p THEN 1 ELSE 0
<1>1. \A q \in Stages : runs[t][q] \in Nat
  BY JobTyped
<1>2. t \notin fresh /\ ~ InOne(t) /\ ~ InTwo(t)
  BY DEF JobInv, OnePlace
<1>3. \A q \in Stages : runs[t][q] = IF q = p THEN 1 ELSE 0
  BY <1>1 DEF JobInv, OnePlace
<1>4. t \notin ended
  BY DEF JobInv, Nowhere
<1> QED
  BY <1>2, <1>3, <1>4

\* A goroutine passes the job on, without touching a map.
LEMMA Passed ==
  ASSUME IInv, NEW t \in Timers, NEW p \in Stages, NEW q \in Stages, p # q, Pass(t, p, q),
         UNCHANGED <<mapVars, loop, saves, now, fresh, first>>,
         next' \in [Timers -> Nat], calls' \in [Timers -> Nat],
         times' \in [Timers -> Nat \cup {-1}], UNCHANGED <<tick, done, seq, ended>>,
         \A u \in Timers \ {t} : /\ next'[u] = next[u] /\ times'[u] = times[u]
                                 /\ calls'[u] = calls[u],
         CountInv(t)', DueInv(t)'
  PROVE  IInv'
<1>1. TypeOK /\ JobInv(t)
  BY DEF IInv
<1>2. /\ runs' \in [Timers -> [Stages -> Nat]] /\ runs[t][p] > 0
      /\ \A u \in Timers : u # t => runs'[u] = runs[u]
      /\ \A r \in Stages : runs'[t][r] =
           IF r = p THEN runs[t][r] - 1 ELSE IF r = q THEN runs[t][r] + 1 ELSE runs[t][r]
  BY <1>1, Passes
<1>3. /\ t \notin fresh /\ t \notin ended /\ ~ InOne(t) /\ ~ InTwo(t)
      /\ \A r \in Stages : runs[t][r] = IF r = p THEN 1 ELSE 0
  BY <1>1, <1>2, Alone
<1>4. ~ InOne(t)' /\ ~ InTwo(t)'
  <2>1. UNCHANGED <<one, two, loop, saves>>
    BY DEF mapVars
  <2> QED
    BY <1>3, <2>1 DEF InOne, InTwo
<1>5. OnePlace(t)'
  <2>1. \A r \in Stages : runs'[t][r] = IF r = q THEN 1 ELSE 0
    BY <1>2, <1>3
  <2> QED
    BY <2>1, <1>3, <1>4 DEF OnePlace
<1>6. JobInv(t)'
  BY <1>3, <1>5 DEF JobInv
<1>7. TypeOK'
  BY <1>1, <1>2 DEF TypeOK, mapVars
<1> QED
  BY <1>2, <1>6, <1>7, OneJob DEF mapVars

\* A goroutine ends, and the job is nowhere.
LEMMA Left ==
  ASSUME IInv, NEW t \in Timers, NEW p \in Stages, Leave(t, p),
         UNCHANGED <<now, fresh, next, times, first, calls, mapVars, loopVars, saves>>,
         ended' = ended \/ ended' = ended \cup {t}
  PROVE  IInv'
<1>1. TypeOK /\ JobInv(t)
  BY DEF IInv
<1>2. /\ runs' \in [Timers -> [Stages -> Nat]] /\ runs[t][p] > 0
      /\ \A u \in Timers : u # t => runs'[u] = runs[u]
      /\ \A r \in Stages : runs'[t][r] = IF r = p THEN runs[t][r] - 1 ELSE runs[t][r]
  BY <1>1, Leaves
<1>3. /\ t \notin fresh /\ t \notin ended /\ ~ InOne(t) /\ ~ InTwo(t)
      /\ \A r \in Stages : runs[t][r] = IF r = p THEN 1 ELSE 0
  BY <1>1, <1>2, Alone
<1>4. UNCHANGED <<now, fresh, next, times, first, calls, one, two, loop, saves, tick, done, seq>>
  BY DEF mapVars, loopVars
<1>5. ~ InOne(t)' /\ ~ InTwo(t)' /\ \A r \in Stages : runs'[t][r] = 0
  <2>1. ~ InOne(t)' /\ ~ InTwo(t)'
    BY <1>3, <1>4 DEF InOne, InTwo
  <2> QED
    BY <1>2, <1>3, <2>1
<1>6. OnePlace(t)' /\ Nowhere(t)'
  BY <1>3, <1>4, <1>5 DEF OnePlace, Nowhere
<1>7. CountInv(t)'
  BY <1>1, <1>4, <1>5 DEF JobInv, CountInv, Made, Active, Stages
<1>8. DueInv(t)'
  BY <1>1, <1>4, <1>5 DEF JobInv, DueInv, Stages
<1>9. JobInv(t)'
  BY <1>3, <1>4, <1>6, <1>7, <1>8 DEF JobInv
<1>10. TypeOK'
  BY <1>1, <1>2, <1>4 DEF TypeOK
<1> QED
  BY <1>2, <1>4, <1>9, <1>10, OneJob

\* The first call returns.
LEMMA FirstReturnsSound == ASSUME IInv, NEW t \in Timers, FirstReturns(t) PROVE IInv'
<1>1. CASE Job[t].times = 1
  <2>1. Leave(t, "first") /\ "first" \in Stages
    BY <1>1 DEF FirstReturns, Stages
  <2> QED
    BY <2>1, Left DEF FirstReturns, jobVars
<1>2. CASE Job[t].times # 1
  <2>1. Pass(t, "first", "put") /\ "first" \in Stages /\ "put" \in Stages
    BY <1>2 DEF FirstReturns, Stages
  <2>2. TypeOK /\ JobInv(t) /\ runs[t]["first"] > 0
    BY <2>1 DEF IInv, Pass
  <2>3. UNCHANGED <<now, fresh, next, times, first, calls, ended, mapVars, loop, saves,
                    one, two, tick, done, seq>>
    BY DEF FirstReturns, jobVars, mapVars, loopVars
  <2>4. \A r \in Stages : runs'[t][r] =
          IF r = "first" THEN runs[t][r] - 1 ELSE IF r = "put" THEN runs[t][r] + 1 ELSE runs[t][r]
    BY <2>1, <2>2, Passes
  <2>5. /\ t \notin fresh /\ t \notin ended /\ ~ InOne(t) /\ ~ InTwo(t)
        /\ \A r \in Stages : runs[t][r] = IF r = "first" THEN 1 ELSE 0
    BY <2>1, <2>2, Alone
  <2>6. ~ InOne(t)' /\ ~ InTwo(t)' /\ \A r \in Stages : runs'[t][r] = IF r = "put" THEN 1 ELSE 0
    <3>1. ~ InOne(t)' /\ ~ InTwo(t)'
      BY <2>3, <2>5 DEF InOne, InTwo
    <3> QED
      BY <2>4, <2>5, <3>1
  <2>7. CountInv(t)'
    BY <1>2, <2>2, <2>3, <2>5 DEF JobInv, CountInv, Made, Active
  <2>8. DueInv(t)'
    BY <2>2, <2>3, <2>5, <2>6 DEF JobInv, DueInv, Stages
  <2>9. /\ next' \in [Timers -> Nat] /\ calls' \in [Timers -> Nat]
        /\ times' \in [Timers -> Nat \cup {-1}]
    BY <2>2, <2>3 DEF TypeOK
  <2> QED
    BY <2>1, <2>3, <2>7, <2>8, <2>9, Passed
<1> QED
  BY <1>1, <1>2

\* run is done with a job it called for the last time, or that ended itself.
LEMMA EndSound ==
  ASSUME IInv, NEW t \in Timers, LastReturns(t) \/ ReturnsFalse(t) PROVE IInv'
<1>1. CASE LastReturns(t)
  BY <1>1, Left DEF LastReturns, jobVars, Stages
<1>2. CASE ReturnsFalse(t)
  BY <1>2, Left DEF ReturnsFalse, Stages
<1> QED
  BY <1>1, <1>2

\* A goroutine at "begin" has taken the job off the maps: what holds of the job,
\* and of the goroutine that goes on to the next stage.
LEMMA Takes ==
  ASSUME IInv, NEW t \in Timers, NEW p \in Stages, NEW q \in Stages, p # q, Pass(t, p, q),
         UNCHANGED <<one, two, loop, saves, now>>
  PROVE  /\ TypeOK /\ JobInv(t) /\ runs[t][p] > 0 /\ t \notin fresh /\ t \notin ended
         /\ ~ InOne(t)' /\ ~ InTwo(t)'
         /\ \A r \in Stages : runs'[t][r] = IF r = q THEN 1 ELSE 0
<1>1. TypeOK /\ JobInv(t) /\ runs[t][p] > 0
  BY DEF IInv, Pass
<1>2. \A r \in Stages : runs'[t][r] =
        IF r = p THEN runs[t][r] - 1 ELSE IF r = q THEN runs[t][r] + 1 ELSE runs[t][r]
  BY <1>1, Passes
<1>3. /\ t \notin fresh /\ t \notin ended /\ ~ InOne(t) /\ ~ InTwo(t)
      /\ \A r \in Stages : runs[t][r] = IF r = p THEN 1 ELSE 0
  BY <1>1, Alone
<1>4. ~ InOne(t)' /\ ~ InTwo(t)'
  BY <1>3 DEF InOne, InTwo
<1> QED
  BY <1>1, <1>2, <1>3, <1>4

\* case 1 of run: with this call, all that were asked for are made.
LEMMA RunLastSound == ASSUME IInv, NEW t \in Timers, RunLast(t) PROVE IInv'
<1>1. /\ Pass(t, "begin", "last") /\ "begin" \in Stages /\ "last" \in Stages
      /\ Job[t].count /\ times[t] = 1 /\ calls' = [calls EXCEPT ![t] = @ + 1]
      /\ UNCHANGED <<now, fresh, next, times, first, ended, one, two, tick, done, seq, loop, saves>>
  BY DEF RunLast, Stages, mapVars, loopVars
<1>2. /\ TypeOK /\ JobInv(t) /\ runs[t]["begin"] > 0 /\ ~ InOne(t)' /\ ~ InTwo(t)'
      /\ \A r \in Stages : runs'[t][r] = IF r = "last" THEN 1 ELSE 0
  BY <1>1, Takes
<1>3. /\ next[t] \in Nat /\ first[t] \in Nat /\ calls[t] \in Nat /\ now \in Nat
      /\ Job[t].times \in Nat \cup {-1} /\ calls[t] * Job[t].interval \in Int
      /\ Job[t].offset \in Nat
  BY <1>2, JobTyped
<1>4. calls'[t] = calls[t] + 1 /\ calls' \in [Timers -> Nat]
  BY <1>1, <1>2 DEF TypeOK
<1>5. CountInv(t)'
  BY <1>1, <1>2, <1>3, <1>4 DEF JobInv, CountInv, Made, Active, Stages
<1>6. DueInv(t)'
  <2>1. calls'[t] - 1 = calls[t]
    BY <1>3, <1>4
  <2> QED
    BY <1>1, <1>2, <1>3, <2>1 DEF JobInv, DueInv, Stages
<1>7. next' \in [Timers -> Nat] /\ times' \in [Timers -> Nat \cup {-1}]
  BY <1>1, <1>2 DEF TypeOK
<1> QED
  BY <1>1, <1>4, <1>5, <1>6, <1>7, Passed DEF mapVars, TypeOK

\* The other cases of run: the call is counted before it is made.
LEMMA RunMoreSound == ASSUME IInv, NEW t \in Timers, RunMore(t) PROVE IInv'
<1>1. /\ Pass(t, "begin", "calling") /\ "begin" \in Stages /\ "calling" \in Stages
      /\ (~ Job[t].count \/ times[t] \notin {0, 1})
      /\ calls' = [calls EXCEPT ![t] = @ + 1]
      /\ times' = [times EXCEPT ![t] = IF Job[t].count /\ @ # -1 THEN @ - 1 ELSE @]
      /\ UNCHANGED <<now, fresh, next, first, ended, one, two, tick, done, seq, loop, saves>>
  BY DEF RunMore, Stages, mapVars, loopVars
<1>2. /\ TypeOK /\ JobInv(t) /\ runs[t]["begin"] > 0 /\ ~ InOne(t)' /\ ~ InTwo(t)'
      /\ \A r \in Stages : runs'[t][r] = IF r = "calling" THEN 1 ELSE 0
  BY <1>1, Takes
<1>3. /\ next[t] \in Nat /\ first[t] \in Nat /\ calls[t] \in Nat /\ now \in Nat
      /\ times[t] \in Nat \cup {-1}
      /\ Job[t].times \in Nat \cup {-1} /\ calls[t] * Job[t].interval \in Int
      /\ Job[t].offset \in Nat
  BY <1>2, JobTyped
<1>4. calls'[t] = calls[t] + 1 /\ calls' \in [Timers -> Nat]
  BY <1>1, <1>2 DEF TypeOK
<1>5. times'[t] = IF Job[t].count /\ times[t] # -1 THEN times[t] - 1 ELSE times[t]
  BY <1>1, <1>2 DEF TypeOK
<1>6. times' \in [Timers -> Nat \cup {-1}]
  <2>1. (IF Job[t].count /\ times[t] # -1 THEN times[t] - 1 ELSE times[t]) \in Nat \cup {-1}
    BY <1>1, <1>3
  <2> QED
    BY <1>1, <1>2, <2>1 DEF TypeOK
<1>7. CountInv(t)'
  BY <1>1, <1>2, <1>3, <1>4, <1>5 DEF JobInv, CountInv, Made, Active, Stages
<1>8. DueInv(t)'
  <2>1. calls'[t] - 1 = calls[t] /\ calls'[t] > 0
    BY <1>3, <1>4
  <2> QED
    BY <1>1, <1>2, <1>3, <2>1 DEF JobInv, DueInv, Stages
<1>9. next' \in [Timers -> Nat]
  BY <1>1, <1>2 DEF TypeOK
<1> QED
  BY <1>1, <1>4, <1>6, <1>7, <1>8, <1>9, Passed DEF mapVars, TypeOK

\* The function returned, and the job is due an interval later than it was.
LEMMA AgainSound == ASSUME IInv, NEW t \in Timers, Again(t) PROVE IInv'
<1>1. /\ Pass(t, "calling", "put") /\ "calling" \in Stages /\ "put" \in Stages
      /\ next' = [next EXCEPT ![t] = @ + Job[t].interval]
      /\ UNCHANGED <<now, fresh, times, calls, first, ended, one, two, tick, done, seq, loop, saves>>
  BY DEF Again, Stages, mapVars, loopVars
<1>2. /\ TypeOK /\ JobInv(t) /\ runs[t]["calling"] > 0 /\ ~ InOne(t)' /\ ~ InTwo(t)'
      /\ \A r \in Stages : runs'[t][r] = IF r = "put" THEN 1 ELSE 0
  BY <1>1, Takes
<1>3. /\ next[t] \in Nat /\ first[t] \in Nat /\ calls[t] \in Nat /\ now \in Nat
      /\ Job[t].interval \in Nat /\ calls[t] * Job[t].interval \in Int
      /\ Job[t].offset \in Nat
  BY <1>2, JobTyped
<1>4. next'[t] = next[t] + Job[t].interval /\ next' \in [Timers -> Nat]
  BY <1>1, <1>2, <1>3 DEF TypeOK
<1>5. CountInv(t)'
  BY <1>1, <1>2 DEF JobInv, CountInv, Made, Active, Stages
<1>6. DueInv(t)'
  <2>1. next[t] + Job[t].offset >= first[t] + (calls[t] - 1) * Job[t].interval
    BY <1>2 DEF JobInv, DueInv
  <2>2. (calls[t] - 1) * Job[t].interval + Job[t].interval = calls[t] * Job[t].interval
        /\ (calls[t] - 1) * Job[t].interval \in Int
    BY <1>3
  <2>3. next'[t] + Job[t].offset >= first[t] + calls[t] * Job[t].interval
    BY <1>3, <1>4, <2>1, <2>2
  <2> QED
    BY <1>1, <1>2, <2>3 DEF JobInv, DueInv, Stages
<1>7. calls' \in [Timers -> Nat] /\ times' \in [Timers -> Nat \cup {-1}]
  BY <1>1, <1>2 DEF TypeOK
<1> QED
  BY <1>1, <1>4, <1>5, <1>6, <1>7, Passed DEF mapVars, TypeOK

\* put: from the hands of the goroutine to one map.
LEMMA PutSound == ASSUME IInv, NEW t \in Timers, Put(t) PROVE IInv'
<1>1. /\ Leave(t, "put") /\ "put" \in Stages
      /\ UNCHANGED <<now, fresh, next, times, first, calls, ended, tick, done, seq, loop, saves>>
      /\ \/ one' = one \cup {t} /\ two' = two
         \/ two' = two \cup {t} /\ one' = one
  BY DEF Put, Stages, jobVars, loopVars
<1>2. TypeOK /\ JobInv(t)
  BY DEF IInv
<1>3. /\ runs' \in [Timers -> [Stages -> Nat]] /\ runs[t]["put"] > 0
      /\ \A u \in Timers : u # t => runs'[u] = runs[u]
      /\ \A r \in Stages : runs'[t][r] = IF r = "put" THEN runs[t][r] - 1 ELSE runs[t][r]
  BY <1>1, <1>2, Leaves
<1>4. /\ t \notin fresh /\ t \notin ended /\ ~ InOne(t) /\ ~ InTwo(t)
      /\ \A r \in Stages : runs[t][r] = IF r = "put" THEN 1 ELSE 0
  BY <1>1, <1>2, <1>3, Alone
<1>5. \A r \in Stages : runs'[t][r] = 0
  BY <1>3, <1>4
<1>6. ~ (InOne(t)' /\ InTwo(t)')
  BY <1>1, <1>4 DEF InOne, InTwo
<1>7. OnePlace(t)'
  BY <1>1, <1>4, <1>5, <1>6 DEF OnePlace
<1>8. CountInv(t)'
  BY <1>1, <1>2, <1>3 DEF JobInv, CountInv, Made, Active, Stages
<1>9. DueInv(t)'
  BY <1>1, <1>2, <1>3, <1>5 DEF JobInv, DueInv, Stages
<1>10. JobInv(t)'
  BY <1>1, <1>4, <1>7, <1>8, <1>9 DEF JobInv
<1>11. TypeOK'
  BY <1>1, <1>2, <1>3 DEF TypeOK
<1> QED
  BY <1>1, <1>3, <1>10, <1>11, OneJob

-----------------------------------------------------------------------------
(* The ticker and checkSave.                                                *)

\* The ranges of the goroutines.
Loops == [at : {"wait", "scan", "delete", "exited"}, now : Nat, seen : SUBSET Timers,
          must : SUBSET Timers, key : Timers \cup {None}]
Saves == [at : {"idle", "begin", "scan", "store", "delete"}, limit : Nat,
          seen : SUBSET Timers, must : SUBSET Timers, key : Timers \cup {None}]

\* The goroutines and the maps are in their ranges.
LEMMA GoroutinesTyped ==
  ASSUME TypeOK
  PROVE  /\ loop \in Loops /\ saves \in [Savers -> Saves]
         /\ now \in Nat /\ one \subseteq Timers /\ two \subseteq Timers
BY DEF TypeOK, Loops, Saves

\* A step that leaves the goroutines of the jobs alone, and makes no job one that
\* may be started from a map, keeps what holds of every job.
LEMMA JobsStay ==
  ASSUME IInv, UNCHANGED <<jobVars, runs>>, now' \in Nat, now <= now',
         \A t \in Timers : (InOne(t)' => InOne(t)) /\ (InTwo(t)' => InTwo(t))
  PROVE  \A t \in Timers : JobInv(t)'
<1> TAKE t \in Timers
<1>1. UNCHANGED <<fresh, ended, next, times, first, calls, runs>>
  BY DEF jobVars
<1> QED
  BY <1>1, SameJob DEF IInv

\* The clock goes on.
LEMMA ClockSound == ASSUME IInv, Clock PROVE IInv'
<1>1. /\ now < MaxTime /\ now' = now + 1 /\ tick' = TRUE
      /\ UNCHANGED <<one, two, done, seq, loop, saves, runs, fresh, ended, next, times, first, calls>>
  BY DEF Clock, jobVars, mapVars
<1>2. TypeOK'
  BY <1>1, TimerAssumption DEF IInv, TypeOK
<1>3. now' \in Nat /\ now <= now' /\ LoopInv' /\ SaveInv'
  BY <1>1 DEF IInv, TypeOK, LoopInv, SaveInv
<1>4. \A t \in Timers : JobInv(t)'
  BY <1>1, <1>3, JobsStay DEF jobVars, InOne, InTwo
<1> QED
  BY <1>2, <1>3, <1>4 DEF IInv

\* A tick: the ticker reads the clock, and every so often starts checkSave.
LEMMA TickSound ==
  ASSUME IInv, Tick \/ \E s \in Savers : TickSaves(s)
  PROVE  IInv'
<1>1. /\ loop.at = "wait" /\ tick' = FALSE /\ Scan
      /\ UNCHANGED <<now, one, two, done, runs, fresh, ended, next, times, first, calls>>
  BY DEF Tick, TickSaves, jobVars, mapVars
<1>2. seq' \in 0 .. (SaveEvery - 1)
  BY TimerAssumption DEF Tick, TickSaves, IInv, TypeOK
<1>3. /\ loop' \in Loops
      /\ loop'.at = "scan" /\ loop'.now = now
  <2>1. loop \in Loops /\ now \in Nat /\ one \subseteq Timers
    BY GoroutinesTyped DEF IInv
  <2> QED
    BY <1>1, <2>1 DEF Scan, Loops
<1>4. saves' = saves \/ \E s \in Savers : saves[s] = Idle /\ saves' = [saves EXCEPT ![s].at = "begin"]
  BY DEF Tick, TickSaves
<1>5. /\ saves' \in [Savers -> Saves]
      /\ \A s \in Savers : saves'[s] = saves[s] \/ (saves[s] = Idle /\ saves'[s].at = "begin")
  <2>1. saves \in [Savers -> Saves]
    BY GoroutinesTyped DEF IInv
  <2>2. ASSUME NEW s \in Savers, saves[s] = Idle, saves' = [saves EXCEPT ![s].at = "begin"]
        PROVE  /\ saves' \in [Savers -> Saves] /\ saves'[s].at = "begin"
               /\ \A r \in Savers \ {s} : saves'[r] = saves[r]
    BY <2>1, <2>2 DEF Saves
  <2> QED
    BY <1>4, <2>1, <2>2
<1>6. TypeOK'
  BY <1>1, <1>2, <1>3, <1>5 DEF IInv, TypeOK, Loops, Saves
<1>7. now' \in Nat /\ now <= now' /\ LoopInv' /\ SaveInv'
  BY <1>1, <1>3, <1>5 DEF IInv, TypeOK, LoopInv, SaveInv
<1>8. \A t \in Timers : (InOne(t)' => InOne(t)) /\ (InTwo(t)' => InTwo(t))
  BY <1>1, <1>5 DEF InOne, InTwo, Idle
<1>9. \A t \in Timers : JobInv(t)'
  BY <1>1, <1>7, <1>8, JobsStay DEF jobVars
<1> QED
  BY <1>6, <1>7, <1>9 DEF IInv

\* The ticker passes over a job, deletes one it started, ends its round, or exits,
\* when the order to exit was given.
LEMMA TickerSound ==
  ASSUME IInv, ScanDelete \/ ScanEnd \/ Exit \/ CloseAndExit \/ \E t \in Timers : ScanLater(t)
  PROVE  IInv'
<1>1. UNCHANGED <<now, two, tick, seq, saves, runs, fresh, ended, next, times, first, calls>>
  BY DEF ScanDelete, ScanEnd, Exit, CloseAndExit, ScanLater, jobVars, mapVars
<1>2. /\ loop' \in Loops
      /\ loop'.now \in {0, loop.now}
  <2>1. loop \in Loops
    BY GoroutinesTyped DEF IInv
  <2>2. CASE ScanDelete
    BY <2>1, <2>2 DEF ScanDelete, Loops
  <2>3. CASE ScanEnd \/ Exit
    BY <2>3 DEF ScanEnd, Exit, Waiting, Loops
  <2>4. CASE CloseAndExit
    BY <2>1, <2>4 DEF CloseAndExit
  <2>5. ASSUME NEW t \in Timers, ScanLater(t) PROVE loop' \in Loops /\ loop'.now = loop.now
    BY <2>1, <2>5 DEF ScanLater, Loops
  <2> QED
    BY <2>2, <2>3, <2>4, <2>5
<1>3. one' \subseteq one /\ done' \in BOOLEAN
  BY DEF ScanDelete, ScanEnd, Exit, CloseAndExit, ScanLater, mapVars, IInv, TypeOK
<1>4. TypeOK'
  BY <1>1, <1>2, <1>3 DEF IInv, TypeOK, Loops
<1>5. now' \in Nat /\ now <= now' /\ LoopInv' /\ SaveInv'
  BY <1>1, <1>2 DEF IInv, TypeOK, LoopInv, SaveInv
<1>6. \A t \in Timers : InOne(t)' => InOne(t)
  BY DEF InOne, ScanDelete, ScanEnd, Exit, CloseAndExit, ScanLater, mapVars, IInv, TypeOK
<1>7. \A t \in Timers : InTwo(t)' => InTwo(t)
  BY <1>1 DEF InTwo
<1>8. \A t \in Timers : JobInv(t)'
  BY <1>1, <1>5, <1>6, <1>7, JobsStay DEF jobVars
<1> QED
  BY <1>4, <1>5, <1>8 DEF IInv

\* The ticker starts a job whose time has come; from now on it is not startable
\* from the map, though it is in it until the ticker deletes it.
LEMMA ScanDueSound == ASSUME IInv, NEW t \in Timers, ScanDue(t) PROVE IInv'
<1>1. /\ loop.at = "scan" /\ t \in one /\ next[t] <= loop.now
      /\ Enter(t, "begin") /\ "begin" \in Stages
      /\ loop' = [loop EXCEPT !.at = "delete", !.key = t, !.seen = @ \cup {t}]
      /\ UNCHANGED <<now, one, two, tick, done, seq, saves, fresh, ended, next, times, first, calls>>
  BY DEF ScanDue, Stages, jobVars, mapVars
<1>2. TypeOK /\ JobInv(t) /\ loop.now <= now
  BY DEF IInv, LoopInv
<1>3. /\ runs' \in [Timers -> [Stages -> Nat]]
      /\ \A u \in Timers : u # t => runs'[u] = runs[u]
      /\ \A q \in Stages : runs'[t][q] = IF q = "begin" THEN runs[t][q] + 1 ELSE runs[t][q]
  BY <1>1, <1>2, Enters
<1>4. /\ loop' \in Loops
      /\ loop'.at = "delete" /\ loop'.key = t /\ loop'.now = loop.now
  BY <1>1, <1>2, GoroutinesTyped DEF Loops
<1>5. InOne(t) /\ ~ InOne(t)'
  BY <1>1, <1>4 DEF InOne
<1>6. /\ t \notin fresh /\ t \notin ended /\ ~ InTwo(t) /\ \A q \in Stages : runs[t][q] = 0
  BY <1>2, <1>5 DEF JobInv, OnePlace, Nowhere
<1>7. ~ InTwo(t)' /\ \A q \in Stages : runs'[t][q] = IF q = "begin" THEN 1 ELSE 0
  <2>1. ~ InTwo(t)'
    BY <1>1, <1>6 DEF InTwo
  <2> QED
    BY <1>3, <1>6, <2>1
<1>8. OnePlace(t)'
  BY <1>1, <1>5, <1>6, <1>7 DEF OnePlace
<1>9. CountInv(t)'
  BY <1>1, <1>2, <1>5 DEF JobInv, CountInv, Made, Active
<1>10. DueInv(t)'
  <2>1. next[t] <= now
    BY <1>1, <1>2, JobTyped DEF TypeOK
  <2> QED
    BY <1>1, <1>2, <1>5, <1>7, <2>1 DEF JobInv, DueInv, Stages
<1>11. JobInv(t)'
  BY <1>1, <1>6, <1>8, <1>9, <1>10 DEF JobInv
<1>12. ASSUME NEW u \in Timers, u # t PROVE JobInv(u)'
  <2>1. (InOne(u)' => InOne(u)) /\ (InTwo(u)' => InTwo(u))
    BY <1>1, <1>12 DEF InOne, InTwo
  <2>2. now' \in Nat /\ now <= now'
    BY <1>1, <1>2 DEF TypeOK
  <2> QED
    BY <1>1, <1>3, <1>12, <2>1, <2>2, SameJob DEF IInv
<1>13. TypeOK' /\ LoopInv' /\ SaveInv'
  <2>1. TypeOK'
    BY <1>1, <1>2, <1>3, <1>4 DEF TypeOK, Loops
  <2> QED
    BY <1>1, <1>2, <1>4, <2>1 DEF IInv, LoopInv, SaveInv
<1> QED
  BY <1>11, <1>12, <1>13 DEF IInv

\* checkSave begins, looks at a job, or ends.
LEMMA SaverSound ==
  ASSUME IInv, NEW s \in Savers,
         SaveBegins(s) \/ SaveEnd(s) \/ \E t \in Timers : SaveNear(s, t) \/ SaveLater(s, t)
  PROVE  IInv'
<1>1. UNCHANGED <<now, one, two, tick, done, seq, loop, runs, fresh, ended, next, times, first, calls>>
  BY DEF SaveBegins, SaveEnd, SaveNear, SaveLater, jobVars, mapVars, loopVars
<1>2. /\ saves' \in [Savers -> Saves]
      /\ \A r \in Savers \ {s} : saves'[r] = saves[r]
      /\ saves[s].at \in {"begin", "scan"}
      /\ saves'[s].at \in {"idle", "scan", "store"}
      /\ saves'[s].at = "store" => saves'[s].key \in two
  <2>0. saves \in [Savers -> Saves] /\ two \subseteq Timers /\ now \in Nat
    BY GoroutinesTyped DEF IInv
  <2>1. CASE SaveBegins(s)
    <3>1. now + Part \in Nat
      BY <2>0, TimerAssumption
    <3> QED
      BY <2>0, <2>1, <3>1 DEF SaveBegins, Idle, Saves
  <2>2. CASE SaveEnd(s)
    BY <2>0, <2>2 DEF SaveEnd, Idle, Saves
  <2>3. ASSUME NEW t \in Timers, SaveNear(s, t)
        PROVE  /\ saves' \in [Savers -> Saves] /\ \A r \in Savers \ {s} : saves'[r] = saves[r]
               /\ saves[s].at = "scan" /\ saves'[s].at = "store" /\ saves'[s].key \in two
    BY ZenonT(60), <2>0, <2>3 DEF SaveNear, Saves
  <2>4. ASSUME NEW t \in Timers, SaveLater(s, t)
        PROVE  /\ saves' \in [Savers -> Saves] /\ \A r \in Savers \ {s} : saves'[r] = saves[r]
               /\ saves[s].at = "scan" /\ saves'[s].at = "scan"
    BY <2>0, <2>4 DEF SaveLater, Saves
  <2> QED
    BY <2>1, <2>2, <2>3, <2>4
<1>3. TypeOK'
  BY <1>1, <1>2 DEF IInv, TypeOK, Saves
<1>4. now' \in Nat /\ now <= now' /\ LoopInv' /\ SaveInv'
  BY <1>1, <1>2 DEF IInv, TypeOK, LoopInv, SaveInv
<1>5. \A t \in Timers : (InOne(t)' => InOne(t)) /\ (InTwo(t)' => InTwo(t))
  BY <1>1, <1>2 DEF InOne, InTwo
<1>6. \A t \in Timers : JobInv(t)'
  BY <1>1, <1>4, <1>5, JobsStay DEF jobVars
<1> QED
  BY <1>3, <1>4, <1>6 DEF IInv

\* checkSave stores the job in one: it is startable from there, and no longer from
\* two, where checkSave will delete it.
LEMMA SaveStoresSound == ASSUME OneSaver, IInv, NEW s \in Savers, SaveStores(s) PROVE IInv'
<1>t. PICK t \in Timers : t = saves[s].key /\ t \in two
  BY DEF SaveStores, IInv, TypeOK, SaveInv
<1>1. /\ saves[s].at = "store" /\ one' = one \cup {t}
      /\ saves' = [saves EXCEPT ![s].at = "delete"]
      /\ UNCHANGED <<now, two, tick, done, seq, loop, runs, fresh, ended, next, times, first, calls>>
  BY <1>t DEF SaveStores, jobVars, loopVars
<1>2. TypeOK /\ JobInv(t)
  BY DEF IInv
<1>3. /\ saves' \in [Savers -> Saves]
      /\ saves'[s].at = "delete" /\ saves'[s].key = t
  BY <1>t, <1>1, <1>2, GoroutinesTyped DEF Saves
<1>4. InTwo(t) /\ ~ InTwo(t)'
  BY <1>t, <1>1, <1>3 DEF InTwo, OneSaver
<1>5. t \notin fresh /\ t \notin ended /\ ~ InOne(t) /\ \A q \in Stages : runs[t][q] = 0
  BY <1>2, <1>4 DEF JobInv, OnePlace, Nowhere
<1>6. OnePlace(t)'
  BY <1>1, <1>2, <1>4, <1>5 DEF OnePlace
<1>7. CountInv(t)'
  BY <1>1, <1>2, <1>4 DEF JobInv, CountInv, Made, Active
<1>8. DueInv(t)'
  BY <1>1, <1>2, <1>4 DEF JobInv, DueInv
<1>9. JobInv(t)'
  BY <1>1, <1>5, <1>6, <1>7, <1>8 DEF JobInv
<1>10. now' \in Nat /\ now <= now'
  BY <1>1, <1>2 DEF TypeOK
<1>11. ASSUME NEW u \in Timers, u # t PROVE JobInv(u)'
  <2>1. (InOne(u)' => InOne(u)) /\ (InTwo(u)' => InTwo(u))
    BY <1>1, <1>3, <1>11 DEF InOne, InTwo, OneSaver
  <2> QED
    BY <1>1, <1>10, <1>11, <2>1, SameJob DEF IInv
<1>12. TypeOK'
  BY <1>1, <1>2, <1>3 DEF TypeOK, Saves
<1>13. LoopInv' /\ SaveInv'
  BY <1>1, <1>3 DEF IInv, LoopInv, SaveInv, OneSaver
<1> QED
  BY <1>9, <1>11, <1>12, <1>13 DEF IInv

\* checkSave deletes the job in two.
LEMMA SaveDeletesSound == ASSUME OneSaver, IInv, NEW s \in Savers, SaveDeletes(s) PROVE IInv'
<1>1. /\ saves[s].at = "delete" /\ two' = two \ {saves[s].key}
      /\ saves' = [saves EXCEPT ![s] = [saves[s] EXCEPT !.at = "scan", !.key = None]]
      /\ UNCHANGED <<now, one, tick, done, seq, loop, runs, fresh, ended, next, times, first, calls>>
  BY DEF SaveDeletes, jobVars, loopVars, IInv, TypeOK
<1>2. /\ saves' \in [Savers -> Saves]
      /\ saves'[s].at = "scan"
  BY <1>1, GoroutinesTyped DEF IInv, Saves
<1>3. TypeOK'
  BY <1>1, <1>2 DEF IInv, TypeOK, Saves
<1>4. now' \in Nat /\ now <= now' /\ LoopInv' /\ SaveInv'
  BY <1>1, <1>2 DEF IInv, TypeOK, LoopInv, SaveInv, OneSaver
<1>5. \A t \in Timers : (InOne(t)' => InOne(t)) /\ (InTwo(t)' => InTwo(t))
  BY <1>1 DEF InOne, InTwo, OneSaver
<1>6. \A t \in Timers : JobInv(t)'
  BY <1>1, <1>4, <1>5, JobsStay DEF jobVars
<1> QED
  BY <1>3, <1>4, <1>6 DEF IInv

-----------------------------------------------------------------------------

\* At the start every job is still to be added.
LEMMA InitSound == Init => IInv
<1> SUFFICES ASSUME Init PROVE IInv
  OBVIOUS
<1>1. TypeOK
  <2>1. Waiting \in Loops /\ Idle \in Saves /\ 0 \in 0 .. (SaveEvery - 1) /\ 0 \in 0 .. MaxTime
    BY TimerAssumption DEF Waiting, Idle, Loops, Saves
  <2> QED
    BY <2>1 DEF Init, TypeOK, Loops, Saves
<1>2. LoopInv /\ SaveInv
  BY DEF Init, LoopInv, SaveInv, Waiting, Idle
<1>3. ASSUME NEW t \in Timers PROVE JobInv(t)
  <2>1. ~ InOne(t) /\ ~ InTwo(t)
    BY DEF Init, InOne, InTwo
  <2> QED
    BY <2>1 DEF Init, JobInv, OnePlace, Nowhere, CountInv, DueInv, Stages
<1> QED
  BY <1>1, <1>2, <1>3 DEF IInv

\* Every step of the timer keeps each job in one place, with what is left of its
\* times and the time of its next call.
LEMMA NextSound == OneSaver /\ IInv /\ [Next]_vars => IInv'
<1> SUFFICES ASSUME OneSaver, IInv, [Next]_vars PROVE IInv'
  OBVIOUS
<1>1. ASSUME NEW t \in Timers, Adding(t) \/ run(t) \/ Put(t) PROVE IInv'
  BY <1>1, AddSound, FirstReturnsSound, EndSound, RunLastSound, RunMoreSound, AgainSound, PutSound
    DEF Adding, run
<1>2. CASE Ticker \/ CloseAndExit
  BY <1>2, TickSound, TickerSound, ScanDueSound DEF Ticker
<1>3. ASSUME NEW s \in Savers, checkSave(s) PROVE IInv'
  BY <1>3, SaverSound, SaveStoresSound, SaveDeletesSound DEF checkSave
<1>4. CASE Clock
  BY <1>4, ClockSound
<1>5. CASE UNCHANGED vars
  <2>1. UNCHANGED <<now, fresh, next, times, first, calls, ended, one, two, tick, done, seq, loop,
                    saves, runs>>
    BY <1>5 DEF vars, jobVars, mapVars, loopVars
  <2>2. TypeOK'
    BY <2>1 DEF IInv, TypeOK
  <2>3. now' \in Nat /\ now <= now' /\ LoopInv' /\ SaveInv'
    BY <2>1 DEF IInv, TypeOK, LoopInv, SaveInv
  <2>4. \A t \in Timers : JobInv(t)'
    BY <2>1, <2>3, JobsStay DEF jobVars, InOne, InTwo
  <2> QED
    BY <2>2, <2>3, <2>4 DEF IInv
<1> QED
  BY <1>1, <1>2, <1>3, <1>4, <1>5 DEF Next, Finished

\* The invariant, for timers of which no two checkSaves meet.
LEMMA Sound == ASSUME OneSaver PROVE Spec => []IInv
BY InitSound, NextSound, OneSaver, PTL DEF Spec

\* Every variable of the timer stays in its range.
THEOREM Typing == ASSUME OneSaver PROVE Spec => []TypeOK
<1>1. IInv => TypeOK
  BY DEF IInv
<1> QED
  BY <1>1, Sound, OneSaver, PTL

\* run: a function that counts is called no more often than was asked.
THEOREM AtMostTimesHolds == ASSUME OneSaver PROVE Spec => []AtMostTimes
<1>1. IInv => AtMostTimes
  <2> SUFFICES ASSUME IInv, NEW t \in Timers, Added(t), Job[t].count, Job[t].times > 0
               PROVE  Made(t) <= Job[t].times
    BY DEF AtMostTimes, Made
  <2>1. /\ times[t] >= 1
        /\ Made(t) + times[t] = Job[t].times \/ Made(t) = Job[t].times
    BY DEF IInv, JobInv, CountInv, Added
  <2> QED
    BY <2>1, JobTyped DEF IInv, Made
<1> QED
  BY <1>1, Sound, OneSaver, PTL

\* run: no call of a function comes before its turn by more than the stamp lost.
THEOREM NeverEarlyHolds == ASSUME OneSaver PROVE Spec => []NeverEarly
<1>1. IInv => NeverEarly
  BY DEF IInv, JobInv, DueInv, NeverEarly
<1> QED
  BY <1>1, Sound, OneSaver, PTL

\* run, put and checkSave: a function is never called beside itself.
THEOREM OneAtATimeHolds == ASSUME OneSaver PROVE Spec => []OneAtATime
<1>1. IInv => OneAtATime
  <2> SUFFICES ASSUME IInv, NEW t \in Timers
               PROVE  runs[t]["calling"] + runs[t]["last"] + runs[t]["first"] <= 1
    BY DEF OneAtATime
  <2>1. /\ runs[t]["calling"] \in Nat /\ runs[t]["last"] \in Nat /\ runs[t]["first"] \in Nat
        /\ runs[t]["calling"] <= 1 /\ runs[t]["last"] <= 1 /\ runs[t]["first"] <= 1
    BY JobTyped DEF IInv, JobInv, OnePlace, Stages
  <2>2. /\ ~ (runs[t]["calling"] > 0 /\ runs[t]["last"] > 0)
        /\ ~ (runs[t]["calling"] > 0 /\ runs[t]["first"] > 0)
        /\ ~ (runs[t]["last"] > 0 /\ runs[t]["first"] > 0)
    <3>1. \A p, q \in Stages : runs[t][p] > 0 /\ runs[t][q] > 0 => p = q
      BY DEF IInv, JobInv, OnePlace
    <3> QED
      BY <3>1 DEF Stages
  <2> QED
    BY <2>1, <2>2
<1> QED
  BY <1>1, Sound, OneSaver, PTL

\* ReturnsFalse: a job that ended itself is nowhere, and is not called again.
THEOREM NoMoreCalls == ASSUME OneSaver PROVE Spec => NoCallAfterFalse
<1>1. IInv /\ [Next]_vars => [\A t \in ended : calls'[t] = calls[t]]_vars
  <2> SUFFICES ASSUME IInv, [Next]_vars, NEW t \in ended PROVE calls'[t] = calls[t]
    OBVIOUS
  <2>1. /\ t \in Timers /\ t \notin fresh /\ runs[t]["begin"] = 0
        /\ calls \in [Timers -> Nat]
    BY DEF IInv, TypeOK, JobInv, Nowhere, Stages
  <2>2. ASSUME NEW u \in Timers, RunLast(u) \/ RunMore(u) PROVE calls'[t] = calls[t]
    <3>1. u # t /\ calls' = [calls EXCEPT ![u] = @ + 1]
      BY <2>1, <2>2 DEF RunLast, RunMore, Pass
    <3> QED
      BY <2>1, <3>1
  <2>3. ASSUME NEW u \in Timers, Adding(u) \/ LastReturns(u) \/ Again(u) \/ ReturnsFalse(u) \/ Put(u)
        PROVE  calls' = calls
    BY <2>3 DEF Adding, Add, FirstReturns, LastReturns, Again, ReturnsFalse, Put, jobVars
  <2>4. ASSUME Ticker \/ CloseAndExit \/ Clock PROVE calls' = calls
    BY <2>4 DEF Ticker, Tick, TickSaves, ScanDue, ScanLater, ScanDelete, ScanEnd, Exit,
         CloseAndExit, Clock, jobVars
  <2>5. ASSUME NEW s \in Savers, checkSave(s) PROVE calls' = calls
    BY <2>5 DEF checkSave, SaveBegins, SaveStores, SaveDeletes, SaveEnd, SaveNear, SaveLater, jobVars
  <2>6. ASSUME UNCHANGED vars PROVE calls' = calls
    BY <2>6 DEF vars, jobVars
  <2> QED
    BY <2>2, <2>3, <2>4, <2>5, <2>6 DEF Next, Finished, run
<1> QED
  BY <1>1, Sound, OneSaver, PTL DEF Spec, NoCallAfterFalse
=============================================================================
