--------------------------- MODULE DispatchProofs ---------------------------
(***************************************************************************)
(* What holds of Dispatch for any callers, nodes, connections, answers of   *)
(* the watcher and number of broken connections: one node runs a request,   *)
(* as often as its server is handed it, but for those over HTTP whose       *)
(* answer was lost, and every variable stays in its range.                  *)
(***************************************************************************)
EXTENDS Dispatch, FiniteSetTheorems, TLAPS

\* The call has written no request on a TCP connection yet.
Unwritten == {"idle", "swap", "again", "write"}

\* A request of the call is on its way to a server.
Asked(c) == \E k \in Conns : \E r \in req[k] : r.owner = c

\* How often the connection on which a call wrote its request may have it run.
Limit(c) == IF via[c] \in Conns \ Http THEN Handovers[c][via[c]] ELSE 1

\* A request r of c on its way to the server of k: the only one of its call, on the
\* connection it was written on, and behind each run that no answer over HTTP was lost of
\* there is one time that it was handed over.
RequestInv(c, k, r) ==
  /\ via[c] = k /\ k \notin Http
  /\ ran[c] + 1 <= lost[c] + r.copy /\ r.copy <= Handovers[c][k]
  /\ \A j \in Conns : \A s \in req[j] : s.owner = c => s = r

\* Every run of the function is accounted for: by a lost answer over HTTP, or as one of
\* the exchange that is under way or was the last.
OnceInv(c) ==
  /\ pc[c] = "idle" => lost[c] = 0
  /\ stage[c] \in {"post", "posted"} => pc[c] = "write"
  /\ pc[c] \in Unwritten =>
       ~ Asked(c) /\ ran[c] = lost[c] + (IF stage[c] = "posted" THEN 1 ELSE 0)
  /\ pc[c] \notin Unwritten => ran[c] <= lost[c] + Limit(c)
  /\ \A k \in Conns : \A r \in req[k] : r.owner = c => RequestInv(c, k, r)

\* The ranges the invariant needs.
Ranges ==
  /\ pc \in [Callers -> Unwritten \cup {"newchan", "wait", "delchan", "done"}]
  /\ stage \in [Callers -> Stages]
  /\ ran \in [Callers -> Nat] /\ lost \in [Callers -> Nat]
  /\ DOMAIN via = Callers /\ DOMAIN req = Conns /\ DOMAIN back = Conns
  /\ \A k \in Conns : \A r \in req[k] :
       /\ r = [owner |-> r.owner, num |-> r.num, copy |-> r.copy]
       /\ r.owner \in Callers /\ r.copy \in Nat

IInv == Ranges /\ \A c \in Callers : OnceInv(c)

-----------------------------------------------------------------------------

\* A connection has a request run at least once.
LEMMA Limits ==
  ASSUME NEW c \in Callers
  PROVE  Limit(c) \in Nat /\ Limit(c) >= 1 /\ Limit(c)' \in Nat /\ Limit(c)' >= 1
  BY CallsAssumption DEF Limit

\* A step that writes no request of c, and touches nothing else of c.
LEMMA Untouched ==
  ASSUME IInv, NEW c \in Callers,
         \A k \in Conns : \A r \in req'[k] : r.owner = c => r \in req[k],
         pc'[c] = pc[c], stage'[c] = stage[c], via'[c] = via[c], ran'[c] = ran[c], lost'[c] = lost[c]
  PROVE  OnceInv(c)'
<1>1. Asked(c)' => Asked(c)
  BY DEF Asked
<1>2. Limit(c)' = Limit(c)
  BY DEF Limit
<1>3. OnceInv(c)
  BY DEF IInv
<1>4. ASSUME NEW k \in Conns, NEW r \in req'[k], r.owner = c PROVE RequestInv(c, k, r)'
  <2>1. r \in req[k] /\ RequestInv(c, k, r)
    BY <1>3, <1>4 DEF OnceInv
  <2> QED
    BY <2>1 DEF RequestInv
<1> QED
  BY <1>1, <1>2, <1>3, <1>4 DEF OnceInv

\* A step of c, that writes no request of another call, keeps what holds of the others.
LEMMA OthersOnce ==
  ASSUME IInv, NEW c \in Callers,
         \A k \in Conns : \A r \in req'[k] : r \in req[k] \/ r.owner = c,
         \A d \in Callers \ {c} : /\ pc'[d] = pc[d] /\ stage'[d] = stage[d] /\ via'[d] = via[d]
                                  /\ ran'[d] = ran[d] /\ lost'[d] = lost[d]
  PROVE  \A d \in Callers \ {c} : OnceInv(d)'
  BY Untouched

\* A call on its way to connsCall has run nothing, and goes on or returns an error.
LEMMA LookedUp ==
  ASSUME IInv, NEW c \in Callers, pc[c] = "idle",
         UNCHANGED <<ran, lost, via>>, DOMAIN req' = Conns, DOMAIN back' = Conns,
         \A k \in Conns : req'[k] \subseteq req[k],
         NEW s \in Stages \ {"post", "posted"},
         stage' = stage \/ stage' = [stage EXCEPT ![c] = s],
         pc' = pc \/ pc' = [pc EXCEPT ![c] = "done"]
  PROVE  IInv'
<1>1. \A d \in Callers \ {c} : OnceInv(d)'
  BY OthersOnce DEF IInv, Ranges
<1>2. stage[c] \notin {"post", "posted"} /\ stage'[c] \notin {"post", "posted"}
  BY DEF IInv, Ranges, OnceInv
<1>3. ~ Asked(c) /\ ran[c] = lost[c] /\ lost[c] = 0
  BY <1>2 DEF IInv, Ranges, OnceInv, Unwritten
<1>4. ~ Asked(c)'
  BY <1>3 DEF Asked
<1>5. OnceInv(c)'
  <2>1. pc'[c] \in {"idle", "done"}
    BY DEF IInv, Ranges
  <2> QED
    BY <1>2, <1>3, <1>4, <2>1, Limits DEF OnceInv, Asked, Unwritten
<1>6. Ranges'
  BY DEF IInv, Ranges
<1> QED
  BY <1>1, <1>5, <1>6 DEF IInv

\* Query: the function may run here, and then the call returns.
LEMMA QueryOnce == ASSUME IInv, NEW c \in Callers, Query(c) PROVE IInv'
<1>1. /\ pc[c] = "idle" /\ stage[c] = "start" /\ UNCHANGED <<lost, via, req, back>>
      /\ \A d \in Callers \ {c} : pc'[d] = pc[d] /\ stage'[d] = stage[d] /\ ran'[d] = ran[d]
  BY DEF Query, At, GiveUp, Go, To, Rest, netVars, IInv, Ranges
<1>2. \A d \in Callers \ {c} : OnceInv(d)'
  BY <1>1, OthersOnce
<1>3. ran[c] = 0 /\ lost[c] = 0 /\ ~ Asked(c)
  BY <1>1 DEF IInv, OnceInv, Unwritten
<1>4. \/ ran' = ran /\ pc' = [pc EXCEPT ![c] = "done"] /\ stage' = stage
      \/ /\ ran' = [ran EXCEPT ![c] = 1] /\ pc' = [pc EXCEPT ![c] = "done"] /\ stage' = stage
      \/ /\ ran' = [ran EXCEPT ![c] = 0] /\ pc' = [pc EXCEPT ![c] = "done"] /\ stage' = stage
      \/ /\ ran' = [ran EXCEPT ![c] = 0] /\ pc' = pc
         /\ \E s \in {"start", "watch", "assign", "rows"} : stage' = [stage EXCEPT ![c] = s]
  <2>1. Route(want[c]) \in {"fail", "watch", "panic", "run", "assign", "rows"}
    BY DEF Route
  <2> QED
    BY <2>1 DEF Query, GiveUp, Go, To
<1>5. ~ Asked(c)' /\ stage'[c] \notin {"post", "posted"}
  BY <1>1, <1>3, <1>4 DEF Asked, IInv, Ranges
<1>6. OnceInv(c)'
  <2>1. /\ ran'[c] \in {0, 1} /\ lost'[c] = 0 /\ (ran'[c] = 0 \/ pc'[c] = "done")
        /\ pc'[c] \in {"idle", "done"}
    BY <1>1, <1>3, <1>4 DEF IInv, Ranges
  <2> QED
    BY <1>5, <2>1, Limits DEF OnceInv, Unwritten, Asked
<1>7. Ranges'
  BY <1>1, <1>4 DEF IInv, Ranges, Stages
<1> QED
  BY <1>2, <1>6, <1>7 DEF IInv

\* GetFuncConn, GetRemoteConn, GetAssignConn and the loop over the answer.
LEMMA AskOnce ==
  ASSUME IInv, NEW c \in Callers,
         GetFuncConn(c) \/ Ask(c) \/ Assign(c) \/ Each(c) \/ EachDone(c)
  PROVE  IInv'
<1>1. pc[c] = "idle" /\ UNCHANGED <<ran, lost, via, req, back>>
  BY DEF GetFuncConn, Ask, Assign, Each, EachDone, At, Keep, Rest, netVars
<1>2. /\ pc' = pc \/ pc' = [pc EXCEPT ![c] = "done"]
      /\ stage' = stage \/ \E s \in {"go", "ask", "each", "base", "test"} : stage' = [stage EXCEPT ![c] = s]
  BY DEF GetFuncConn, Ask, Assign, Each, EachDone, GiveUp, Begin, Go, To
<1>3. {"go", "ask", "each", "base", "test"} \subseteq Stages \ {"post", "posted"}
  BY DEF Stages
<1> QED
  BY <1>1, <1>2, <1>3, LookedUp DEF IInv, Ranges

\* NodeBaseToConn, RefreshConn and PutConn: connections are tested, closed, dialled,
\* taken off the cache and put into it.
LEMMA ConnectOnce ==
  ASSUME IInv, NEW c \in Callers,
         \/ Test(c) \/ Base(c) \/ Retest(c) \/ CloseTested(c) \/ DelConn(c)
         \/ Dial(c) \/ Put(c) \/ PutTest(c) \/ PutClose(c) \/ Store(c)
  PROVE  IInv'
<1> DEFINE S == {"each", "base", "retest", "dial", "put", "close", "del", "ptest", "store", "pclose"}
<1>1. S \subseteq Stages \ {"post", "posted"}
  BY DEF Stages
<1>2. CASE Base(c) \/ DelConn(c) \/ Put(c) \/ Store(c)
  <2>1. pc[c] = "idle" /\ UNCHANGED <<ran, lost, via, req, back>>
    BY <1>2 DEF Base, DelConn, Put, Store, At, Keep, Rest, netVars
  <2>2. UNCHANGED pc /\ \E s \in S : stage' = [stage EXCEPT ![c] = s]
    BY <1>2 DEF Base, DelConn, Put, Store, HasPut, Go, To, Found, Cached
  <2> QED
    BY <1>1, <2>1, <2>2, LookedUp DEF IInv, Ranges
<1>3. CASE Dial(c) \/ Test(c) \/ Retest(c) \/ PutTest(c)
  <2>1. DOMAIN back' = Conns
    BY <1>3 DEF Dial, Test, Retest, PutTest, TestOk, TestFails, Tested, IInv, Ranges
  <2>2. pc[c] = "idle" /\ UNCHANGED <<ran, lost, via, req>>
    BY <1>3 DEF Dial, Test, Retest, PutTest, Tests, At, Rest
  <2>3. UNCHANGED pc /\ \E s \in S : stage' = [stage EXCEPT ![c] = s]
    BY <1>3 DEF Dial, Test, Retest, PutTest, HasPut, Found, Go, To
  <2> QED
    BY <1>1, <2>1, <2>2, <2>3, LookedUp DEF IInv, Ranges
<1>4. CASE CloseTested(c) \/ PutClose(c)
  <2>1. /\ pc[c] = "idle" /\ UNCHANGED <<ran, lost, via, pc>> /\ Closed(Old(c))
        /\ \E s \in S : stage' = [stage EXCEPT ![c] = s]
    BY <1>4 DEF CloseTested, PutClose, At, Go, To, Rest
  <2>2. DOMAIN req' = Conns /\ DOMAIN back' = Conns /\ \A k \in Conns : req'[k] \subseteq req[k]
    BY <2>1 DEF Closed, Drop, IInv, Ranges
  <2> QED
    BY <1>1, <2>1, <2>2, LookedUp
<1> QED
  BY <1>2, <1>3, <1>4

\* Outside of an exchange, a call that moves on, and not back to where nothing was written.
LEMMA Moves ==
  ASSUME IInv, NEW c \in Callers, stage[c] = "go", UNCHANGED <<ran, lost, via, stage, req, back>>,
         NEW s \in {"swap", "again", "write", "newchan", "wait", "delchan", "done"},
         pc' = pc \/ pc' = [pc EXCEPT ![c] = s], pc[c] \in Unwritten \/ s \notin Unwritten
  PROVE  IInv'
<1>1. \A d \in Callers \ {c} : OnceInv(d)'
  BY OthersOnce DEF IInv, Ranges
<1>2. Asked(c)' <=> Asked(c)
  BY DEF Asked
<1>3. pc'[c] \in {pc[c], s}
  BY DEF IInv, Ranges
<1>4. OnceInv(c)'
  <2>1. OnceInv(c) /\ Limit(c)' = Limit(c) /\ lost[c] \in Nat /\ ran[c] \in Nat
    BY DEF IInv, Ranges, Limit
  <2>2. \A k \in Conns : \A r \in req'[k] : r.owner = c => RequestInv(c, k, r)'
    BY <2>1 DEF OnceInv, RequestInv
  <2>3. pc[c] \in Unwritten => ran[c] <= lost[c] + Limit(c)
    BY <2>1, Limits DEF OnceInv
  <2> QED
    BY <1>2, <1>3, <2>1, <2>2, <2>3 DEF OnceInv, Unwritten
<1>5. Ranges'
  BY DEF IInv, Ranges, Unwritten
<1> QED
  BY <1>1, <1>4, <1>5 DEF IInv

\* connsCall over TCP, but for the request itself.
LEMMA WiredOnce ==
  ASSUME IInv, NEW c \in Callers, Wired(c), \A k \in Conns \ Http : ~ Write(c, k)
  PROVE  IInv'
<1>1. stage[c] = "go" /\ UNCHANGED <<ran, lost, stage>>
  BY DEF Wired, ghostVars, mineVars, Same
<1>2. CASE Serial(c)
  <2>1. /\ UNCHANGED <<req, back, via>> /\ pc[c] \in Unwritten
        /\ \E s \in {"swap", "again", "write"} : pc' = [pc EXCEPT ![c] = s]
    BY <1>2 DEF Serial, SerialReserved, SerialAdd, SerialLow, SerialSwap, SerialAgain, Goto,
                netVars, Unwritten
  <2> QED
    BY <1>1, <2>1, Moves
<1>3. CASE AllWrong(c) \/ NewChan(c) \/ TakeAnswer(c) \/ ContextDone(c) \/ DelChan(c)
  <2>1. /\ UNCHANGED <<req, back, via>>
        /\ \E s \in {"wait", "delchan", "done"} : pc' = [pc EXCEPT ![c] = s]
    BY <1>3 DEF AllWrong, NewChan, TakeAnswer, ContextDone, DelChan, Goto, netVars
  <2> QED
    BY <1>1, <2>1, Moves DEF Unwritten
<1>4. CASE \E k \in Conns : WriteFails(c, k)
  <2>1. UNCHANGED <<req, back, pc, via>> /\ pc[c] \in Unwritten
    BY <1>4 DEF WriteFails, netVars, Unwritten
  <2> QED
    BY <1>1, <2>1, Moves
<1> QED
  BY <1>2, <1>3, <1>4 DEF Wired

\* Write: from here on the request is on its way, and the only one of its call.
LEMMA WriteOnce ==
  ASSUME IInv, NEW c \in Callers, Wired(c), NEW k \in Conns \ Http, Write(c, k)
  PROVE  IInv'
<1> DEFINE r == [owner |-> c, num |-> num[c], copy |-> 1]
<1>1. /\ stage[c] = "go" /\ UNCHANGED <<ran, lost, stage, back>>
      /\ pc[c] = "write" /\ pc' = [pc EXCEPT ![c] = "newchan"]
      /\ req' = [req EXCEPT ![k] = @ \cup {r}] /\ via' = [via EXCEPT ![c] = k]
  BY DEF Wired, Write, Goto, ghostVars, mineVars, Same
<1>2. r.owner = c /\ r.copy = 1 /\ r = [owner |-> r.owner, num |-> r.num, copy |-> r.copy]
  OBVIOUS
<1> HIDE DEF r
<1>3. \A j \in Conns : req'[j] = IF j = k THEN req[k] \cup {r} ELSE req[j]
  BY <1>1 DEF IInv, Ranges
<1>4. \A d \in Callers \ {c} : OnceInv(d)'
  <2>1. \A d \in Callers \ {c} : /\ pc'[d] = pc[d] /\ stage'[d] = stage[d] /\ via'[d] = via[d]
                                 /\ ran'[d] = ran[d] /\ lost'[d] = lost[d]
    BY <1>1 DEF IInv, Ranges
  <2>2. \A j \in Conns : \A m \in req'[j] : m \in req[j] \/ m.owner = c
    BY <1>2, <1>3
  <2> QED
    BY <2>1, <2>2, OthersOnce
<1>5. ~ Asked(c) /\ ran[c] = lost[c] /\ lost[c] \in Nat
  <2>1. OnceInv(c) /\ stage[c] # "posted" /\ pc[c] \in Unwritten /\ lost[c] \in Nat
    BY <1>1 DEF IInv, Ranges, Unwritten
  <2> QED
    BY <2>1 DEF OnceInv
<1>6. \A j \in Conns : \A m \in req'[j] : m.owner = c => j = k /\ m = r
  BY <1>3, <1>5 DEF Asked
<1>7. OnceInv(c)'
  <2>1. /\ pc'[c] = "newchan" /\ ran'[c] = lost'[c] /\ lost'[c] = lost[c] /\ stage'[c] = "go"
        /\ via'[c] = k
    BY <1>1, <1>5 DEF IInv, Ranges
  <2>2. Handovers[c][k] \in Nat /\ Handovers[c][k] >= 1
    BY CallsAssumption
  <2>3. ASSUME NEW j \in Conns, NEW m \in req'[j], m.owner = c PROVE RequestInv(c, j, m)'
    BY <1>2, <1>5, <1>6, <2>1, <2>2, <2>3 DEF RequestInv
  <2> QED
    BY <1>5, <2>1, <2>3, Limits DEF OnceInv, Unwritten
<1>8. Ranges'
  BY <1>1, <1>2, <1>3 DEF IInv, Ranges
<1> QED
  BY <1>4, <1>7, <1>8 DEF IInv

\* postHttpApi: whatever ran is paid for by the end of the exchange.
LEMMA PostOnce ==
  ASSUME IInv, NEW c \in Callers, Posts(c) \/ \E k \in Conns : Skip(c, k)
  PROVE  IInv'
<1>1. UNCHANGED <<req, back>>
  BY DEF Posts, Post, PostRuns, PostAnswered, PostFails, Skip, Around, netVars
<1>2. \/ /\ stage[c] = "go" /\ pc[c] = "write" /\ UNCHANGED <<pc, ran, lost>>
         /\ \E s \in {"go", "post"} : stage' = [stage EXCEPT ![c] = s]
      \/ /\ stage[c] = "post" /\ stage' = [stage EXCEPT ![c] = "posted"]
         /\ ran' = [ran EXCEPT ![c] = @ + 1] /\ UNCHANGED <<pc, lost>>
      \/ /\ stage[c] = "posted" /\ stage' = [stage EXCEPT ![c] = "go"]
         /\ pc' = [pc EXCEPT ![c] = "done"] /\ UNCHANGED <<ran, lost>>
      \/ /\ stage[c] = "post" /\ stage' = [stage EXCEPT ![c] = "go"]
         /\ UNCHANGED <<pc, ran>> /\ lost' = [lost EXCEPT ![c] = @]
      \/ /\ stage[c] = "posted" /\ stage' = [stage EXCEPT ![c] = "go"]
         /\ UNCHANGED <<pc, ran>> /\ lost' = [lost EXCEPT ![c] = @ + 1]
  <2>1. CASE \E k \in Conns : Skip(c, k)
    BY <2>1 DEF Skip, Same, mineVars, ghostVars, IInv, Ranges
  <2>2. CASE \E k \in Http : Post(c, k)
    BY <2>2 DEF Post, Posting
  <2>3. CASE PostRuns(c)
    BY <2>3 DEF PostRuns, Posting
  <2>4. CASE PostAnswered(c)
    BY <2>4 DEF PostAnswered, Posting
  <2>5. CASE PostFails(c)
    BY <2>5 DEF PostFails, Posting
  <2> QED
    BY <2>1, <2>2, <2>3, <2>4, <2>5 DEF Posts
<1>3. DOMAIN via' = Callers /\ \A d \in Callers \ {c} : via'[d] = via[d]
  BY DEF Posts, Post, PostRuns, PostAnswered, PostFails, Skip, IInv, Ranges
<1>4. \A d \in Callers \ {c} : OnceInv(d)'
  <2>1. \A d \in Callers \ {c} : /\ pc'[d] = pc[d] /\ stage'[d] = stage[d]
                                 /\ ran'[d] = ran[d] /\ lost'[d] = lost[d]
    BY <1>2 DEF IInv, Ranges
  <2> QED
    BY <1>1, <1>3, <2>1, OthersOnce
<1>5. pc[c] = "write" /\ ~ Asked(c) /\ ~ Asked(c)'
  <2>1. pc[c] = "write"
    BY <1>2 DEF IInv, OnceInv
  <2> QED
    BY <1>1, <2>1 DEF IInv, OnceInv, Unwritten, Asked
<1>6. /\ pc'[c] \in {"write", "done"} /\ ran'[c] \in Nat /\ lost'[c] \in Nat
      /\ \/ ran'[c] = lost'[c] + (IF stage'[c] = "posted" THEN 1 ELSE 0) /\ pc'[c] = "write"
         \/ pc'[c] = "done" /\ stage'[c] = "go" /\ ran'[c] = lost'[c] + 1
      /\ stage'[c] \in {"go", "post", "posted"} /\ (stage'[c] # "go" => pc'[c] = "write")
  <2>1. ran[c] = lost[c] + (IF stage[c] = "posted" THEN 1 ELSE 0) /\ ran[c] \in Nat /\ lost[c] \in Nat
    BY <1>5 DEF IInv, OnceInv, Unwritten, Ranges
  <2> QED
    BY <1>2, <1>5, <2>1 DEF IInv, Ranges
<1>7. OnceInv(c)'
  <2>1. CASE pc'[c] = "write"
    BY <1>5, <1>6, <2>1 DEF OnceInv, Unwritten, Asked
  <2>2. CASE pc'[c] = "done"
    <3>1. stage'[c] = "go" /\ ran'[c] = lost'[c] + 1
      BY <1>6, <2>2
    <3>2. ran'[c] <= lost'[c] + Limit(c)'
      BY <1>6, <3>1, Limits
    <3> QED
      BY <1>5, <2>2, <3>1, <3>2 DEF OnceInv, Unwritten, Asked
  <2> QED
    BY <1>6, <2>1, <2>2
<1>8. Ranges'
  BY <1>1, <1>2, <1>3, <1>6 DEF IInv, Ranges, Stages, Unwritten
<1> QED
  BY <1>4, <1>7, <1>8 DEF IInv

\* The rest of the process and the network: requests are lost, nothing runs.
LEMMA QuietOnce ==
  ASSUME IInv, UNCHANGED <<pc, stage, via, ran, lost>>, DOMAIN req' = Conns, DOMAIN back' = Conns,
         \A k \in Conns : req'[k] \subseteq req[k]
  PROVE  IInv'
<1>1. \A c \in Callers : OnceInv(c)'
  BY Untouched
<1>2. Ranges'
  BY DEF IInv, Ranges
<1> QED
  BY <1>1, <1>2 DEF IInv

\* The server is handed a request r and runs it: it is gone, or on its way once more.
LEMMA HandedOnce ==
  ASSUME IInv, NEW k \in Conns, NEW r \in req[k], NEW n \in {r, Another(r)},
         UNCHANGED <<pc, stage, via, lost>>,
         \A j \in Conns : \A s \in req'[j] : (s \in req[j] /\ s # r) \/ (j = k /\ s = n),
         n = r => r \notin req'[k], n # r => r.copy < Handovers[r.owner][k],
         ran' \in [Callers -> Nat], DOMAIN req' = Conns, DOMAIN back' = Conns,
         \A c \in Callers : ran'[c] = ran[c] \/ (c = r.owner /\ ran'[c] = ran[c] + 1)
  PROVE  IInv'
<1>1. /\ r = [owner |-> r.owner, num |-> r.num, copy |-> r.copy]
      /\ r.owner \in Callers /\ r.copy \in Nat
  BY DEF IInv, Ranges
<1>2. /\ n = [owner |-> n.owner, num |-> n.num, copy |-> n.copy]
      /\ n.owner = r.owner /\ n.copy \in Nat /\ (n # r => n.copy = r.copy + 1)
  BY <1>1 DEF Another
<1>3. ASSUME NEW c \in Callers, c # r.owner PROVE OnceInv(c)'
  <2>1. \A j \in Conns : \A s \in req'[j] : s.owner = c => s \in req[j]
    BY <1>2, <1>3
  <2> QED
    BY <1>3, <2>1, Untouched
<1>4. OnceInv(r.owner)'
  <2>1. PICK c \in Callers : c = r.owner
    BY <1>1
  <2>2. /\ pc[c] \notin Unwritten /\ RequestInv(c, k, r) /\ OnceInv(c)
        /\ ran[c] \in Nat /\ lost[c] \in Nat
    BY <2>1 DEF IInv, Ranges, OnceInv, Asked
  <2>3. Handovers[c][k] \in Nat /\ Limit(c)' = Handovers[c][k]
    BY <2>1, <2>2, CallsAssumption DEF RequestInv, Limit
  <2>4. ran'[c] <= lost[c] + r.copy /\ r.copy <= Handovers[c][k]
    BY <1>1, <2>1, <2>2 DEF RequestInv
  <2>5. \A j \in Conns : \A s \in req'[j] : s.owner = c => j = k /\ s = n /\ n # r
    BY <2>1, <2>2 DEF RequestInv
  <2>6. ASSUME NEW j \in Conns, NEW s \in req'[j], s.owner = c PROVE RequestInv(c, j, s)'
    <3>1. j = k /\ s = n /\ n.copy = r.copy + 1 /\ r.copy < Handovers[c][k]
      BY <1>2, <2>1, <2>5, <2>6
    <3> QED
      BY <1>1, <1>2, <2>2, <2>3, <2>4, <2>5, <3>1 DEF RequestInv
  <2>7. ran'[c] <= lost'[c] + Limit(c)'
    BY <1>1, <2>2, <2>3, <2>4
  <2> QED
    BY <2>1, <2>2, <2>6, <2>7 DEF OnceInv
<1>5. Ranges'
  BY <1>1, <1>2 DEF IInv, Ranges
<1> QED
  BY <1>1, <1>3, <1>4, <1>5 DEF IInv

\* The server: one run for each time it is handed a request.
LEMMA ServesOnce ==
  ASSUME IInv, NEW k \in Conns, Serves(k)
  PROVE  IInv'
<1>1. UNCHANGED <<pc, stage, lost, via>>
  BY DEF Serves, Server, ServeIgnored, Serve, ServeAgain, callVars, Same, mineVars
<1>2. CASE \E r \in req[k] : ServeIgnored(k, r)
  <2>1. PICK r \in req[k] : ServeIgnored(k, r)
    BY <1>2
  <2>2. back' = back /\ req' = [req EXCEPT ![k] = @ \ {r}]
    BY <2>1 DEF ServeIgnored
  <2>3. ran' = [c \in Callers |-> ran[c]]
    BY <2>2 DEF Serves
  <2>4. ran' = ran
    BY <2>3 DEF IInv, Ranges
  <2> QED
    BY <1>1, <2>2, <2>4, QuietOnce DEF IInv, Ranges
<1>3. ASSUME NEW r \in req[k], NEW a \in Answers, Serve(k, r, a) \/ ServeAgain(k, r, a)
      PROVE  IInv'
  <2>1. PICK m : m = [owner |-> r.owner, num |-> r.num, kind |-> a, copy |-> r.copy]
    OBVIOUS
  <2>2. back' = [back EXCEPT ![k] = @ \cup {m}] /\ m.owner = r.owner
    BY <1>3, <2>1 DEF Serve, ServeAgain, Answered
  <2>3. \A c \in Callers : ran'[c] = ran[c] \/ (c = r.owner /\ ran'[c] = ran[c] + 1)
    <3>1. \A n \in back'[k] \ back[k] : n.owner = r.owner
      BY <2>2 DEF IInv, Ranges
    <3> TAKE c \in Callers
    <3>2. CASE \E n \in back'[k] \ back[k] : n.owner = c
      BY <3>1, <3>2 DEF Serves
    <3>3. CASE ~ \E n \in back'[k] \ back[k] : n.owner = c
      BY <3>3 DEF Serves
    <3> QED
      BY <3>2, <3>3
  <2>4. ran' \in [Callers -> Nat]
    <3>1. DOMAIN ran' = Callers /\ ran' = [c \in Callers |-> ran'[c]]
      BY DEF Serves
    <3> QED
      BY <2>3, <3>1 DEF IInv, Ranges
  <2>5. CASE Serve(k, r, a)
    <3>1. req' = [req EXCEPT ![k] = @ \ {r}]
      BY <2>5 DEF Serve
    <3>2. \A j \in Conns : \A s \in req'[j] : (s \in req[j] /\ s # r) \/ (j = k /\ s = r)
      <4> TAKE j \in Conns
      <4>1. CASE j = k
        BY <3>1, <4>1 DEF IInv, Ranges
      <4>2. CASE j # k
        BY <3>1, <4>2, <1>3 DEF IInv, Ranges, OnceInv, RequestInv
      <4> QED
        BY <4>1, <4>2
    <3>3. DOMAIN req' = Conns /\ DOMAIN back' = Conns /\ r \notin req'[k]
      BY <2>2, <3>1 DEF IInv, Ranges
    <3> QED
      BY <1>1, <2>3, <2>4, <3>2, <3>3, HandedOnce
  <2>6. CASE ServeAgain(k, r, a)
    <3>1. PICK n : n = Another(r)
      OBVIOUS
    <3>2. req' = [req EXCEPT ![k] = (@ \ {r}) \cup {n}] /\ r.copy < Handovers[r.owner][k]
      BY <2>6, <3>1 DEF ServeAgain
    <3>3. n # r
      <4>1. r = [owner |-> r.owner, num |-> r.num, copy |-> r.copy] /\ r.copy \in Nat
        BY DEF IInv, Ranges
      <4> QED
        BY <3>1, <4>1 DEF Another
    <3>4. \A j \in Conns : \A s \in req'[j] : (s \in req[j] /\ s # r) \/ (j = k /\ s = n)
      <4> TAKE j \in Conns
      <4>1. CASE j = k
        BY <3>2, <4>1 DEF IInv, Ranges
      <4>2. CASE j # k
        BY <3>2, <4>2, <1>3 DEF IInv, Ranges, OnceInv, RequestInv
      <4> QED
        BY <4>1, <4>2
    <3>5. DOMAIN req' = Conns /\ DOMAIN back' = Conns
      BY <2>2, <3>2 DEF IInv, Ranges
    <3> QED
      BY <1>1, <2>3, <2>4, <3>1, <3>2, <3>3, <3>4, <3>5, HandedOnce
  <2> QED
    BY <1>3, <2>5, <2>6
<1> QED
  BY <1>2, <1>3 DEF Serves, Server

\* The connections break, are tested and dialled again, and are read from; messages are lost.
LEMMA NetOnce ==
  ASSUME IInv, NEW k \in Conns,
         Breaks(k) \/ Loses(k) \/ TimerCheck(k) \/ (ReadResp(k) /\ UNCHANGED ghostVars /\ Same)
  PROVE  IInv'
<1>1. UNCHANGED <<stage, ran, lost>>
  BY DEF Breaks, Loses, TimerCheck, ghostVars, mineVars, Same
<1>2. CASE Breaks(k) \/ Loses(k)
  <2>1. UNCHANGED <<pc, via>> /\ DOMAIN req' = Conns /\ DOMAIN back' = Conns
    BY <1>2 DEF Breaks, Break, Drop, Loses, LoseRequest, LoseAnswer, callVars, IInv, Ranges
  <2>2. \A j \in Conns : req'[j] \subseteq req[j]
    BY <1>2 DEF Breaks, Break, Drop, Loses, LoseRequest, LoseAnswer, IInv, Ranges
  <2> QED
    BY <1>1, <2>1, <2>2, QuietOnce
<1>3. CASE TimerCheck(k)
  <2>1. UNCHANGED <<pc, via, req>>
    BY <1>3 DEF TimerCheck, TestConn, Refresh, Sweep, callVars, netVars, vars
  <2>2. DOMAIN back' = Conns
    BY <1>3 DEF TimerCheck, TestConn, Refresh, Tested, Sweep, netVars, vars, IInv, Ranges
  <2> QED
    BY <1>1, <2>1, <2>2, QuietOnce DEF IInv, Ranges
<1>4. CASE ReadResp(k) /\ UNCHANGED ghostVars /\ Same
  <2>1. UNCHANGED <<pc, via, req>> /\ DOMAIN back' = Conns
    BY <1>4 DEF ReadResp, ReadAnswer, ReadFailure, LookupFound, LookupMissed, SendBody, ReadError,
                callVars, netVars, IInv, Ranges
  <2> QED
    BY <1>1, <2>1, QuietOnce DEF IInv, Ranges
<1> QED
  BY <1>2, <1>3, <1>4

\* DispatchInit: nothing was written, nothing ran.
LEMMA InitOnce == DispatchInit => IInv
<1> HAVE DispatchInit
<1>1. \A k \in Conns : req[k] = {}
  BY DEF DispatchInit, Init
<1> QED
  BY <1>1 DEF DispatchInit, Init, IInv, Ranges, OnceInv, Asked, Unwritten, Stages

\* Every step keeps the invariant.
LEMMA NextOnce == ASSUME IInv, [DispatchNext]_allVars PROVE IInv'
<1>1. ASSUME NEW c \in Callers, Calling(c) PROVE IInv'
  BY <1>1, QueryOnce, AskOnce, ConnectOnce, WiredOnce, WriteOnce, PostOnce DEF Calling, Lookup
<1>2. ASSUME NEW u \in Nodes, ClearConn(u) PROVE IInv'
  BY <1>2, QuietOnce DEF ClearConn, vars, callVars, netVars, mineVars, ghostVars, IInv, Ranges
<1>3. CASE UNCHANGED allVars
  BY <1>3, QuietOnce DEF allVars, vars, callVars, netVars, mineVars, ghostVars, IInv, Ranges
<1> QED
  BY <1>1, <1>2, <1>3, ServesOnce, NetOnce DEF DispatchNext, Returned

\* No two nodes run a call's function, nor a node after it ran here, but for the requests
\* over HTTP whose answer was lost: failing over never repeats what a node was already
\* asked over TCP.  And the node runs it no more often than its server is handed the
\* request, once when it has one or two frames.
THEOREM AtMostOnceHolds == DispatchSpec => []AtMostOnce
<1>1. ASSUME IInv PROVE AtMostOnce
  <2> SUFFICES ASSUME NEW c \in Callers PROVE ran[c] <= lost[c] + Limit(c)
    BY DEF AtMostOnce, Limit
  <2>1. OnceInv(c) /\ ran[c] \in Nat /\ lost[c] \in Nat /\ Limit(c) \in Nat /\ Limit(c) >= 1
    BY <1>1, Limits DEF IInv, Ranges
  <2> QED
    BY <2>1 DEF OnceInv
<1> QED
  BY InitOnce, NextOnce, <1>1, PTL DEF DispatchSpec

-----------------------------------------------------------------------------
(* The ranges.  What they rest on: every connection in use was dialled, and  *)
(* a connection over HTTP whose answer was lost is not tried again.          *)

\* What a call has in hand at a stage s of the search for connections.
Ready(s, f) ==
  /\ s \in {"test", "base", "retest", "close", "del", "dial", "put", "ptest", "pclose", "store"} =>
       f.cur \in Nodes
  /\ s \in {"test", "retest", "close", "ptest", "pclose"} => f.old \in born
  /\ s \in {"put", "ptest", "pclose", "store"} => f.hand \in born

FindInv(c) == find[c] \in Finding /\ (pc[c] = "idle" => Ready(stage[c], find[c]))

\* Every answer lost over HTTP has used up a connection of connsCall's loop.
LeftInv(c) ==
  /\ left[c] \subseteq Conns
  /\ stage[c] \in {"post", "posted"} => via[c] \in left[c] \cap Http
  /\ lost[c] + Cardinality(left[c] \cap Http) <= Cardinality(Http)

CacheInv ==
  /\ known \subseteq Nodes /\ ser \in [Nodes -> born \cup {None}]
  /\ wrong \subseteq born /\ born \subseteq Conns /\ blank \subseteq Http
  /\ upsets \in 0 .. MaxUpsets /\ crashed \in BOOLEAN

MineInv ==
  /\ want \in [Callers -> WantType] /\ find = [c \in Callers |-> find[c]]
  /\ left \in [Callers -> SUBSET Conns] /\ DOMAIN via = Callers

TypesInv ==
  IInv /\ CacheInv /\ MineInv /\ \A c \in Callers : FindInv(c) /\ LeftInv(c)

\* The sets that are counted are finite.
LEMMA Counted ==
  ASSUME NEW S \in SUBSET Conns
  PROVE  /\ IsFiniteSet(S \cap Http) /\ Cardinality(S \cap Http) \in Nat
         /\ Cardinality(S \cap Http) <= Cardinality(Http)
         /\ Cardinality(Http) \in Nat /\ Cardinality(Http) <= Cardinality(Conns)
         /\ Cardinality(Conns) \in Nat
         /\ \A k \in Conns : Cardinality((S \ {k}) \cap Http) <= Cardinality(S \cap Http)
         /\ \A k \in S \cap Http :
              Cardinality((S \ {k}) \cap Http) = Cardinality(S \cap Http) - 1
<1>1. IsFiniteSet(Conns) /\ Http \subseteq Conns /\ S \cap Http \subseteq Http
  BY DispatchAssumption
<1>2. IsFiniteSet(Http) /\ IsFiniteSet(S \cap Http)
  BY <1>1, FS_Subset
<1>3. \A k : (S \ {k}) \cap Http = (S \cap Http) \ {k}
  OBVIOUS
<1>4. \A T : IsFiniteSet(T) => Cardinality(T) \in Nat
  BY FS_CardinalityType
<1>5. \A k \in Conns : Cardinality((S \ {k}) \cap Http) <= Cardinality(S \cap Http)
  <2> TAKE k \in Conns
  <2>1. (S \ {k}) \cap Http \subseteq S \cap Http
    OBVIOUS
  <2> QED
    BY <1>2, <2>1, FS_Subset
<1>6. \A k \in S \cap Http : Cardinality((S \ {k}) \cap Http) = Cardinality(S \cap Http) - 1
  BY <1>2, <1>3, FS_RemoveElement
<1>7. Cardinality(S \cap Http) <= Cardinality(Http) /\ Cardinality(Http) <= Cardinality(Conns)
  BY <1>1, <1>2, FS_Subset
<1> QED
  BY <1>1, <1>2, <1>4, <1>5, <1>6, <1>7

\* The variables of the search, field by field.
Fields(list, todo, cur, rows, old, hand, puts) ==
  [list |-> list, todo |-> todo, cur |-> cur, rows |-> rows, old |-> old, hand |-> hand,
   puts |-> puts]

\* What the steps make of them.
LEMMA OneField ==
  ASSUME NEW CONSTANT f \in Finding, NEW CONSTANT a
  PROVE  /\ [f EXCEPT !.cur = a] = Fields(f.list, f.todo, a, f.rows, f.old, f.hand, f.puts)
         /\ [f EXCEPT !.old = a] = Fields(f.list, f.todo, f.cur, f.rows, a, f.hand, f.puts)
  BY DEF Finding, Fields

\* The answer of the watcher is the list, all of it to do.
LEMMA ListForm ==
  ASSUME NEW CONSTANT f \in Finding, NEW CONSTANT a
  PROVE  [f EXCEPT !.list = a, !.todo = a] =
           Fields(a, a, f.cur, f.rows, f.old, f.hand, f.puts)
<1>1. f = Fields(f.list, f.todo, f.cur, f.rows, f.old, f.hand, f.puts)
  BY DEF Finding, Fields
<1>2. PICK e : e = [f EXCEPT !.list = a]
  OBVIOUS
<1>3. e = Fields(a, f.todo, f.cur, f.rows, f.old, f.hand, f.puts)
  BY <1>1, <1>2 DEF Fields
<1>4. [e EXCEPT !.todo = a] = Fields(a, a, f.cur, f.rows, f.old, f.hand, f.puts)
  BY <1>3 DEF Fields
<1> QED
  BY <1>2, <1>4

\* The next node, with its cached connection.
LEMMA NextForm ==
  ASSUME NEW CONSTANT f \in Finding, NEW CONSTANT a, NEW CONSTANT b
  PROVE  [f EXCEPT !.cur = a, !.todo = @ \ {a}, !.old = b] =
           Fields(f.list, f.todo \ {a}, a, f.rows, b, f.hand, f.puts)
<1>1. f = Fields(f.list, f.todo, f.cur, f.rows, f.old, f.hand, f.puts)
  BY DEF Finding, Fields
<1>2. PICK e : e = [f EXCEPT !.cur = a]
  OBVIOUS
<1>3. e = Fields(f.list, f.todo, a, f.rows, f.old, f.hand, f.puts)
  BY <1>1, <1>2 DEF Fields
<1>4. e.todo = f.todo
  BY <1>3 DEF Fields
<1>5. PICK g : g = [e EXCEPT !.todo = e.todo \ {a}]
  OBVIOUS
<1>6. g = Fields(f.list, f.todo \ {a}, a, f.rows, f.old, f.hand, f.puts)
  BY <1>3, <1>4, <1>5 DEF Fields
<1>7. [g EXCEPT !.old = b] = Fields(f.list, f.todo \ {a}, a, f.rows, b, f.hand, f.puts)
  BY <1>6 DEF Fields
<1> QED
  BY <1>2, <1>4, <1>5, <1>7

\* A connection to put into the cache.
LEMMA HandForm ==
  ASSUME NEW CONSTANT f \in Finding, NEW CONSTANT a, NEW CONSTANT b
  PROVE  [f EXCEPT !.hand = a, !.puts = b] =
           Fields(f.list, f.todo, f.cur, f.rows, f.old, a, b)
<1>1. f = Fields(f.list, f.todo, f.cur, f.rows, f.old, f.hand, f.puts)
  BY DEF Finding, Fields
<1>2. PICK e : e = [f EXCEPT !.hand = a]
  OBVIOUS
<1>3. e = Fields(f.list, f.todo, f.cur, f.rows, f.old, a, f.puts)
  BY <1>1, <1>2 DEF Fields
<1>4. [e EXCEPT !.puts = b] = Fields(f.list, f.todo, f.cur, f.rows, f.old, a, b)
  BY <1>3 DEF Fields
<1> QED
  BY <1>2, <1>4

\* It was put there once.
LEMMA PutsForm ==
  ASSUME NEW CONSTANT f \in Finding, NEW CONSTANT a, NEW CONSTANT b
  PROVE  [f EXCEPT !.puts = a, !.old = b] =
           Fields(f.list, f.todo, f.cur, f.rows, b, f.hand, a)
<1>1. f = Fields(f.list, f.todo, f.cur, f.rows, f.old, f.hand, f.puts)
  BY DEF Finding, Fields
<1>2. PICK e : e = [f EXCEPT !.puts = a]
  OBVIOUS
<1>3. e = Fields(f.list, f.todo, f.cur, f.rows, f.old, f.hand, a)
  BY <1>1, <1>2 DEF Fields
<1>4. [e EXCEPT !.old = b] = Fields(f.list, f.todo, f.cur, f.rows, b, f.hand, a)
  BY <1>3 DEF Fields
<1> QED
  BY <1>2, <1>4

\* A step of c that leaves everything else of the calls as it is.
LEMMA OthersTyped ==
  ASSUME TypesInv, NEW c \in Callers, born \subseteq born',
         \A d \in Callers \ {c} :
           /\ pc'[d] = pc[d] /\ stage'[d] = stage[d] /\ find'[d] = find[d] /\ lost'[d] = lost[d]
           /\ left'[d] = left[d] /\ via'[d] = via[d],
         FindInv(c)', LeftInv(c)'
  PROVE  \A d \in Callers : FindInv(d)' /\ LeftInv(d)'
<1> TAKE d \in Callers
<1>1. CASE d = c
  BY <1>1
<1>2. CASE d # c
  <2>1. FindInv(d) /\ LeftInv(d)
    BY DEF TypesInv
  <2>2. find[d] \in Finding'
    BY <2>1 DEF FindInv, Finding
  <2>3. FindInv(d)'
    BY <1>2, <2>1, <2>2 DEF FindInv, Ready
  <2>4. LeftInv(d)'
    BY <1>2, <2>1 DEF LeftInv
  <2> QED
    BY <2>3, <2>4
<1> QED
  BY <1>1, <1>2

\* A step of the search that leaves its call at stage s with f in hand.
LEMMA Searches ==
  ASSUME TypesInv, IInv', CacheInv', NEW c \in Callers, born \subseteq born', UNCHANGED <<want, lost, via>>,
         NEW CONSTANT s, NEW CONSTANT f, To(c, s, f), s \notin {"post", "posted"}, f \in Finding', Ready(s, f)'
  PROVE  TypesInv'
<1>1. /\ UNCHANGED <<pc, left>> /\ DOMAIN find = Callers /\ stage \in [Callers -> Stages]
      /\ stage' = [stage EXCEPT ![c] = s] /\ find' = [find EXCEPT ![c] = f]
  BY DEF To, TypesInv, MineInv, IInv, Ranges
<1>2. FindInv(c)'
  BY <1>1 DEF FindInv
<1>3. LeftInv(c)'
  BY <1>1 DEF LeftInv, TypesInv
<1>4. \A d \in Callers : FindInv(d)' /\ LeftInv(d)'
  BY <1>1, <1>2, <1>3, OthersTyped
<1>5. MineInv'
  BY <1>1 DEF MineInv, TypesInv
<1> QED
  BY <1>4, <1>5 DEF TypesInv

\* Nothing in hand is in range.
LEMMA NothingTyped == ASSUME TypesInv PROVE Nothing \in Finding /\ Nothing \in Finding'
  BY DEF Nothing, Finding

\* The call returns before connsCall.
LEMMA GivesUp ==
  ASSUME TypesInv, IInv', CacheInv', NEW c \in Callers, born \subseteq born', UNCHANGED <<want, lost, via>>,
         GiveUp(c)
  PROVE  TypesInv'
<1>1. /\ UNCHANGED <<stage, left>> /\ DOMAIN find = Callers /\ DOMAIN pc = Callers
      /\ pc' = [pc EXCEPT ![c] = "done"] /\ find' = [find EXCEPT ![c] = Nothing]
  BY DEF GiveUp, TypesInv, MineInv, IInv, Ranges
<1>2. FindInv(c)'
  BY <1>1, NothingTyped DEF FindInv
<1>3. LeftInv(c)'
  BY <1>1 DEF LeftInv, TypesInv
<1>4. \A d \in Callers : FindInv(d)' /\ LeftInv(d)'
  BY <1>1, <1>2, <1>3, OthersTyped
<1>5. MineInv'
  BY <1>1 DEF MineInv, TypesInv
<1> QED
  BY <1>4, <1>5 DEF TypesInv

\* connsCall begins with some of the connections that were dialled.
LEMMA Begins ==
  ASSUME TypesInv, IInv', CacheInv', NEW c \in Callers, pc[c] = "idle", born \subseteq born',
         UNCHANGED <<want, lost, via>>, NEW CONSTANT ks, ks \subseteq born, Begin(c, ks)
  PROVE  TypesInv'
<1>1. /\ UNCHANGED pc /\ DOMAIN find = Callers /\ stage \in [Callers -> Stages]
      /\ left \in [Callers -> SUBSET Conns] /\ ks \in SUBSET Conns
      /\ left' = [left EXCEPT ![c] = ks] /\ find' = [find EXCEPT ![c] = Nothing]
      /\ stage' = [stage EXCEPT ![c] = "go"]
  BY DEF Begin, TypesInv, MineInv, CacheInv, IInv, Ranges
<1>2. FindInv(c)'
  BY <1>1, NothingTyped DEF FindInv, Ready
<1>3. lost[c] = 0
  BY DEF TypesInv, IInv, OnceInv
<1>4. LeftInv(c)'
  <2>1. left'[c] = ks /\ stage'[c] = "go" /\ lost'[c] = 0
    BY <1>1, <1>3
  <2>2. Cardinality(ks \cap Http) <= Cardinality(Http) /\ Cardinality(ks \cap Http) \in Nat
    BY <1>1, Counted
  <2> QED
    BY <1>1, <2>1, <2>2 DEF LeftInv
<1>5. \A d \in Callers : FindInv(d)' /\ LeftInv(d)'
  BY <1>1, <1>2, <1>4, OthersTyped
<1>6. MineInv'
  BY <1>1 DEF MineInv, TypesInv
<1> QED
  BY <1>5, <1>6 DEF TypesInv

\* A call on its way to connsCall: where it is, and what it has in hand.
LEMMA InHand ==
  ASSUME TypesInv, NEW c \in Callers, NEW CONSTANT s, At(c, s)
  PROVE  find[c] \in Finding /\ pc[c] = "idle" /\ stage[c] = s /\ Ready(s, find[c])
  BY DEF At, TypesInv, FindInv

\* The connection found is one more of the rows.
LEMMA FoundTyped ==
  ASSUME TypesInv, IInv', CacheInv', NEW c \in Callers, born \subseteq born', UNCHANGED <<want, lost, via>>,
         find[c] \in Finding, NEW CONSTANT k, k \in born, Found(c, k)
  PROVE  TypesInv'
<1>1. PICK f : f = find[c]
  OBVIOUS
<1>2. PICK x : x = Fields(f.list, f.todo, None, f.rows \cup {k}, None, None, 0)
  OBVIOUS
<1>3. [f EXCEPT !.rows = @ \cup {k}, !.cur = None, !.old = None, !.hand = None, !.puts = 0] = x
  <2>0. f = Fields(f.list, f.todo, f.cur, f.rows, f.old, f.hand, f.puts)
    BY <1>1 DEF Finding, Fields
  <2>1. PICK e : e = [f EXCEPT !.rows = @ \cup {k}]
    OBVIOUS
  <2>2. e = Fields(f.list, f.todo, f.cur, f.rows \cup {k}, f.old, f.hand, f.puts)
    BY <2>0, <2>1 DEF Fields
  <2>3. PICK g : g = [e EXCEPT !.cur = None]
    OBVIOUS
  <2>4. g = Fields(f.list, f.todo, None, f.rows \cup {k}, f.old, f.hand, f.puts)
    BY <2>2, <2>3 DEF Fields
  <2>5. PICK i : i = [g EXCEPT !.old = None]
    OBVIOUS
  <2>6. i = Fields(f.list, f.todo, None, f.rows \cup {k}, None, f.hand, f.puts)
    BY <2>4, <2>5 DEF Fields
  <2>7. PICK j : j = [i EXCEPT !.hand = None]
    OBVIOUS
  <2>8. j = Fields(f.list, f.todo, None, f.rows \cup {k}, None, None, f.puts)
    BY <2>6, <2>7 DEF Fields
  <2>9. [j EXCEPT !.puts = 0] = Fields(f.list, f.todo, None, f.rows \cup {k}, None, None, 0)
    BY <2>8 DEF Fields
  <2> QED
    BY <1>2, <2>1, <2>3, <2>5, <2>7, <2>9
<1>4. To(c, "each", x)
  BY <1>1, <1>3 DEF Found
<1>5. x \in Finding'
  BY <1>1, <1>2 DEF Finding, Fields
<1>6. Ready("each", x)'
  BY DEF Ready
<1> QED
  BY <1>4, <1>5, <1>6, Searches

\* The call goes on to stage s with what it has in hand.
LEMMA GoTyped ==
  ASSUME TypesInv, IInv', CacheInv', NEW c \in Callers, born \subseteq born', UNCHANGED <<want, lost, via>>,
         find[c] \in Finding, NEW CONSTANT s, s \notin {"post", "posted"}, Go(c, s), Ready(s, find[c])
  PROVE  TypesInv'
<1>1. PICK f : f = find[c]
  OBVIOUS
<1>2. f \in Finding' /\ To(c, s, f)
  BY <1>1 DEF Finding, Go
<1>3. Ready(s, f)'
  BY <1>1 DEF Ready
<1> QED
  BY <1>2, <1>3, Searches

\* Query: the watcher's word for it.
LEMMA QueryTyped == ASSUME TypesInv, IInv', NEW c \in Callers, Query(c) PROVE TypesInv'
<1>1. At(c, "start") /\ UNCHANGED <<born, blank, ser, wrong, want, upsets, lost, via>>
      /\ known' \in {known, {}} /\ crashed' \in BOOLEAN
  BY DEF Query, NoDial, Rest, GiveUp, TypesInv, CacheInv
<1>2. CacheInv' /\ born \subseteq born'
  BY <1>1 DEF TypesInv, CacheInv
<1>3. GiveUp(c) \/ \E s \in {"start", "watch", "assign", "rows"} : Go(c, s)
  <2>1. Route(want[c]) \in {"fail", "watch", "panic", "run", "assign", "rows"}
    BY DEF Route
  <2> QED
    BY <2>1 DEF Query
<1>4. CASE GiveUp(c)
  BY <1>1, <1>2, <1>4, GivesUp
<1>5. ASSUME NEW s \in {"start", "watch", "assign", "rows"}, Go(c, s) PROVE TypesInv'
  <2>1. find[c] \in Finding /\ Ready(s, find[c])
    BY <1>1, InHand DEF Ready
  <2> QED
    BY <1>1, <1>2, <1>5, <2>1, GoTyped
<1> QED
  BY <1>3, <1>4, <1>5

\* GetFuncConn and GetRemoteConn: only connections from the cache, only nodes the
\* watcher named.
LEMMA AskTyped ==
  ASSUME TypesInv, IInv', NEW c \in Callers, GetFuncConn(c) \/ Ask(c) PROVE TypesInv'
<1>1. UNCHANGED <<cacheVars, born, blank, upsets, crashed, want, lost, via>>
  BY DEF GetFuncConn, Ask, NoDial, Rest, Keep
<1>2. CacheInv' /\ born \subseteq born'
  BY <1>1 DEF TypesInv, CacheInv, cacheVars
<1>3. CASE GetFuncConn(c)
  <2>1. PICK ks : ks = {ser[u] : u \in known} \ (wrong \cup {None})
    OBVIOUS
  <2>2. At(c, "rows") /\ (Begin(c, ks) \/ Go(c, "ask"))
    BY <1>3, <2>1 DEF GetFuncConn
  <2>3. ks \subseteq born
    BY <2>1 DEF TypesInv, CacheInv
  <2>4. find[c] \in Finding /\ pc[c] = "idle" /\ Ready("ask", find[c])
    BY <2>2, InHand DEF Ready
  <2>5. CASE Begin(c, ks)
    BY <1>1, <1>2, <2>3, <2>4, <2>5, Begins
  <2>6. CASE Go(c, "ask")
    BY <1>1, <1>2, <2>4, <2>6, GoTyped
  <2> QED
    BY <2>2, <2>5, <2>6
<1>4. CASE Ask(c)
  <2>1. CASE GiveUp(c)
    BY <1>1, <1>2, <2>1, GivesUp
  <2>2. ASSUME NEW us \in SUBSET want[c].has,
               To(c, "each", [find[c] EXCEPT !.list = us, !.todo = us])
        PROVE  TypesInv'
    <3>1. PICK f : f = find[c]
      OBVIOUS
    <3>2. f \in Finding
      BY <1>4, <3>1, InHand DEF Ask
    <3>3. PICK x : x = Fields(us, us, f.cur, f.rows, f.old, f.hand, f.puts)
      OBVIOUS
    <3>4. To(c, "each", x)
      BY <2>2, <3>1, <3>2, <3>3, ListForm
    <3>5. us \subseteq Nodes
      BY DEF TypesInv, MineInv, WantType
    <3>6. x \in Finding' /\ Ready("each", x)'
      BY <1>2, <3>2, <3>3, <3>5 DEF Finding, Fields, Ready
    <3> QED
      BY <1>1, <1>2, <3>4, <3>6, Searches
  <2> QED
    BY <1>4, <2>1, <2>2 DEF Ask
<1> QED
  BY <1>3, <1>4

\* GetAssignConn, and WatchCall's look into the cache.
LEMMA AssignTyped == ASSUME TypesInv, IInv', NEW c \in Callers, Assign(c) PROVE TypesInv'
<1>1. UNCHANGED <<cacheVars, born, blank, upsets, crashed, want, lost, via>>
  BY DEF Assign, NoDial, Rest, Keep
<1>2. CacheInv' /\ born \subseteq born'
  BY <1>1 DEF TypesInv, CacheInv, cacheVars
<1>3. find[c] \in Finding /\ pc[c] = "idle"
  BY InHand DEF Assign
<1>4. PICK u, k : u = want[c].uuid /\ k = IF u \in Nodes THEN ser[u] ELSE None
  OBVIOUS
<1>5. CASE k # None /\ Begin(c, {k})
  <2>1. {k} \subseteq born
    BY <1>4, <1>5 DEF TypesInv, CacheInv
  <2> QED
    BY <1>1, <1>2, <1>3, <1>5, <2>1, Begins
<1>6. CASE GiveUp(c)
  BY <1>1, <1>2, <1>6, GivesUp
<1>7. CASE u \in Nodes /\ To(c, "base", [find[c] EXCEPT !.cur = u])
  <2>1. PICK f : f = find[c]
    OBVIOUS
  <2>2. PICK x : x = Fields(f.list, f.todo, u, f.rows, f.old, f.hand, f.puts)
    OBVIOUS
  <2>3. To(c, "base", x)
    BY <1>3, <1>7, <2>1, <2>2, OneField
  <2>4. x \in Finding' /\ Ready("base", x)'
    BY <1>2, <1>3, <1>7, <2>1, <2>2 DEF Finding, Fields, Ready
  <2> QED
    BY <1>1, <1>2, <2>3, <2>4, Searches
<1> QED
  BY <1>4, <1>5, <1>6, <1>7 DEF Assign

\* The loop over the watcher's answer.
LEMMA EachTyped ==
  ASSUME TypesInv, IInv', NEW c \in Callers, Each(c) \/ EachDone(c) PROVE TypesInv'
<1>1. UNCHANGED <<ser, wrong, born, blank, upsets, crashed, want, lost, via>>
  BY DEF Each, EachDone, NoDial, Rest, Keep, cacheVars
<1>2. PICK f : f = find[c]
  OBVIOUS
<1>3. f \in Finding /\ find[c] \in Finding /\ pc[c] = "idle" /\ Ready("each", f)
  BY <1>2, InHand DEF Each, EachDone
<1>4. CASE Each(c)
  <2>1. PICK u \in f.todo :
          To(c, IF ser[u] = None THEN "base" ELSE "test",
             [f EXCEPT !.cur = u, !.todo = @ \ {u}, !.old = ser[u]])
    BY <1>2, <1>4 DEF Each
  <2>2. PICK k, s : k = ser[u] /\ s = IF ser[u] = None THEN "base" ELSE "test"
    OBVIOUS
  <2>3. PICK x : x = Fields(f.list, f.todo \ {u}, u, f.rows, k, f.hand, f.puts)
    OBVIOUS
  <2>4. [f EXCEPT !.cur = u, !.todo = @ \ {u}, !.old = k] = x
    BY <1>3, <2>3, NextForm
  <2>5. To(c, s, x)
    BY <2>1, <2>2, <2>4
  <2>6. known' = known /\ CacheInv'
    BY <1>1, <1>4 DEF Each, cacheVars, TypesInv, CacheInv
  <2>7. u \in Nodes /\ k \in born \cup {None} /\ (s = "test" => k \in born) /\ s \in {"base", "test"}
    BY <1>3, <2>2 DEF Finding, TypesInv, CacheInv
  <2>8. x \in Finding' /\ Ready(s, x)'
    BY <1>1, <1>3, <2>3, <2>7 DEF Finding, Fields, Ready
  <2> QED
    BY <1>1, <2>5, <2>6, <2>7, <2>8, Searches
<1>5. CASE EachDone(c)
  <2>1. f.rows \subseteq born /\ born \subseteq Conns
    BY <1>3 DEF Finding, TypesInv, CacheInv
  <2>2. {Home[k] : k \in f.rows} \subseteq Nodes
    BY <2>1, DispatchAssumption
  <2>3. known' \subseteq Nodes
    BY <1>2, <1>5, <2>2 DEF EachDone, TypesInv, CacheInv
  <2>4. CacheInv' /\ born \subseteq born'
    BY <1>1, <2>3 DEF TypesInv, CacheInv
  <2>5. GiveUp(c) \/ Begin(c, f.rows)
    BY <1>2, <1>5 DEF EachDone
  <2> QED
    BY <1>1, <1>3, <2>1, <2>4, <2>5, GivesUp, Begins
<1> QED
  BY <1>4, <1>5

\* A look into the cache for the node at hand.
LEMMA CachedTyped ==
  ASSUME TypesInv, IInv', NEW c \in Callers, UNCHANGED <<cacheVars, born, blank, upsets, crashed>>,
         UNCHANGED <<want, lost, via>>, find[c] \in Finding, find[c].cur \in Nodes,
         NEW CONSTANT s, NEW CONSTANT t, Cached(c, s, t),
         <<s, t>> = <<"retest", "dial">> \/ (<<s, t>> = <<"ptest", "store">> /\ find[c].hand \in born)
  PROVE  TypesInv'
<1>1. PICK f : f = find[c]
  OBVIOUS
<1>2. PICK k, v : k = ser[f.cur] /\ v = IF k = None THEN t ELSE s
  OBVIOUS
<1>3. PICK x : x = Fields(f.list, f.todo, f.cur, f.rows, k, f.hand, f.puts)
  OBVIOUS
<1>4. f \in Finding /\ f.cur \in Nodes /\ k \in born \cup {None}
  BY <1>1, <1>2 DEF TypesInv, CacheInv
<1>5. [f EXCEPT !.old = k] = x
  BY <1>3, <1>4, OneField
<1>6. To(c, v, x)
  BY <1>1, <1>2, <1>5 DEF Cached
<1>7. CacheInv' /\ born \subseteq born'
  BY DEF TypesInv, CacheInv, cacheVars
<1>8. x \in Finding'
  BY <1>3, <1>4, <1>7 DEF Finding, Fields
<1>9. /\ x.cur \in Nodes /\ x.old = k /\ x.hand = f.hand
      /\ v \in {"retest", "dial"} \/ (v \in {"ptest", "store"} /\ f.hand \in born)
      /\ v \in {"retest", "ptest"} => k \in born
  BY <1>1, <1>2, <1>3, <1>4 DEF Fields
<1>10. Ready(v, x)'
  BY <1>7, <1>9 DEF Ready
<1>11. v \notin {"post", "posted"}
  BY <1>9
<1> QED
  BY <1>6, <1>7, <1>8, <1>10, <1>11, Searches

\* NodeBaseToConn before it dials: what is tested and closed was dialled.
LEMMA BaseTyped ==
  ASSUME TypesInv, IInv', NEW c \in Callers, Test(c) \/ Base(c) \/ Retest(c) \/ CloseTested(c)
  PROVE  TypesInv'
<1>1. PICK f : f = find[c]
  OBVIOUS
<1>2. UNCHANGED <<known, ser, born, blank, upsets, crashed, want, lost, via>>
  BY DEF Test, Base, Retest, CloseTested, Tests, NoDial, Rest, Keep, cacheVars
<1>3. f \in Finding /\ find[c] \in Finding /\ pc[c] = "idle" /\ Ready(stage[c], f)
  BY <1>1, InHand DEF Test, Base, Retest, CloseTested, At
<1>4. CASE Test(c)
  <2>1. CacheInv' /\ f.old \in born /\ f.cur \in Nodes /\ stage[c] = "test"
    BY <1>2, <1>3, <1>4 DEF Test, At, Ready, cacheVars, TypesInv, CacheInv
  <2>2. Found(c, f.old) \/ Go(c, "base")
    BY <1>1, <1>4 DEF Test, Old
  <2>3. Ready("base", find[c])
    BY <1>1, <2>1 DEF Ready
  <2> QED
    BY <1>2, <1>3, <2>1, <2>2, <2>3, FoundTyped, GoTyped
<1>5. CASE Base(c)
  <2>1. stage[c] = "base" /\ Cached(c, "retest", "dial") /\ UNCHANGED cacheVars
    BY <1>5 DEF Base, At
  <2>2. find[c].cur \in Nodes
    BY <1>1, <1>3, <2>1 DEF Ready
  <2> QED
    BY <1>2, <1>3, <2>1, <2>2, CachedTyped
<1>6. CASE Retest(c)
  <2>1. f.old \in born /\ f.cur \in Nodes /\ stage[c] = "retest" /\ known' = known
    BY <1>3, <1>6 DEF Retest, At, Ready
  <2>2. wrong' \subseteq born
    BY <1>1, <1>6, <2>1 DEF Retest, Old, TypesInv, CacheInv
  <2>3. CacheInv' /\ born \subseteq born'
    BY <1>2, <2>2 DEF TypesInv, CacheInv
  <2>4. CASE Go(c, "close")
    <3>1. Ready("close", find[c])
      BY <1>1, <2>1 DEF Ready
    <3> QED
      BY <1>2, <1>3, <2>3, <2>4, <3>1, GoTyped
  <2>5. CASE To(c, "put", [f EXCEPT !.hand = f.old, !.puts = 1])
    <3>1. PICK x : x = Fields(f.list, f.todo, f.cur, f.rows, f.old, f.old, 1)
      OBVIOUS
    <3>2. [f EXCEPT !.hand = f.old, !.puts = 1] = x
      BY <1>3, <3>1, HandForm
    <3>3. To(c, "put", x)
      BY <2>5, <3>2
    <3>4. x \in Finding' /\ Ready("put", x)'
      BY <1>2, <1>3, <2>1, <3>1 DEF Finding, Fields, Ready
    <3> QED
      BY <1>2, <2>3, <3>3, <3>4, Searches
  <2> QED
    BY <1>1, <1>6, <2>4, <2>5 DEF Retest, Old
<1>7. CASE CloseTested(c)
  <2>1. CacheInv' /\ Go(c, "del") /\ stage[c] = "close"
    BY <1>2, <1>7 DEF CloseTested, At, cacheVars, TypesInv, CacheInv
  <2>2. Ready("del", find[c])
    BY <1>1, <1>3, <2>1 DEF Ready
  <2> QED
    BY <1>2, <1>3, <2>1, <2>2, GoTyped
<1> QED
  BY <1>4, <1>5, <1>6, <1>7

\* RefreshConn: a connection that is dialled is a new one, to the node at hand.
LEMMA DialTyped ==
  ASSUME TypesInv, IInv', NEW c \in Callers, DelConn(c) \/ Dial(c)
  PROVE  TypesInv'
<1>1. PICK f : f = find[c]
  OBVIOUS
<1>2. UNCHANGED <<known, wrong, upsets, crashed, want, lost, via>>
  BY DEF DelConn, Dial, NoDial, Rest, Keep, cacheVars
<1>3. f \in Finding /\ find[c] \in Finding /\ pc[c] = "idle" /\ f.cur \in Nodes
  BY <1>1, InHand DEF DelConn, Dial, Ready
<1>4. CASE DelConn(c)
  <2>1. PICK x : x = Fields(f.list, f.todo, f.cur, f.rows, None, f.hand, f.puts)
    OBVIOUS
  <2>2. [f EXCEPT !.old = None] = x
    BY <1>3, <2>1, OneField
  <2>3. To(c, "dial", x)
    BY <1>1, <1>4, <2>2 DEF DelConn
  <2>4. ser' = [ser EXCEPT ![f.cur] = None] /\ UNCHANGED <<born, blank>>
    BY <1>1, <1>4 DEF DelConn, NoDial
  <2>5. CacheInv'
    BY <1>2, <2>4 DEF TypesInv, CacheInv
  <2>6. x \in Finding' /\ Ready("dial", x)'
    BY <1>3, <2>1, <2>4 DEF Finding, Fields, Ready
  <2> QED
    BY <1>2, <2>3, <2>4, <2>5, <2>6, Searches
<1>5. ASSUME Dial(c), To(c, "each", [find[c] EXCEPT !.cur = None]), UNCHANGED <<born, blank>>
      PROVE  TypesInv'
  <2>1. PICK x : x = Fields(f.list, f.todo, None, f.rows, f.old, f.hand, f.puts)
    OBVIOUS
  <2>2. [f EXCEPT !.cur = None] = x
    BY <1>3, <2>1, OneField
  <2>3. To(c, "each", x)
    BY <1>1, <1>5, <2>2
  <2>4. CacheInv'
    BY <1>2, <1>5 DEF Dial, cacheVars, TypesInv, CacheInv
  <2>5. x \in Finding' /\ Ready("each", x)'
    BY <1>3, <1>5, <2>1 DEF Finding, Fields, Ready
  <2> QED
    BY <1>2, <1>5, <2>3, <2>4, <2>5, Searches
<1>6. ASSUME Dial(c), NEW k \in Conns \ born, born' = born \cup {k},
             blank' \in {blank, blank \cup ({k} \cap Http)},
             To(c, "put", [find[c] EXCEPT !.hand = k, !.puts = 2])
      PROVE  TypesInv'
  <2>1. PICK x : x = Fields(f.list, f.todo, f.cur, f.rows, f.old, k, 2)
    OBVIOUS
  <2>2. [f EXCEPT !.hand = k, !.puts = 2] = x
    <3>1. f \in Finding
      BY <1>3
    <3> QED
      BY <2>1, <3>1, HandForm
  <2>3. To(c, "put", x)
    BY <1>1, <1>6, <2>2
  <2>4. CacheInv'
    BY <1>2, <1>6 DEF Dial, cacheVars, TypesInv, CacheInv
  <2>5. x \in Finding' /\ Ready("put", x)'
    BY <1>3, <1>6, <2>1 DEF Finding, Fields, Ready
  <2> QED
    BY <1>2, <1>6, <2>3, <2>4, <2>5, Searches
<1> QED
  BY <1>4, <1>5, <1>6 DEF Dial

\* The connection was put into the cache: once more, or found.
LEMMA HasPutTyped ==
  ASSUME TypesInv, IInv', CacheInv', NEW c \in Callers, UNCHANGED <<born, want, lost, via>>,
         find[c] \in Finding, find[c].cur \in Nodes, find[c].hand \in born, HasPut(c)
  PROVE  TypesInv'
<1>1. PICK f : f = find[c]
  OBVIOUS
<1>2. f \in Finding /\ f.cur \in Nodes /\ f.hand \in born
  BY <1>1
<1>3. CASE Found(c, f.hand)
  BY <1>1, <1>2, <1>3, FoundTyped
<1>4. CASE To(c, "put", [f EXCEPT !.puts = 1, !.old = None])
  <2>1. PICK x : x = Fields(f.list, f.todo, f.cur, f.rows, None, f.hand, 1)
    OBVIOUS
  <2>2. [f EXCEPT !.puts = 1, !.old = None] = x
    BY <1>2, <2>1, PutsForm
  <2>3. To(c, "put", x)
    BY <1>4, <2>2
  <2>4. x \in Finding' /\ Ready("put", x)'
    BY <1>2, <2>1 DEF Finding, Fields, Ready
  <2> QED
    BY <2>3, <2>4, Searches
<1> QED
  BY <1>1, <1>3, <1>4 DEF HasPut

\* PutConn: the cache holds connections that were dialled, whoever wins.
LEMMA PutTyped ==
  ASSUME TypesInv, IInv', NEW c \in Callers, Put(c) \/ PutTest(c) \/ PutClose(c) \/ Store(c)
  PROVE  TypesInv'
<1>1. PICK f : f = find[c]
  OBVIOUS
<1>2. UNCHANGED <<known, wrong, born, blank, upsets, crashed, want, lost, via>>
  BY DEF Put, PutTest, PutClose, Store, Tests, NoDial, Rest, Keep, cacheVars
<1>3. f \in Finding /\ find[c] \in Finding /\ pc[c] = "idle" /\ f.cur \in Nodes /\ f.hand \in born
  BY <1>1, InHand DEF Put, PutTest, PutClose, Store, Ready
<1>4. CASE Put(c)
  <2>1. Cached(c, "ptest", "store") /\ UNCHANGED cacheVars
    BY <1>4 DEF Put
  <2> QED
    BY <1>1, <1>2, <1>3, <2>1, CachedTyped
<1>5. CASE PutTest(c)
  <2>1. CacheInv' /\ f.old \in born
    BY <1>1, <1>2, <1>5, InHand DEF PutTest, Ready, cacheVars, TypesInv, CacheInv
  <2>2. HasPut(c) \/ Go(c, "pclose")
    BY <1>5 DEF PutTest
  <2>3. Ready("pclose", find[c])
    BY <1>1, <1>3, <2>1 DEF Ready
  <2> QED
    BY <1>1, <1>2, <1>3, <2>1, <2>2, <2>3, HasPutTyped, GoTyped
<1>6. CASE PutClose(c)
  <2>1. CacheInv' /\ Go(c, "store")
    BY <1>2, <1>6 DEF PutClose, cacheVars, TypesInv, CacheInv
  <2>2. Ready("store", find[c])
    BY <1>1, <1>3 DEF Ready
  <2> QED
    BY <1>2, <1>3, <2>1, <2>2, GoTyped
<1>7. CASE Store(c)
  <2>1. ser' = [ser EXCEPT ![f.cur] = f.hand] /\ HasPut(c)
    BY <1>1, <1>7 DEF Store
  <2>2. CacheInv'
    BY <1>2, <1>3, <2>1 DEF TypesInv, CacheInv
  <2> QED
    BY <1>1, <1>2, <1>3, <2>1, <2>2, HasPutTyped
<1> QED
  BY <1>4, <1>5, <1>6, <1>7

\* From connsCall on nothing changes of the search and the cache.
LEMMA CallsTyped ==
  ASSUME TypesInv, IInv', UNCHANGED <<want, find, cacheVars, dialVars, crashed>>,
         \A d \in Callers : pc'[d] = "idle" => pc[d] = "idle",
         \A d \in Callers : stage'[d] = stage[d] \/ stage'[d] \in {"go", "post", "posted"},
         left' \in [Callers -> SUBSET Conns], DOMAIN via' = Callers,
         \A d \in Callers : LeftInv(d)'
  PROVE  TypesInv'
<1>1. CacheInv'
  BY DEF TypesInv, CacheInv, cacheVars, dialVars
<1>2. ASSUME NEW d \in Callers PROVE FindInv(d)'
  <2>1. find[d] \in Finding' /\ find'[d] = find[d]
    BY DEF TypesInv, FindInv, Finding, dialVars
  <2>2. pc'[d] = "idle" => Ready(stage[d], find[d])'
    BY <2>1 DEF TypesInv, FindInv, Ready, dialVars
  <2> QED
    BY <2>1, <2>2 DEF FindInv
<1>3. MineInv'
  BY DEF TypesInv, MineInv
<1> QED
  BY <1>1, <1>2, <1>3 DEF TypesInv

\* The loop tries a connection less.
LEMMA TriesLess ==
  ASSUME TypesInv, NEW c \in Callers, NEW k \in Conns, left' = [left EXCEPT ![c] = @ \ {k}],
         UNCHANGED <<via, lost>>, \A d \in Callers \ {c} : stage'[d] = stage[d], stage'[c] = "go"
  PROVE  left' \in [Callers -> SUBSET Conns] /\ \A d \in Callers : LeftInv(d)'
<1>1. left' \in [Callers -> SUBSET Conns] /\ left[c] \in SUBSET Conns /\ left'[c] = left[c] \ {k}
      /\ \A d \in Callers \ {c} : left'[d] = left[d]
  BY DEF TypesInv, MineInv
<1>2. Cardinality(left'[c] \cap Http) <= Cardinality(left[c] \cap Http)
      /\ Cardinality(left'[c] \cap Http) \in Nat /\ Cardinality(left[c] \cap Http) \in Nat
      /\ Cardinality(Http) \in Nat
  BY <1>1, Counted
<1>3. LeftInv(c)'
  <2>1. lost[c] \in Nat /\ lost[c] + Cardinality(left[c] \cap Http) <= Cardinality(Http)
    BY DEF TypesInv, LeftInv, IInv, Ranges
  <2> QED
    BY <1>1, <1>2, <2>1 DEF LeftInv
<1>4. \A d \in Callers \ {c} : LeftInv(d)'
  BY <1>1 DEF TypesInv, LeftInv
<1> QED
  BY <1>1, <1>3, <1>4

\* connsCall over TCP.
LEMMA WiredTyped ==
  ASSUME TypesInv, IInv', NEW c \in Callers, Wired(c) \/ \E k \in Conns : Skip(c, k)
  PROVE  TypesInv'
<1>1. stage[c] = "go" /\ UNCHANGED <<want, find, stage, cacheVars, dialVars, crashed, lost>>
  BY DEF Wired, Skip, Same, mineVars, ghostVars
<1>2. \/ UNCHANGED <<left, via>> /\ \A d \in Callers : pc'[d] = "idle" => pc[d] = "idle"
      \/ /\ UNCHANGED left /\ DOMAIN via' = Callers /\ \A d \in Callers \ {c} : via'[d] = via[d]
         /\ \A d \in Callers : pc'[d] = "idle" => pc[d] = "idle"
      \/ \E k \in Conns : left' = [left EXCEPT ![c] = @ \ {k}] /\ UNCHANGED <<pc, via>>
  <2>1. pc \in [Callers -> Unwritten \cup {"newchan", "wait", "delchan", "done"}] /\ DOMAIN via = Callers
    BY DEF TypesInv, IInv, Ranges, MineInv
  <2>2. CASE Serial(c)
    BY <2>1, <2>2 DEF Serial, SerialReserved, SerialAdd, SerialLow, SerialSwap, SerialAgain, Goto
  <2>3. CASE AllWrong(c) \/ NewChan(c) \/ TakeAnswer(c) \/ ContextDone(c) \/ DelChan(c)
    BY <2>1, <2>3 DEF AllWrong, NewChan, TakeAnswer, ContextDone, DelChan, Goto
  <2>4. CASE \E k \in Conns : Write(c, k)
    BY <2>1, <2>4 DEF Write, Goto
  <2>5. CASE \E k \in Conns : WriteFails(c, k) \/ Skip(c, k)
    BY <2>5 DEF WriteFails, Skip
  <2> QED
    BY <2>2, <2>3, <2>4, <2>5 DEF Wired
<1>3. ASSUME UNCHANGED left, DOMAIN via' = Callers, \A d \in Callers \ {c} : via'[d] = via[d],
             \A d \in Callers : pc'[d] = "idle" => pc[d] = "idle"
      PROVE  TypesInv'
  <2>1. \A d \in Callers : LeftInv(d)'
    BY <1>1, <1>3 DEF TypesInv, LeftInv
  <2>2. left' \in [Callers -> SUBSET Conns]
    BY <1>3 DEF TypesInv, MineInv
  <2> QED
    BY <1>1, <1>3, <2>1, <2>2, CallsTyped
<1>4. ASSUME NEW k \in Conns, left' = [left EXCEPT ![c] = @ \ {k}], UNCHANGED <<pc, via>>
      PROVE  TypesInv'
  <2>1. left' \in [Callers -> SUBSET Conns] /\ \A d \in Callers : LeftInv(d)'
    BY <1>1, <1>4, TriesLess
  <2>2. DOMAIN via' = Callers
    BY <1>4 DEF TypesInv, MineInv
  <2> QED
    BY <1>1, <1>4, <2>1, <2>2, CallsTyped
<1>5. DOMAIN via = Callers
  BY DEF TypesInv, MineInv
<1> QED
  BY <1>2, <1>3, <1>4, <1>5

\* postHttpApi: a connection whose answer was lost is not among those left to try.
LEMMA PostTyped ==
  ASSUME TypesInv, IInv', NEW c \in Callers, Posts(c)
  PROVE  TypesInv'
<1>1. UNCHANGED <<want, find, cacheVars, dialVars, crashed>>
  BY DEF Posts, Post, PostRuns, PostAnswered, PostFails, Around
<1>2. /\ \A d \in Callers : pc'[d] = "idle" => pc[d] = "idle"
      /\ \A d \in Callers \ {c} : stage'[d] = stage[d] /\ left'[d] = left[d] /\ via'[d] = via[d]
                                  /\ lost'[d] = lost[d]
      /\ stage'[c] \in {"go", "post", "posted"} /\ DOMAIN via' = Callers
      /\ left' \in [Callers -> SUBSET Conns]
  BY DEF Posts, Post, PostRuns, PostAnswered, PostFails, Posting, TypesInv, IInv, Ranges, MineInv
<1>3. /\ left[c] \in SUBSET Conns /\ lost[c] \in Nat
      /\ lost[c] + Cardinality(left[c] \cap Http) <= Cardinality(Http)
      /\ stage[c] \in {"post", "posted"} => via[c] \in left[c] \cap Http
  BY DEF TypesInv, LeftInv, IInv, Ranges
<1>4. LeftInv(c)'
  <2>1. CASE \E k \in Http : Post(c, k)
    <3>1. stage'[c] = "post" /\ via'[c] \in left[c] \cap Http /\ UNCHANGED <<left, lost>>
      BY <2>1 DEF Post, Posting, TypesInv, IInv, Ranges, MineInv
    <3> QED
      BY <1>3, <3>1 DEF LeftInv
  <2>2. CASE PostRuns(c)
    <3>1. stage[c] = "post" /\ UNCHANGED <<left, lost, via>>
      BY <2>2 DEF PostRuns
    <3> QED
      BY <1>3, <3>1 DEF LeftInv
  <2>3. CASE PostAnswered(c)
    <3>1. stage'[c] = "go" /\ UNCHANGED <<left, lost>>
      BY <2>3 DEF PostAnswered, Posting, TypesInv, IInv, Ranges
    <3> QED
      BY <1>3, <3>1 DEF LeftInv
  <2>4. CASE PostFails(c)
    <3>1. /\ stage[c] \in {"post", "posted"} /\ stage'[c] = "go" /\ left'[c] = left[c] \ {via[c]}
          /\ lost'[c] \in {lost[c], lost[c] + 1}
      BY <2>4 DEF PostFails, Posting, TypesInv, IInv, Ranges, MineInv
    <3>2. PICK n, m, t : /\ n = Cardinality(left[c] \cap Http) /\ t = Cardinality(Http)
                         /\ m = Cardinality((left[c] \ {via[c]}) \cap Http)
      OBVIOUS
    <3>3. n \in Nat /\ m \in Nat /\ t \in Nat /\ m = n - 1
      BY <1>3, <3>1, <3>2, Counted
    <3>4. lost'[c] + m <= t
      BY <1>3, <3>1, <3>2, <3>3
    <3> QED
      BY <1>3, <3>1, <3>2, <3>4 DEF LeftInv
  <2> QED
    BY <2>1, <2>2, <2>3, <2>4 DEF Posts
<1>5. \A d \in Callers \ {c} : LeftInv(d)'
  BY <1>2 DEF TypesInv, LeftInv
<1>6. \A d \in Callers : LeftInv(d)'
  BY <1>4, <1>5
<1> QED
  BY <1>1, <1>2, <1>6, CallsTyped

\* The servers, the readers, broken connections, lost messages, and the timer's ClearConn
\* and TimerCheck.
LEMMA RestTyped ==
  ASSUME TypesInv, IInv',
         \/ \E u \in Nodes : ClearConn(u)
         \/ \E k \in Conns : \/ Serves(k) \/ Breaks(k) \/ Loses(k) \/ TimerCheck(k)
                             \/ (ReadResp(k) /\ UNCHANGED ghostVars /\ Same)
         \/ UNCHANGED allVars
  PROVE  TypesInv'
<1>1. CASE (\E u \in Nodes : ClearConn(u)) \/ \E k \in Conns : Breaks(k) \/ Loses(k) \/ TimerCheck(k)
  <2>1. UNCHANGED <<want, find, stage, lost, born>>
    BY <1>1 DEF ClearConn, Breaks, Loses, TimerCheck, mineVars, ghostVars
  <2>2. UNCHANGED <<pc, left, via>>
    BY <1>1 DEF ClearConn, Breaks, Break, Loses, LoseRequest, LoseAnswer, TimerCheck, TestConn, Refresh,
                Sweep, vars, callVars
  <2>3. CacheInv'
    <3>1. CASE \E u \in Nodes : ClearConn(u)
      BY <3>1, DispatchAssumption DEF ClearConn, ghostVars, TypesInv, CacheInv
    <3>2. CASE \E k \in Conns : Breaks(k)
      BY <3>2, DispatchAssumption DEF Breaks, ghostVars, cacheVars, TypesInv, CacheInv
    <3>3. CASE \E k \in Conns : Loses(k)
      BY <3>3, DispatchAssumption DEF Loses, ghostVars, cacheVars, TypesInv, CacheInv
    <3>4. CASE \E k \in Conns : TimerCheck(k)
      BY <3>4 DEF TimerCheck, ghostVars, cacheVars, TypesInv, CacheInv
    <3> QED
      BY <1>1, <3>1, <3>2, <3>3, <3>4
  <2>4. \A d \in Callers : LeftInv(d)' /\ FindInv(d)'
    BY <2>1, <2>2 DEF TypesInv, LeftInv, FindInv, Finding, Ready
  <2>5. MineInv'
    BY <2>1, <2>2 DEF TypesInv, MineInv
  <2> QED
    BY <2>3, <2>4, <2>5 DEF TypesInv
<1>2. CASE UNCHANGED allVars \/ \E k \in Conns : Serves(k) \/ (ReadResp(k) /\ UNCHANGED ghostVars /\ Same)
  <2>1. UNCHANGED <<want, find, stage, cacheVars, dialVars, crashed, lost>>
    BY <1>2 DEF Serves, Same, mineVars, ghostVars, allVars
  <2>2. UNCHANGED <<pc, left, via>>
    BY <1>2 DEF Serves, Server, ServeIgnored, Serve, ServeAgain, ReadResp, ReadAnswer, ReadFailure,
                LookupFound, LookupMissed, SendBody, ReadError, callVars, vars, allVars
  <2>3. \A d \in Callers : LeftInv(d)'
    BY <2>1, <2>2 DEF TypesInv, LeftInv
  <2>4. left' \in [Callers -> SUBSET Conns] /\ DOMAIN via' = Callers
    BY <2>2 DEF TypesInv, MineInv
  <2> QED
    BY <2>1, <2>2, <2>3, <2>4, CallsTyped
<1> QED
  BY <1>1, <1>2

\* DispatchInit: nothing is known, nothing dialled, nothing lost.
LEMMA InitTyped == ASSUME DispatchInit PROVE TypesInv
<1>1. IInv
  BY InitOnce
<1>2. CacheInv
  <2>1. MaxUpsets \in Nat
    BY DispatchAssumption
  <2>2. /\ known = {} /\ ser = [u \in Nodes |-> None] /\ wrong = {} /\ born = {} /\ blank = {}
        /\ upsets = 0 /\ crashed = FALSE
    BY DEF DispatchInit
  <2>3. upsets \in 0 .. MaxUpsets
    BY <2>1, <2>2
  <2> QED
    BY <2>2, <2>3 DEF CacheInv
<1>3. MineInv
  BY DispatchAssumption DEF DispatchInit, Init, MineInv
<1>4. ASSUME NEW c \in Callers PROVE FindInv(c) /\ LeftInv(c)
  <2>1. find[c] = Nothing /\ stage[c] = "start" /\ left[c] = Conns /\ lost[c] = 0
    BY DEF DispatchInit, Init
  <2>2. Nothing \in Finding
    BY DEF Nothing, Finding
  <2>3. FindInv(c)
    BY <2>1, <2>2 DEF FindInv, Ready
  <2>4. Conns \in SUBSET Conns
    OBVIOUS
  <2>5. Cardinality(Conns \cap Http) \in Nat /\ Cardinality(Conns \cap Http) <= Cardinality(Http)
    BY <2>4, Counted
  <2> QED
    BY <2>1, <2>3, <2>5 DEF LeftInv
<1> QED
  BY <1>1, <1>2, <1>3, <1>4 DEF TypesInv

\* Every step keeps the ranges.
LEMMA NextTyped == ASSUME TypesInv, [DispatchNext]_allVars PROVE TypesInv'
<1>1. IInv'
  BY NextOnce DEF TypesInv
<1>2. ASSUME NEW c \in Callers, Lookup(c) PROVE TypesInv'
  BY <1>1, <1>2, QueryTyped, AskTyped, AssignTyped, EachTyped, BaseTyped, DialTyped, PutTyped DEF Lookup
<1>3. ASSUME NEW c \in Callers, Calling(c) PROVE TypesInv'
  BY <1>1, <1>2, <1>3, WiredTyped, PostTyped DEF Calling
<1> QED
  BY <1>1, <1>3, RestTyped DEF DispatchNext, Returned

\* Every variable stays in its range, for any callers, nodes and connections: what a call
\* tests, closes and puts into the cache is a connection that was dialled, and the answers
\* it lost over HTTP do not outnumber the connections over HTTP.
THEOREM DispatchTyping == DispatchSpec => []DispatchTypeOK
<1>1. ASSUME TypesInv PROVE DispatchTypeOK
  <2>1. /\ want \in [Callers -> WantType] /\ stage \in [Callers -> Stages]
        /\ ran \in [Callers -> Nat] /\ lost \in [Callers -> Nat] /\ find = [c \in Callers |-> find[c]]
    BY <1>1 DEF TypesInv, MineInv, IInv, Ranges
  <2>2. find \in [Callers -> Finding]
    BY <1>1, <2>1 DEF TypesInv, FindInv
  <2>3. ASSUME NEW c \in Callers PROVE lost[c] \in 0 .. Cardinality(Http)
    <3>1. /\ lost[c] + Cardinality(left[c] \cap Http) <= Cardinality(Http) /\ left[c] \in SUBSET Conns
          /\ lost[c] \in Nat
      BY <1>1, <2>1 DEF TypesInv, LeftInv
    <3>2. Cardinality(left[c] \cap Http) \in Nat /\ Cardinality(Http) \in Nat
      BY <3>1, Counted
    <3> QED
      BY <3>1, <3>2
  <2>4. lost \in [Callers -> 0 .. Cardinality(Http)]
    BY <2>1, <2>3
  <2> QED
    BY <1>1, <2>1, <2>2, <2>4 DEF TypesInv, CacheInv, DispatchTypeOK
<1> QED
  BY InitTyped, NextTyped, <1>1, PTL DEF DispatchSpec

=============================================================================
