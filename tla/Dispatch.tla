------------------------------- MODULE Dispatch -------------------------------
(***************************************************************************)
(* How a call gets to a function (network/rpc/api.go, invoke.go): the       *)
(* function is asked for at the watcher; it is run in this process when it   *)
(* is here; otherwise connections to the nodes that have it are taken from   *)
(* the cache funcmap.ser (rpc/fmsg.go), tested, given up or dialled anew     *)
(* (NodeBaseToConn, RefreshConn, TestConn), and put back into the cache.     *)
(* From there connsCall goes on, which is Calls: this module extends it with *)
(* what is before, with connections over HTTP, and with the cache that the   *)
(* callers share.                                                           *)
(*                                                                          *)
(* The watcher's answers are arbitrary.  All callers ask for one function.   *)
(***************************************************************************)
EXTENDS Calls

CONSTANTS
  Nodes,     \* the other nodes that may have the function
  Home,      \* the node each NodeConn is a connection to
  Http,      \* the NodeConns to a node that listens for HTTP only
  Wants,     \* what the callers may ask for, see WantType
  MaxUpsets  \* the bound on connections that break or that ClearConn drops, and on losses

\* op: call is CallAuto and the like, send SendAuto, multi CallMultiAuto, byte
\* CallRemoteByte, watch WatchCall and WatchSend.  uuid: None, "self" or a node.  name:
\* the node in the name.  here: what this process has registered, the struct of the
\* function or the function itself.  has: the nodes the watcher may answer with.
WantType == [op : {"call", "send", "multi", "byte", "watch"}, uuid : Nodes \cup {"self", None},
             name : {"", "own", "other"}, here : {"nothing", "struct", "function"},
             has : SUBSET Nodes]

ASSUME DispatchAssumption ==
  /\ Home \in [Conns -> Nodes] /\ Http \subseteq Conns /\ IsFiniteSet(Conns)
  /\ Wants \subseteq [Callers -> WantType] /\ Wants # {} /\ MaxUpsets \in Nat /\ None \notin Nodes

VARIABLES
  want,    \* what each caller asks for
  stage,   \* where each caller is before connsCall, or in an HTTP request
  find,    \* its variables before connsCall, see Finding
  known,   \* funcdata.node
  ser,     \* funcmap.ser: the connection to each node
  wrong,   \* the connections whose field wrong is set
  born,    \* the connections that were dialled
  blank,   \* those of type 0: the ping over HTTP failed
  upsets,  \* how many of those there were
  ran,     \* how often the function ran for each caller
  lost,    \* how many HTTP requests of each ran it and gave no answer
  crashed  \* the process ended with a panic

mineVars  == <<want, stage, find>>
cacheVars == <<known, ser, wrong>>
ghostVars == <<ran, lost, crashed>>
dialVars  == <<born, blank, upsets>>
allVars   == <<vars, mineVars, cacheVars, ghostVars, dialVars>>

Stages == {"start", "rows", "ask", "assign", "watch", "each", "test", "base", "retest", "close",
           "del", "dial", "put", "ptest", "pclose", "store", "go", "post", "posted"}

\* The nodes of the watcher's answer, those still to be connected and the one at hand;
\* the connections found; the one that is tested; the one to put into the cache, and how
\* often, twice for a new one.
Finding == [list : SUBSET Nodes, todo : SUBSET Nodes, cur : Nodes \cup {None},
            rows : SUBSET born, old : born \cup {None}, hand : born \cup {None}, puts : 0 .. 2]
Nothing == [list |-> {}, todo |-> {}, cur |-> None, rows |-> {}, old |-> None, hand |-> None,
            puts |-> 0]

DispatchTypeOK ==
  /\ want \in [Callers -> WantType] /\ stage \in [Callers -> Stages]
  /\ find \in [Callers -> Finding]
  /\ known \subseteq Nodes /\ ser \in [Nodes -> born \cup {None}]
  /\ wrong \subseteq born /\ born \subseteq Conns /\ blank \subseteq Http
  /\ upsets \in 0 .. MaxUpsets /\ crashed \in BOOLEAN
  /\ ran \in [Callers -> Nat] /\ lost \in [Callers -> 0 .. Cardinality(Http)]

-----------------------------------------------------------------------------

DispatchInit ==
  /\ Init
  /\ want \in Wants
  /\ stage = [c \in Callers |-> "start"]
  /\ find = [c \in Callers |-> Nothing]
  /\ known = {} /\ ser = [u \in Nodes |-> None] /\ wrong = {}
  /\ born = {} /\ blank = {} /\ upsets = 0
  /\ ran = [c \in Callers |-> 0] /\ lost = [c \in Callers |-> 0] /\ crashed = FALSE

At(c, s)   == pc[c] = "idle" /\ stage[c] = s
\* The next stage of c, with f as its variables.
To(c, s, f) ==
  /\ stage' = [stage EXCEPT ![c] = s] /\ find' = [find EXCEPT ![c] = f]
  /\ UNCHANGED <<pc, left>>
Go(c, s) == To(c, s, find[c])
\* The call returns an error of its own.
GiveUp(c) ==
  /\ pc' = [pc EXCEPT ![c] = "done"] /\ find' = [find EXCEPT ![c] = Nothing]
  /\ UNCHANGED <<stage, left>>
\* connsCall begins with the connections ks.
Begin(c, ks) ==
  /\ left' = [left EXCEPT ![c] = ks] /\ stage' = [stage EXCEPT ![c] = "go"]
  /\ find' = [find EXCEPT ![c] = Nothing] /\ UNCHANGED pc
\* What no step before connsCall touches.
Rest == UNCHANGED <<reqnum, num, via, chan, got, want, upsets, lost>>
Keep == UNCHANGED <<ran, crashed, netVars>>
NoDial == UNCHANGED <<born, blank, connVars>>
\* What a test of a connection leaves alone.
Tests == UNCHANGED <<born, blank, rc, reader, cut, req, ran, crashed>>

-----------------------------------------------------------------------------
(* call, send and multi.                                                    *)

\* Where a request goes.  The own uuid: a send is refused, since it must be a function
\* of type call; LocalMulti calls the method with the receiver in place of its arguments
\* and panics.  An empty name, or the own one: a missing function of a struct that is
\* here is a nil pointer to call and send.
Route(w) ==
  CASE w.op = "byte"  -> "fail"
    [] w.op = "watch" -> IF w.uuid = None THEN "fail" ELSE "watch"
    [] w.op \in {"call", "send", "multi"} /\ w.uuid = "self" ->
         IF w.here # "function" \/ w.op = "send" THEN "fail"
         ELSE IF w.op = "multi" THEN "panic" ELSE "run"
    [] OTHER ->
         IF w.name \in {"", "own"} /\ w.here = "function"
         THEN IF w.op = "multi" THEN "panic" ELSE "run"
         ELSE IF w.name \in {"", "own"} /\ w.here = "struct" /\ w.op # "multi" THEN "panic"
         ELSE IF w.uuid # None \/ w.name # "" THEN "assign" ELSE "rows"

\* QueryFunc finds nothing in its cache and asks the watcher, which may know of no such
\* function, or of one of another type; PutMsg then replaces what was known of its nodes.
\* CallRemoteByte looks into the cache only, WatchCall and WatchSend not at all.
Query(c) ==
  /\ At(c, "start")
  /\ LET r == Route(want[c]) IN
     \/ /\ want[c].op \in {"call", "send", "multi"}
        /\ GiveUp(c) /\ UNCHANGED <<known, ran, crashed>>
     \/ /\ known' = IF want[c].op \in {"byte", "watch"} THEN known ELSE {}
        /\ crashed' = (r = "panic")
        /\ ran' = [ran EXCEPT ![c] = IF r = "run" THEN 1 ELSE 0]
        /\ IF r \in {"run", "fail"} THEN GiveUp(c) ELSE Go(c, IF r = "panic" THEN "start" ELSE r)
  /\ UNCHANGED <<ser, wrong, netVars>> /\ NoDial /\ Rest

\* GetFuncConn: the connections of the nodes known to have the function.
GetFuncConn(c) ==
  /\ At(c, "rows")
  /\ LET ks == {ser[u] : u \in known} \ (wrong \cup {None}) IN
     IF ks # {} THEN Begin(c, ks) ELSE Go(c, "ask")
  /\ UNCHANGED cacheVars /\ NoDial /\ Keep /\ Rest

\* GetRemoteConn: the watcher answers with some nodes, none, or not.
Ask(c) ==
  /\ At(c, "ask")
  /\ \/ GiveUp(c)
     \/ \E us \in SUBSET want[c].has \ {{}} : To(c, "each", [find[c] EXCEPT !.list = us, !.todo = us])
  /\ UNCHANGED cacheVars /\ NoDial /\ Keep /\ Rest

\* GetAssignConn: a cached connection is taken as it is; a name finds nothing; the
\* watcher may know the uuid.  WatchCall takes a cached connection or fails.
Assign(c) ==
  /\ At(c, "assign") \/ At(c, "watch")
  /\ LET u == want[c].uuid
         k == IF u \in Nodes THEN ser[u] ELSE None IN
     \/ k # None /\ Begin(c, {k})
     \/ k = None /\ GiveUp(c)
     \/ /\ k = None /\ u \in Nodes /\ want[c].name = "" /\ stage[c] = "assign"
        /\ To(c, "base", [find[c] EXCEPT !.cur = u])
  /\ UNCHANGED cacheVars /\ NoDial /\ Keep /\ Rest

-----------------------------------------------------------------------------
(* Connections.                                                             *)

\* TestConn: a ping, whose answer is left to the reader of a TCP connection.  An HTTP node
\* answers or not.
TestOk(k) ==
  /\ k \notin blank
  /\ IF k \in Http THEN UNCHANGED <<link, back>> ELSE Tested(k)
TestFails(k) ==
  /\ k \in Http \/ link[k] = "down"
  /\ UNCHANGED <<link, back>>

Old(c) == find[c].old
\* Back in the loop with one connection more.
Found(c, k) == To(c, "each", [find[c] EXCEPT !.rows = @ \cup {k}, !.cur = None, !.old = None,
                                             !.hand = None, !.puts = 0])
\* The cached connection to the node at hand, to stage s, or to stage t if there is none.
Cached(c, s, t) ==
  LET k == ser[find[c].cur] IN
  To(c, IF k = None THEN t ELSE s, [find[c] EXCEPT !.old = k])

\* The loop of GetRemoteConn over the answer: the next node, with a cached connection.
Each(c) ==
  /\ At(c, "each")
  /\ \E u \in find[c].todo :
       To(c, IF ser[u] = None THEN "base" ELSE "test",
          [find[c] EXCEPT !.cur = u, !.todo = @ \ {u}, !.old = ser[u]])
  /\ UNCHANGED cacheVars /\ NoDial /\ Keep /\ Rest

\* After the loop: UpFuncNode when a node could not be connected.
EachDone(c) ==
  /\ At(c, "each") /\ find[c].todo = {}
  /\ LET ids == {Home[k] : k \in find[c].rows} IN
     known' = IF ids # find[c].list /\ find[c].list # {} THEN ids ELSE known
  /\ IF find[c].rows = {} THEN GiveUp(c) ELSE Begin(c, find[c].rows)
  /\ UNCHANGED <<ser, wrong>> /\ NoDial /\ Keep /\ Rest

Test(c) ==
  /\ At(c, "test")
  /\ \/ TestOk(Old(c)) /\ Found(c, Old(c))
     \/ TestFails(Old(c)) /\ Go(c, "base")
  /\ UNCHANGED cacheVars /\ Tests /\ Rest

\* NodeBaseToConn: a cached connection is tested; it is used, or closed and taken off
\* the cache, whatever the cache holds by then.
Base(c) ==
  /\ At(c, "base") /\ Cached(c, "retest", "dial")
  /\ UNCHANGED cacheVars /\ NoDial /\ Keep /\ Rest
Retest(c) ==
  /\ At(c, "retest")
  /\ \/ /\ TestOk(Old(c)) /\ wrong' = wrong \ {Old(c)}
        /\ To(c, "put", [find[c] EXCEPT !.hand = Old(c), !.puts = 1])
     \/ TestFails(Old(c)) /\ wrong' = wrong \cup {Old(c)} /\ Go(c, "close")
  /\ UNCHANGED <<known, ser>> /\ Tests /\ Rest
CloseTested(c) ==
  /\ At(c, "close") /\ Closed(Old(c)) /\ Go(c, "del")
  /\ UNCHANGED <<cacheVars, born, blank, ran, crashed>> /\ Rest
DelConn(c) ==
  /\ At(c, "del") /\ ser' = [ser EXCEPT ![find[c].cur] = None]
  /\ To(c, "dial", [find[c] EXCEPT !.old = None])
  /\ UNCHANGED <<known, wrong>> /\ NoDial /\ Keep /\ Rest

\* RefreshConn: a TCP node answers or is skipped, and is sent a ping on the new connection;
\* a node that does not answer over HTTP gets a connection of no type.
Dial(c) ==
  /\ At(c, "dial")
  /\ \/ To(c, "each", [find[c] EXCEPT !.cur = None]) /\ UNCHANGED <<born, blank, back>>
     \/ \E k \in Conns \ born :
          /\ Home[k] = find[c].cur /\ born' = born \cup {k}
          /\ blank' \in {blank, blank \cup ({k} \cap Http)}
          /\ back' = [back EXCEPT ![k] = IF k \in Http THEN @ ELSE {Pong}]
          /\ To(c, "put", [find[c] EXCEPT !.hand = k, !.puts = 2])
  /\ UNCHANGED <<cacheVars, connVars, req, ran, crashed>> /\ Rest

\* NodeBaseToConn puts a new connection into the cache, and its caller does so again.
HasPut(c) ==
  IF find[c].puts = 2 THEN To(c, "put", [find[c] EXCEPT !.puts = 1, !.old = None])
  ELSE Found(c, find[c].hand)

\* PutConn: the cached connection stays when it passes the test, and is closed otherwise.
Put(c) ==
  /\ At(c, "put") /\ Cached(c, "ptest", "store")
  /\ UNCHANGED cacheVars /\ NoDial /\ Keep /\ Rest
PutTest(c) ==
  /\ At(c, "ptest")
  /\ \/ TestOk(Old(c)) /\ HasPut(c)
     \/ TestFails(Old(c)) /\ Go(c, "pclose")
  /\ UNCHANGED cacheVars /\ Tests /\ Rest
PutClose(c) ==
  /\ At(c, "pclose") /\ Closed(Old(c)) /\ Go(c, "store")
  /\ UNCHANGED <<cacheVars, born, blank, ran, crashed>> /\ Rest
Store(c) ==
  /\ At(c, "store")
  /\ ser' = [ser EXCEPT ![find[c].cur] = find[c].hand] /\ HasPut(c)
  /\ UNCHANGED <<known, wrong>> /\ NoDial /\ Keep /\ Rest

\* The timer's ClearConn: stamp is never set, so every connection looks old.
ClearConn(u) ==
  /\ ser[u] # None /\ upsets < MaxUpsets
  /\ ser' = [ser EXCEPT ![u] = None] /\ upsets' = upsets + 1
  /\ UNCHANGED <<vars, mineVars, known, wrong, ghostVars, born, blank>>

-----------------------------------------------------------------------------
(* connsCall, from here on that of Calls but for HTTP.                      *)

Same == UNCHANGED <<mineVars, cacheVars, dialVars>>

\* serial, the loop over the connections and WaitRsp over TCP.
Skipped(k) == k \in wrong \/ k \in blank
Wired(c) ==
  /\ stage[c] = "go"
  /\ \/ Serial(c) \/ AllWrong(c) \/ NewChan(c) \/ TakeAnswer(c) \/ ContextDone(c) \/ DelChan(c)
     \/ \E k \in Conns \ Http : ~ Skipped(k) /\ (Write(c, k) \/ WriteFails(c, k))
  /\ UNCHANGED ghostVars /\ Same

\* A connection that is wrong or of no type.
Skip(c, k) ==
  /\ stage[c] = "go" /\ pc[c] = "write" /\ k \in left[c] /\ Skipped(k)
  /\ left' = [left EXCEPT ![c] = @ \ {k}]
  /\ UNCHANGED <<reqnum, pc, num, via, chan, got, connVars, netVars, ghostVars>> /\ Same

Around == /\ UNCHANGED <<reqnum, num, chan, got, connVars, netVars, want, find, crashed>>
          /\ UNCHANGED <<cacheVars, dialVars>>

\* postHttpApi: the request goes out, the other node runs the function, and the answer
\* comes back.  The context is not looked at.
Posting(c, s) == stage' = [stage EXCEPT ![c] = s]
Post(c, k) ==
  /\ stage[c] = "go" /\ pc[c] = "write" /\ k \in left[c] \cap Http /\ ~ Skipped(k)
  /\ via' = [via EXCEPT ![c] = k] /\ Posting(c, "post")
  /\ UNCHANGED <<pc, left, ran, lost>> /\ Around
PostRuns(c) ==
  /\ stage[c] = "post"
  /\ ran' = [ran EXCEPT ![c] = @ + 1] /\ Posting(c, "posted")
  /\ UNCHANGED <<pc, left, via, lost>> /\ Around
\* A mutant of PostAnswered: an error of the function is taken for one of the exchange.
PostErrorGoesOn(c) ==
  /\ stage[c] = "posted"
  /\ left' = [left EXCEPT ![c] = @ \ {via[c]}] /\ Posting(c, "go")
  /\ UNCHANGED <<pc, via, ran, lost>> /\ Around
PostAnswered(c) ==
  /\ stage[c] = "posted"
  /\ pc' = [pc EXCEPT ![c] = "done"] /\ Posting(c, "go")
  /\ UNCHANGED <<left, via, ran, lost>> /\ Around
\* A mutant of PostFails: the same connection is tried again.
PostRetries(c) ==
  /\ stage[c] \in {"post", "posted"}
  /\ Posting(c, "go")
  /\ lost' = [lost EXCEPT ![c] = IF stage[c] = "posted" THEN @ + 1 ELSE @]
  /\ UNCHANGED <<pc, left, via, ran>> /\ Around
\* Any error of the exchange: the next connection is tried, also when the function ran.
PostFails(c) ==
  /\ stage[c] \in {"post", "posted"}
  /\ left' = [left EXCEPT ![c] = @ \ {via[c]}] /\ Posting(c, "go")
  /\ lost' = [lost EXCEPT ![c] = IF stage[c] = "posted" THEN @ + 1 ELSE @]
  /\ UNCHANGED <<pc, via, ran>> /\ Around

\* The server of a TCP connection: ParseRspByte, findCall, each time it is handed a request.
Serves(k) ==
  /\ Server(k)
  /\ ran' = [c \in Callers |-> IF \E m \in back'[k] \ back[k] : m.owner = c THEN ran[c] + 1 ELSE ran[c]]
  /\ UNCHANGED <<lost, crashed>> /\ Same

Breaks(k) ==
  /\ k \in born \ Http /\ upsets < MaxUpsets /\ Break(k)
  /\ upsets' = upsets + 1
  /\ UNCHANGED <<mineVars, cacheVars, born, blank, ghostVars>>
Loses(k) ==
  /\ upsets < MaxUpsets
  /\ (\E r \in req[k] : LoseRequest(k, r)) \/ (\E m \in back[k] : LoseAnswer(k, m))
  /\ upsets' = upsets + 1
  /\ UNCHANGED <<mineVars, cacheVars, born, blank, ghostVars>>

\* The job of TimerCheck lasts once it has seen wrong set.  It tests the connection or has
\* RefreshConn dial it anew, and takes the entries that are ten seconds old off its table.
TimerCheck(k) ==
  /\ k \in wrong
  /\ \/ /\ k \notin Http /\ UNCHANGED blank
        /\ TestConn(k) \/ Refresh(k) \/ \E n \in Nums : Sweep(k, n)
     \/ k \in Http /\ blank' = blank \ {k} /\ UNCHANGED vars
  /\ UNCHANGED <<mineVars, cacheVars, born, upsets, ghostVars>>

-----------------------------------------------------------------------------

Lookup(c) ==
  \/ Query(c) \/ GetFuncConn(c) \/ Ask(c) \/ Assign(c)
  \/ Each(c) \/ EachDone(c) \/ Test(c) \/ Base(c) \/ Retest(c) \/ CloseTested(c) \/ DelConn(c)
  \/ Dial(c) \/ Put(c) \/ PutTest(c) \/ PutClose(c) \/ Store(c)
Posts(c) == (\E k \in Http : Post(c, k)) \/ PostRuns(c) \/ PostAnswered(c) \/ PostFails(c)
Calling(c) == Lookup(c) \/ Wired(c) \/ (\E k \in Conns : Skip(c, k)) \/ Posts(c)

\* An exchange over HTTP has no deadline: a ping of TestConn or RefreshConn, or a request.
InHttp(c) ==
  \/ stage[c] \in {"post", "posted"}
  \/ stage[c] \in {"test", "retest", "ptest"} /\ find[c].old \in Http
  \/ At(c, "dial") /\ \E k \in Http : Home[k] = find[c].cur

Returned == (crashed \/ \A c \in Callers : pc[c] = "done") /\ UNCHANGED allVars

DispatchNext ==
  \/ /\ ~ crashed
     /\ \/ \E c \in Callers : Calling(c)
        \/ \E u \in Nodes : ClearConn(u)
        \/ \E k \in Conns : \/ Serves(k) \/ Breaks(k) \/ Loses(k) \/ TimerCheck(k)
                            \/ (ReadResp(k) /\ UNCHANGED ghostVars /\ Same)
  \/ Returned

\* A goroutine that can run does, a deadline passes, and a dial over TCP ends.  Nothing
\* is asked of an exchange over HTTP.
DispatchSpec ==
  /\ DispatchInit /\ [][DispatchNext]_allVars
  /\ \A c \in Callers : WF_allVars(~ crashed /\ Calling(c) /\ ~ InHttp(c))

-----------------------------------------------------------------------------

\* connsCall fails over when a request could not be written: no request is run by two
\* nodes, and none by a node after it ran here, but for a request over HTTP whose answer
\* was lost, after which connsCall turns to the next node as if nothing had run.  One node
\* runs it as often as its server is handed the request: once if it has one or two frames.
AtMostOnce ==
  \A c \in Callers :
    ran[c] <= lost[c] + (IF via[c] \in Conns \ Http THEN Handovers[c][via[c]] ELSE 1)

\* A call whose context has a deadline returns, through the questions to the watcher, the
\* cache shared with other callers, connections that are closed under it, and WaitRsp;
\* or it stays for ever in an HTTP exchange, which heeds no deadline; or a panic ends all.
DeadlineReturns ==
  \A c \in Deadlined : <>(pc[c] = "done" \/ crashed) \/ <>[]InHttp(c)
=============================================================================
