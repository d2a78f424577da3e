------------------------------- MODULE Calls -------------------------------
(***************************************************************************)
(* The client side of Gorigin's RPC: goroutines that call a remote API over *)
(* shared connections (network/rpc/invoke.go) and the one reader goroutine  *)
(* of each connection that hands the answers back (network/rpc/conns.go).   *)
(*                                                                          *)
(* A call takes a serial number, writes its request on the first connection *)
(* that accepts it, only then enters a channel in the connection's table    *)
(* rc, and waits for the answer or for its context.  The reader looks the   *)
(* number of each answer up in rc and sends the answer on that channel,     *)
(* which has room for one.  The number is all that ties an answer to its    *)
(* call.  The pings of TestConn and the dial-register frames of RefreshConn *)
(* go over the same connection, and are answered, with the number 1.        *)
(*                                                                          *)
(* A body is one message here: its frames are the subject of Reassembly.    *)
(***************************************************************************)
EXTENDS Naturals, FiniteSets, Sequences

CONSTANTS
  Callers,     \* the goroutines, each of which makes one remote call
  Ping,        \* the owner of a ping or dial-register frame
  Conns,       \* the NodeConns connsCall may use
  Fid,         \* the function id each caller calls
  Handovers,   \* how often at most the server of a connection is handed a caller's request
  PingNum,     \* the number, and the function id, of a ping: 1
  WatchInMax,  \* comm.WATCH_IN_MAX: ids below it are their own serial number
  SerialMod,   \* the modulus of serial: 65535 in the code
  CounterMod,  \* the range of the uint32 counter reqnum
  StartNums,   \* what reqnum may be before these calls: 0 in a new process
  Deadlined,   \* the callers whose context has a deadline
  Answers,     \* what the server may answer: a subset of {"data", "failed"}
  Faults,      \* what may happen to the connections, a subset of AllFaults
  None         \* no caller, no message, no connection

\* A datagram is lost, or a connection breaks.  The others are the program's: TestConn,
\* RefreshConn by the job of TimerCheck, Close, and that job's removal of entries.
AllFaults == {"lose", "break", "test", "refresh", "close", "sweep"}

\* Over TCP a request of one or two frames is handed over once.  Each frame but the one
\* that makes the ReadLink may find a longer one complete, so Handovers is one less than
\* its frames.  Over UDP, where frames are smaller, a datagram may also be duplicated.

ASSUME CallsAssumption ==
  /\ IsFiniteSet(Callers) /\ Ping \notin Callers
  /\ Fid \in [Callers -> Nat] /\ PingNum \in 1 .. (WatchInMax - 1)
  /\ Handovers \in [Callers -> [Conns -> Nat \ {0}]]
  /\ SerialMod \in Nat \ {0} /\ WatchInMax \in 0 .. SerialMod
  /\ CounterMod \in Nat /\ WatchInMax + 1 < CounterMod
  /\ StartNums \subseteq 0 .. (CounterMod - 1)
  /\ Deadlined \subseteq Callers
  /\ Answers \subseteq {"data", "failed"}
  /\ Faults \subseteq AllFaults
  /\ None \notin Callers /\ None \notin Conns /\ None # Ping

VARIABLES
  reqnum,   \* NodeDetail.reqnum
  pc,       \* the next step of each caller
  num,      \* the serial number of each call
  left,     \* the connections the loop of connsCall has still to try
  via,      \* the connection the request was written on
  chan,     \* RecvChan.body of each call: at most one answer
  rc,       \* NodeConn.rc: serial number -> the call whose channel it is
  link,     \* "up" or "down"
  reader,   \* ReadResp: its step and the answer in its hands
  cut,      \* history: the waiting calls whose entry Close or TimerCheck removed
  req,      \* requests on their way to the server
  back,     \* answers on their way to the reader
  got       \* the answer each call took: None if it gave up or found no connection

callVars == <<reqnum, pc, num, left, via, chan, got>>
connVars == <<rc, link, reader, cut>>
netVars  == <<req, back>>
vars     == <<callVars, connVars, netVars>>

-----------------------------------------------------------------------------

\* An answer says which call it was made for; only the number is on the wire.  copy
\* counts how often the server was handed a request, and tells an answer from others of
\* the same call.
Nums    == 0 .. (SerialMod - 1)
Request == [owner : Callers, num : Nums, copy : Nat \ {0}]
Message == [owner : Callers \cup {Ping}, num : Nums, kind : {"data", "failed"},
            copy : Nat \ {0}]
Pong    == [owner |-> Ping, num |-> PingNum, kind |-> "data", copy |-> 1]

\* A reader is blocked on the network, has parsed an answer, or has found the
\* channel of a call and is about to send on it.
Reader == [at : {"read", "exited"}, msg : {None}, to : {None}]
            \cup [at : {"lookup"}, msg : Message, to : {None}]
            \cup [at : {"send"}, msg : Message, to : Callers]
Reading == [at |-> "read",   msg |-> None, to |-> None]
Exited  == [at |-> "exited", msg |-> None, to |-> None]

Another(m) == [m EXCEPT !.copy = @ + 1]

EmptyTable == [n \in Nums |-> None]

Init ==
  /\ reqnum \in StartNums
  /\ pc = [c \in Callers |-> "idle"]
  /\ num = [c \in Callers |-> 0]
  /\ left = [c \in Callers |-> Conns]
  /\ via = [c \in Callers |-> None]
  /\ chan = [c \in Callers |-> <<>>]
  /\ rc = [k \in Conns |-> EmptyTable]
  /\ link = [k \in Conns |-> "up"]
  /\ reader = [k \in Conns |-> Reading]
  /\ cut = {}
  /\ req = [k \in Conns |-> {}]
  /\ back = [k \in Conns |-> {}]
  /\ got = [c \in Callers |-> None]

-----------------------------------------------------------------------------
(* serial: one action per atomic operation on reqnum.                       *)

Goto(c, from, to) == pc[c] = from /\ pc' = [pc EXCEPT ![c] = to]

\* A built-in id is its own serial number.
SerialReserved(c) ==
  /\ Fid[c] < WatchInMax
  /\ Goto(c, "idle", "write")
  /\ num' = [num EXCEPT ![c] = Fid[c]]
  /\ UNCHANGED <<reqnum, left, via, chan, got, connVars, netVars>>

\* A mutant of SerialAdd: no modulus.
SerialAddNoModulus(c) ==
  /\ Fid[c] >= WatchInMax /\ reqnum + 1 >= WatchInMax
  /\ reqnum' = reqnum + 1
  /\ num' = [num EXCEPT ![c] = reqnum + 1]
  /\ Goto(c, "idle", "write")
  /\ UNCHANGED <<left, via, chan, got, connVars, netVars>>

\* A mutant of SerialAdd: a remainder below the built-in ids is raised to the first number
\* above them.
SerialAddRaised(c) ==
  /\ Fid[c] >= WatchInMax
  /\ LET n == (reqnum + 1) % CounterMod IN
       /\ reqnum' = n
       /\ n >= WatchInMax
       /\ num' = [num EXCEPT ![c] = IF n % SerialMod < WatchInMax THEN WatchInMax ELSE n % SerialMod]
  /\ Goto(c, "idle", "write")
  /\ UNCHANGED <<left, via, chan, got, connVars, netVars>>

\* AddUint32 returned a number above the built-in ids: it is the serial number.
SerialAdd(c) ==
  /\ Fid[c] >= WatchInMax
  /\ LET n == (reqnum + 1) % CounterMod IN
       /\ reqnum' = n
       /\ n >= WatchInMax
       /\ num' = [num EXCEPT ![c] = n % SerialMod]
  /\ Goto(c, "idle", "write")
  /\ UNCHANGED <<left, via, chan, got, connVars, netVars>>

\* AddUint32 returned a number reserved for built-in ids.
SerialLow(c) ==
  /\ Fid[c] >= WatchInMax
  /\ LET n == (reqnum + 1) % CounterMod IN
       /\ reqnum' = n
       /\ n < WatchInMax
  /\ Goto(c, "idle", "swap")
  /\ UNCHANGED <<num, left, via, chan, got, connVars, netVars>>

\* SwapUint32 puts the counter back to WATCH_IN_MAX, whatever it was by then.
SerialSwap(c) ==
  /\ Goto(c, "swap", "again")
  /\ reqnum' = WatchInMax
  /\ UNCHANGED <<num, left, via, chan, got, connVars, netVars>>

\* A mutant of SerialAgain: the counter is read, not added to.
SerialAgainLoads(c) ==
  /\ num' = [num EXCEPT ![c] = reqnum % SerialMod]
  /\ Goto(c, "again", "write")
  /\ UNCHANGED <<reqnum, left, via, chan, got, connVars, netVars>>

SerialAgain(c) ==
  /\ LET n == (reqnum + 1) % CounterMod IN
       /\ reqnum' = n
       /\ num' = [num EXCEPT ![c] = n % SerialMod]
  /\ Goto(c, "again", "write")
  /\ UNCHANGED <<left, via, chan, got, connVars, netVars>>

-----------------------------------------------------------------------------
(* connsCall and WaitRsp.                                                   *)

\* The request is written on k, before the call has a channel.
Write(c, k) ==
  /\ k \in left[c] /\ link[k] = "up"
  /\ Goto(c, "write", "newchan")
  /\ via' = [via EXCEPT ![c] = k]
  /\ req' = [req EXCEPT ![k] = @ \cup {[owner |-> c, num |-> num[c], copy |-> 1]}]
  /\ UNCHANGED <<reqnum, num, left, chan, got, connVars, back>>

\* The write failed: goto NextConn.
WriteFails(c, k) ==
  /\ k \in left[c] /\ link[k] = "down"
  /\ pc[c] = "write"
  /\ left' = [left EXCEPT ![c] = @ \ {k}]
  /\ UNCHANGED <<reqnum, pc, num, via, chan, got, connVars, netVars>>

AllWrong(c) ==
  /\ left[c] = {}
  /\ Goto(c, "write", "done")
  /\ UNCHANGED <<reqnum, num, left, via, chan, got, connVars, netVars>>

\* NewChan replaces the entry of the number, if there is one.
NewChan(c) ==
  /\ Goto(c, "newchan", "wait")
  /\ rc' = [rc EXCEPT ![via[c]][num[c]] = c]
  /\ UNCHANGED <<reqnum, num, left, via, chan, got, link, reader, cut, netVars>>

\* case buff := <-c.body
TakeAnswer(c) ==
  /\ chan[c] # <<>>
  /\ Goto(c, "wait", "delchan")
  /\ got' = [got EXCEPT ![c] = Head(chan[c])]
  /\ chan' = [chan EXCEPT ![c] = Tail(@)]
  /\ UNCHANGED <<reqnum, num, left, via, connVars, netVars>>

\* A mutant of ContextDone: the context is not heeded once the connection died.
ContextDoneWhileUp(c) ==
  /\ c \in Deadlined
  /\ Goto(c, "wait", "delchan") /\ link[via[c]] = "up"
  /\ UNCHANGED <<reqnum, num, left, via, chan, got, connVars, netVars>>

\* case <-ctx.Done(): also when an answer is there, select chooses.
ContextDone(c) ==
  /\ c \in Deadlined
  /\ Goto(c, "wait", "delchan")
  /\ UNCHANGED <<reqnum, num, left, via, chan, got, connVars, netVars>>

\* A mutant of DelChan: an early return without the deferred call.
DelChanForgotten(c) ==
  /\ Goto(c, "delchan", "done")
  /\ cut' = cut \ {c}
  /\ UNCHANGED <<reqnum, num, left, via, chan, got, rc, link, reader, netVars>>

\* DelChan removes the entry of the number, whoever put it there.
DelChan(c) ==
  /\ Goto(c, "delchan", "done")
  /\ rc' = [rc EXCEPT ![via[c]][num[c]] = None]
  /\ cut' = cut \ {c}
  /\ UNCHANGED <<reqnum, num, left, via, chan, got, link, reader, netVars>>

-----------------------------------------------------------------------------
(* The server: ParseRspByte answers a request unless its number is 0.  Its  *)
(* handlers run concurrently, so the answers come in any order.             *)

Ignored(r) == r.num = 0 \/ Fid[r.owner] = 0

ServeIgnored(k, r) ==
  /\ r \in req[k] /\ link[k] = "up" /\ Ignored(r)
  /\ req' = [req EXCEPT ![k] = @ \ {r}]
  /\ UNCHANGED <<callVars, connVars, back>>

Answered(k, r, a) ==
  back' = [back EXCEPT ![k] = @ \cup
    {[owner |-> r.owner, num |-> r.num, kind |-> a, copy |-> r.copy]}]

Serve(k, r, a) ==
  /\ r \in req[k] /\ link[k] = "up" /\ ~ Ignored(r)
  /\ req' = [req EXCEPT ![k] = @ \ {r}]
  /\ Answered(k, r, a)
  /\ UNCHANGED <<callVars, connVars>>

\* The request will be handed over once more.  (A datagram of the answer that is
\* duplicated makes one more answer, too.)
ServeAgain(k, r, a) ==
  /\ r \in req[k] /\ link[k] = "up" /\ ~ Ignored(r)
  /\ r.copy < Handovers[r.owner][k]
  /\ req' = [req EXCEPT ![k] = (@ \ {r}) \cup {Another(r)}]
  /\ Answered(k, r, a)
  /\ UNCHANGED <<callVars, connVars>>

-----------------------------------------------------------------------------
(* ReadRespTCP and ReadRespUDP: one goroutine per connection.               *)

\* ParseResp returns the number of a successful answer ...
ReadAnswer(k, m) ==
  /\ m \in back[k] /\ reader[k].at = "read"
  /\ m.kind = "data" /\ m.num > 0
  /\ back' = [back EXCEPT ![k] = @ \ {m}]
  /\ reader' = [reader EXCEPT ![k] = [at |-> "lookup", msg |-> m, to |-> None]]
  /\ UNCHANGED <<callVars, rc, link, cut, req>>

\* ... and 0 for an error answer, which the reader drops.
ReadFailure(k, m) ==
  /\ m \in back[k] /\ reader[k].at = "read"
  /\ m.kind = "failed" \/ m.num = 0
  /\ back' = [back EXCEPT ![k] = @ \ {m}]
  /\ UNCHANGED <<callVars, connVars, req>>

\* c, ok := n.rc[num] under the lock, which is released before the send.
LookupFound(k) ==
  /\ reader[k].at = "lookup"
  /\ rc[k][reader[k].msg.num] # None
  /\ reader' = [reader EXCEPT ![k] =
       [at |-> "send", msg |-> @.msg, to |-> rc[k][@.msg.num]]]
  /\ UNCHANGED <<callVars, rc, link, cut, netVars>>

LookupMissed(k) ==
  /\ reader[k].at = "lookup"
  /\ rc[k][reader[k].msg.num] = None
  /\ reader' = [reader EXCEPT ![k] = Reading]
  /\ UNCHANGED <<callVars, rc, link, cut, netVars>>

\* c.body <- bts blocks while the channel is full.
SendBody(k) ==
  /\ reader[k].at = "send"
  /\ chan[reader[k].to] = <<>>
  /\ chan' = [chan EXCEPT ![reader[k].to] = <<reader[k].msg>>]
  /\ reader' = [reader EXCEPT ![k] = Reading]
  /\ UNCHANGED <<reqnum, pc, num, left, via, got, rc, link, cut, netVars>>

\* A read on a connection that is gone ends the goroutine.
ReadError(k) ==
  /\ reader[k].at = "read" /\ link[k] = "down"
  /\ reader' = [reader EXCEPT ![k] = Exited]
  /\ UNCHANGED <<callVars, rc, link, cut, netVars>>

-----------------------------------------------------------------------------
(* The network and the connection's keeper.                                 *)

\* A request or an answer is lost (UDP).  Two goroutines of a server may lose a request of
\* several frames between them over TCP, too.
LoseRequest(k, r) ==
  /\ "lose" \in Faults
  /\ req' = [req EXCEPT ![k] = @ \ {r}]
  /\ UNCHANGED <<callVars, connVars, back>>
LoseAnswer(k, m) ==
  /\ "lose" \in Faults
  /\ back' = [back EXCEPT ![k] = @ \ {m}]
  /\ UNCHANGED <<callVars, connVars, req>>

\* What is in flight on k is lost, and a reader blocked on it returns.
Drop(k) ==
  /\ reader' = [reader EXCEPT ![k] = IF @.at = "read" THEN Exited ELSE @]
  /\ req' = [req EXCEPT ![k] = {}]
  /\ back' = [back EXCEPT ![k] = {}]

\* The connection dies.
Break(k) ==
  /\ "break" \in Faults /\ link[k] = "up"
  /\ link' = [link EXCEPT ![k] = "down"]
  /\ Drop(k)
  /\ UNCHANGED <<callVars, rc, cut>>

\* TestTcpConn and TestUdpConn: a connection that does not take the ping, since it broke
\* or was closed, is dialled again, and no goroutine is started to read from the new one.
\* The ping is answered with the number of any other ping: the server has nothing to do
\* but that, so its answer is put on the way at once, to be read at any time.
Tested(k) ==
  /\ link' = [link EXCEPT ![k] = "up"]
  /\ back' = [back EXCEPT ![k] = @ \cup {Pong}]
TestConn(k) ==
  /\ "test" \in Faults /\ Tested(k)
  /\ UNCHANGED <<callVars, rc, reader, cut, req>>

\* The job of TimerCheck calls RefreshConn, which starts a reader.  (Bound: the reader
\* before it has ended.)
Refresh(k) ==
  /\ "refresh" \in Faults /\ link[k] = "down" /\ reader[k] = Exited
  /\ Tested(k) /\ reader' = [reader EXCEPT ![k] = Reading]
  /\ UNCHANGED <<callVars, rc, cut, req>>

\* NodeBaseToConn and PutConn give the connection up, which another goroutine may have
\* dialled again since its test: Close empties the table, and wakes nobody who waits on one
\* of its channels.
Closed(k) ==
  /\ link' = [link EXCEPT ![k] = "down"]
  /\ cut' = cut \cup ({rc[k][n] : n \in Nums} \ {None})
  /\ rc' = [rc EXCEPT ![k] = EmptyTable]
  /\ Drop(k)
Close(k) == "close" \in Faults /\ Closed(k) /\ UNCHANGED callVars

\* The job of TimerCheck deletes the entries that are ten seconds old, which are some of
\* them, one by one; waiting calls own them.
Sweep(k, n) ==
  /\ "sweep" \in Faults /\ rc[k][n] # None
  /\ cut' = cut \cup {rc[k][n]}
  /\ rc' = [rc EXCEPT ![k][n] = None]
  /\ UNCHANGED <<callVars, link, reader, netVars>>

\* Every call has returned.
Finished == (\A c \in Callers : pc[c] = "done") /\ UNCHANGED vars

-----------------------------------------------------------------------------

Serial(c)  == SerialReserved(c) \/ SerialAdd(c) \/ SerialLow(c)
                \/ SerialSwap(c) \/ SerialAgain(c)
ConnsCall(c) == AllWrong(c) \/ \E k \in Conns : Write(c, k) \/ WriteFails(c, k)
Caller(c)  == Serial(c) \/ ConnsCall(c) \/ NewChan(c) \/ TakeAnswer(c)
                \/ ContextDone(c) \/ DelChan(c)
Server(k)  == \E r \in req[k] : \/ ServeIgnored(k, r)
                                \/ \E a \in Answers : Serve(k, r, a) \/ ServeAgain(k, r, a)
ReadResp(k) == (\E m \in back[k] : ReadAnswer(k, m) \/ ReadFailure(k, m))
                \/ LookupFound(k) \/ LookupMissed(k) \/ SendBody(k) \/ ReadError(k)
Environment(k) == (\E r \in req[k] : LoseRequest(k, r))
                    \/ (\E m \in back[k] : LoseAnswer(k, m))
                    \/ Break(k) \/ TestConn(k) \/ Refresh(k) \/ Close(k)
                    \/ (\E n \in Nums : Sweep(k, n))

Next == \/ \E c \in Callers : Caller(c)
        \/ \E k \in Conns : Server(k) \/ ReadResp(k) \/ Environment(k)
        \/ Finished

Spec == Init /\ [][Next]_vars

-----------------------------------------------------------------------------

\* The range of every variable; RecvChan.body holds at most one answer.
TypeOK ==
  /\ reqnum \in 0 .. (CounterMod - 1)
  /\ pc \in [Callers -> {"idle", "swap", "again", "write", "newchan", "wait",
                         "delchan", "done"}]
  /\ num \in [Callers -> Nums]
  /\ left \in [Callers -> SUBSET Conns]
  /\ via \in [Callers -> Conns \cup {None}]
  /\ chan \in [Callers -> Seq(Message)] /\ \A c \in Callers : Len(chan[c]) <= 1
  /\ rc \in [Conns -> [Nums -> Callers \cup {None}]]
  /\ link \in [Conns -> {"up", "down"}]
  /\ reader \in [Conns -> Reader]
  /\ cut \subseteq Callers
  /\ req \in [Conns -> SUBSET Request]
  /\ back \in [Conns -> SUBSET Message]
  /\ got \in [Callers -> Message \cup {None}]

Pending == {c \in Callers : pc[c] \in {"write", "newchan", "wait", "delchan"}}
Waiting == {c \in Callers : pc[c] \in {"wait", "delchan"}}

\* The calls of ordinary functions, and those of them whose number is no built-in id.
\* After the counter has passed SerialMod an ordinary call may get the number of a
\* built-in call or of a ping, and shares it; two built-in calls of one id always do.
Ordinary   == {c \in Callers : Fid[c] >= WatchInMax}
Private(c) == c \in Ordinary /\ num[c] >= WatchInMax

\* serial: no two ordinary calls that are under way have the same number, however the
\* goroutines interleave their atomic operations on reqnum, through the modulus too.
UniqueNumbers ==
  \A c, d \in Pending \cap Ordinary : num[c] = num[d] => c = d

\* ReadRespTCP/ReadRespUDP and WaitRsp: an answer a call returns with bears its number, and
\* if that is no built-in id it is the answer to its own request, though the connection
\* is shared with pings and other calls, answers come in any order, late, twice or not at
\* all, and calls fail over and time out.
OwnAnswer ==
  \A c \in Callers : got[c] # None =>
    got[c].num = num[c] /\ (Private(c) => got[c].owner = c)

\* NewChan and DelChan: an entry of rc belongs to a call that waits on that connection
\* with that number, so nothing is left behind when a call returns; and a waiting call
\* whose number is no built-in id has its entry, on a connection that was dialled again
\* too, unless Close or the job of TimerCheck took it.
TableExact ==
  /\ \A k \in Conns, n \in Nums :
       rc[k][n] # None => /\ rc[k][n] \in Waiting
                          /\ via[rc[k][n]] = k /\ num[rc[k][n]] = n
  /\ \A c \in Waiting \ cut : Private(c) => rc[via[c]][num[c]] = c

\* c.body <- bts: the reader, on which every call of the connection depends, finds the
\* channel of a call whose number is no built-in id full only of that call's own answer,
\* and only if its request was handed over more than once or its datagrams duplicated:
\* over TCP no call with a request of one or two frames blocks it.
ReaderBlocksOnlyOnRepeat ==
  \A k \in Conns :
    LET c == reader[k].to IN
    reader[k].at = "send" /\ chan[c] # <<>> /\ Private(c) =>
      reader[k].msg.owner = c /\ Head(chan[c]).owner = c /\ Handovers[c][k] > 1
=============================================================================
