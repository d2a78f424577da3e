---------------------------- MODULE CallsProofs ----------------------------
(***************************************************************************)
(* What holds of Calls for every number of goroutines and connections, any  *)
(* faults, and the code's own constants.                                    *)
(***************************************************************************)
EXTENDS Calls, FiniteSetTheorems, SequenceTheorems, TLAPS

\* Every variable of the client stays in its range, and the channel of a call
\* never holds more than the one answer make(chan []byte, 1) has room for.
LEMMA InitTyped == Init => TypeOK
<1> SUFFICES ASSUME Init PROVE TypeOK
  OBVIOUS
<1>1. 0 \in Nums /\ EmptyTable \in [Nums -> Callers \cup {None}]
  BY CallsAssumption DEF Nums, EmptyTable
<1>2. Reading \in Reader
  BY DEF Reading, Reader
<1>3. \A c \in Callers : chan[c] \in Seq(Message) /\ Len(chan[c]) <= 1
  BY DEF Init
<1> QED
  BY <1>1, <1>2, <1>3, CallsAssumption DEF Init, TypeOK

\* A step of connsCall, WaitRsp or a reader keeps every variable in its range.
LEMMA StepTyped == TypeOK /\ [Next]_vars => TypeOK'
<1> SUFFICES ASSUME TypeOK, [Next]_vars PROVE TypeOK'
  OBVIOUS
<1> USE CallsAssumption
<1>n. (reqnum + 1) % CounterMod \in 0 .. (CounterMod - 1)
  BY DEF TypeOK
<1>m. ((reqnum + 1) % CounterMod) % SerialMod \in Nums
  BY <1>n DEF Nums
<1>1. ASSUME NEW c \in Callers, Serial(c) PROVE TypeOK'
  <2>1. CASE SerialReserved(c)
    <3>1. Fid[c] \in Nums
      BY <2>1 DEF SerialReserved, Nums
    <3> QED
      BY <2>1, <3>1 DEF SerialReserved, Goto, TypeOK, connVars, netVars
  <2>2. CASE SerialAdd(c)
    BY <2>2, <1>n, <1>m DEF SerialAdd, Goto, TypeOK, connVars, netVars
  <2>3. CASE SerialLow(c)
    BY <2>3, <1>n DEF SerialLow, Goto, TypeOK, connVars, netVars
  <2>4. CASE SerialSwap(c)
    BY <2>4 DEF SerialSwap, Goto, TypeOK, connVars, netVars
  <2>5. CASE SerialAgain(c)
    BY <2>5, <1>n, <1>m DEF SerialAgain, Goto, TypeOK, connVars, netVars
  <2> QED
    BY <1>1, <2>1, <2>2, <2>3, <2>4, <2>5 DEF Serial
<1>2. ASSUME NEW c \in Callers, ConnsCall(c) PROVE TypeOK'
  <2>1. CASE AllWrong(c)
    BY <2>1 DEF AllWrong, Goto, TypeOK, connVars, netVars
  <2>2. ASSUME NEW k \in Conns, Write(c, k) PROVE TypeOK'
    <3>1. [owner |-> c, num |-> num[c], copy |-> 1] \in Request
      BY DEF Request, TypeOK
    <3> QED
      BY <2>2, <3>1 DEF Write, Goto, TypeOK, connVars
  <2>3. ASSUME NEW k \in Conns, WriteFails(c, k) PROVE TypeOK'
    BY <2>3 DEF WriteFails, TypeOK, connVars, netVars
  <2> QED
    BY <1>2, <2>1, <2>2, <2>3 DEF ConnsCall
<1>3. ASSUME NEW c \in Callers, NewChan(c) PROVE TypeOK'
  BY <1>3 DEF NewChan, Goto, TypeOK, netVars
<1>4. ASSUME NEW c \in Callers, TakeAnswer(c) PROVE TypeOK'
  <2>1. /\ Head(chan[c]) \in Message
        /\ Tail(chan[c]) \in Seq(Message)
        /\ Len(Tail(chan[c])) <= 1
    BY <1>4, HeadTailProperties DEF TakeAnswer, TypeOK
  <2> QED
    BY <1>4, <2>1 DEF TakeAnswer, Goto, TypeOK, connVars, netVars
<1>5. ASSUME NEW c \in Callers, ContextDone(c) PROVE TypeOK'
  BY <1>5 DEF ContextDone, Goto, TypeOK, connVars, netVars
<1>6. ASSUME NEW c \in Callers, DelChan(c) PROVE TypeOK'
  BY <1>6 DEF DelChan, Goto, TypeOK, netVars
<1>7. ASSUME NEW k \in Conns, Server(k) PROVE TypeOK'
  <2>1. ASSUME NEW r \in req[k], ServeIgnored(k, r) PROVE TypeOK'
    BY <2>1 DEF ServeIgnored, TypeOK, callVars, connVars
  <2>2. ASSUME NEW r \in req[k], NEW a \in Answers, Serve(k, r, a) PROVE TypeOK'
    <3>3. r \in Request /\ a \in {"data", "failed"}
      BY DEF TypeOK
    <3>1. [owner |-> r.owner, num |-> r.num, kind |-> a, copy |-> r.copy] \in Message
      BY <3>3 DEF Request, Message
    <3> QED
      BY <2>2, <3>1 DEF Serve, Answered, TypeOK, callVars, connVars
  <2>3. ASSUME NEW r \in req[k], NEW a \in Answers, ServeAgain(k, r, a) PROVE TypeOK'
    <3>3. r \in Request /\ a \in {"data", "failed"}
      BY DEF TypeOK
    <3>1. [owner |-> r.owner, num |-> r.num, kind |-> a, copy |-> r.copy] \in Message
      BY <3>3 DEF Request, Message
    <3>2. Another(r) \in Request
      BY <3>3 DEF Request, Another
    <3> QED
      BY <2>3, <3>1, <3>2 DEF ServeAgain, Answered, TypeOK, callVars, connVars
  <2> QED
    BY <1>7, <2>1, <2>2, <2>3 DEF Server
<1>8. ASSUME NEW k \in Conns, ReadResp(k) PROVE TypeOK'
  <2>1. ASSUME NEW m \in back[k], ReadAnswer(k, m) PROVE TypeOK'
    <3>1. m \in Message
      BY DEF TypeOK
    <3>2. [at |-> "lookup", msg |-> m, to |-> None] \in Reader
      BY <3>1 DEF Reader
    <3> QED
      BY <2>1, <3>2 DEF ReadAnswer, TypeOK, callVars
  <2>2. ASSUME NEW m \in back[k], ReadFailure(k, m) PROVE TypeOK'
    BY <2>2 DEF ReadFailure, TypeOK, callVars, connVars
  <2>3. CASE LookupFound(k)
    <3>1. /\ reader[k] \in [at : {"lookup"}, msg : Message, to : {None}]
          /\ reader[k].msg.num \in Nums
      BY <2>3 DEF LookupFound, TypeOK, Reader, Message
    <3>2. rc[k][reader[k].msg.num] \in Callers
      BY <2>3, <3>1 DEF LookupFound, TypeOK
    <3>3. reader'[k] = [at |-> "send", msg |-> reader[k].msg,
                        to |-> rc[k][reader[k].msg.num]]
      BY <2>3, <3>1 DEF LookupFound, TypeOK
    <3>4. reader'[k] \in Reader
      BY <3>1, <3>2, <3>3 DEF Reader
    <3> QED
      BY <2>3, <3>4 DEF LookupFound, TypeOK, callVars, netVars
  <2>4. CASE LookupMissed(k)
    BY <2>4 DEF LookupMissed, Reading, Reader, TypeOK, callVars, netVars
  <2>5. CASE SendBody(k)
    <3>1. reader[k].msg \in Message
      BY <2>5 DEF SendBody, TypeOK, Reader
    <3>2. /\ <<reader[k].msg>> \in Seq(Message)
          /\ Len(<<reader[k].msg>>) <= 1
      BY <3>1
    <3> QED
      BY <2>5, <3>2 DEF SendBody, Reading, Reader, TypeOK, netVars
  <2>6. CASE ReadError(k)
    BY <2>6 DEF ReadError, Exited, Reader, TypeOK, callVars, netVars
  <2> QED
    BY <1>8, <2>1, <2>2, <2>3, <2>4, <2>5, <2>6 DEF ReadResp
<1>9. ASSUME NEW k \in Conns, Environment(k) PROVE TypeOK'
  <2>1. ASSUME NEW r \in req[k], LoseRequest(k, r) PROVE TypeOK'
    BY <2>1 DEF LoseRequest, TypeOK, callVars, connVars
  <2>6. ASSUME NEW m \in back[k], LoseAnswer(k, m) PROVE TypeOK'
    BY <2>6 DEF LoseAnswer, TypeOK, callVars, connVars
  <2>2. CASE Break(k)
    BY <2>2 DEF Break, Drop, Exited, Reader, TypeOK, callVars
  <2>3. Pong \in Message
    BY DEF Pong, Message, Nums
  <2>4. CASE TestConn(k)
    BY <2>3, <2>4 DEF TestConn, Tested, TypeOK, callVars
  <2>5. CASE Refresh(k)
    BY <2>3, <2>5 DEF Refresh, Tested, Reading, Reader, TypeOK, callVars
  <2>7. CASE Close(k)
    <3>1. {rc[k][n] : n \in Nums} \ {None} \subseteq Callers
      BY DEF TypeOK
    <3>2. EmptyTable \in [Nums -> Callers \cup {None}]
      BY DEF EmptyTable
    <3> QED
      BY <2>7, <3>1, <3>2 DEF Close, Closed, Drop, Exited, Reader, TypeOK, callVars
  <2>8. ASSUME NEW n \in Nums, Sweep(k, n) PROVE TypeOK'
    BY <2>8 DEF Sweep, TypeOK, callVars, netVars
  <2> QED
    BY <1>9, <2>1, <2>2, <2>4, <2>5, <2>6, <2>7, <2>8 DEF Environment
<1>10. CASE UNCHANGED vars
  BY <1>10 DEF TypeOK, vars, callVars, connVars, netVars
<1> QED
  BY <1>1, <1>2, <1>3, <1>4, <1>5, <1>6, <1>7, <1>8, <1>9, <1>10
    DEF Next, Caller, Finished

\* Every reachable state of the client is well typed.
THEOREM Typing == Spec => []TypeOK
  BY InitTyped, StepTyped, PTL DEF Spec

-----------------------------------------------------------------------------
(* Serial numbers, once the counter has left the built-in ids behind.       *)

\* The start of the process is over, and the ordinary calls are fewer than the numbers:
\* in the code, fewer than 65536 calls of one another's time.  Built-in calls may share
\* numbers with them, with one another and with pings.
Warm ==
  /\ \A s \in StartNums : WatchInMax <= s /\ s + Cardinality(Ordinary) < CounterMod
  /\ Cardinality(Ordinary) <= SerialMod

\* The calls that have a number, and the ordinary ones of them.
Started == {c \in Callers : pc[c] \notin {"idle", "swap", "again"}}
Drawn   == Started \cap Ordinary

\* The counter counts the ordinary calls that have started; each has the remainder of
\* one of the values the counter has had since its start at s, and no two the same.
CountedFrom(s) ==
  /\ reqnum = s + Cardinality(Drawn)
  /\ \A c \in Drawn : \E t \in (s + 1) .. reqnum : num[c] = t % SerialMod
NumInv ==
  /\ \A c \in Callers : pc[c] \notin {"swap", "again"}
  /\ \E s \in StartNums : CountedFrom(s)
  /\ \A c, d \in Drawn : num[c] = num[d] => c = d
  /\ \A c \in Started \ Ordinary : num[c] = Fid[c]

\* A number below the modulus is its own remainder.
LEMMA ModSmall ==
  ASSUME NEW M \in Nat, M > 0, NEW a \in Nat, a < M
  PROVE  a % M = a
OBVIOUS

\* Quotient and remainder.
LEMMA ModSplit ==
  ASSUME NEW M \in Nat \ {0}, NEW a \in Nat
  PROVE  \E q \in Nat : a = M * q + (a % M)
<1>1. a \div M \in Nat
  OBVIOUS
<1>2. a = M * (a \div M) + (a % M)
  OBVIOUS
<1> QED
  BY <1>1, <1>2

\* Two counter values less than the modulus of serial apart give two numbers.
LEMMA ModDistinct ==
  ASSUME NEW M \in Nat \ {0}, NEW a \in Nat, NEW b \in Nat, a < b, b - a < M
  PROVE  a % M # b % M
<1>1. PICK p \in Nat : a = M * p + (a % M)
  BY ModSplit
<1>2. PICK q \in Nat : b = M * q + (b % M)
  BY ModSplit
<1>3. SUFFICES ASSUME a % M = b % M PROVE FALSE
  OBVIOUS
<1>4. b - a = M * q - M * p
  <2>1. a % M \in 0 .. (M - 1)
    OBVIOUS
  <2>2. M * q \in Int /\ M * p \in Int
    OBVIOUS
  <2> QED
    BY <1>1, <1>2, <1>3, <2>1, <2>2
<1>5. M * q - M * p = M * (q - p)
  OBVIOUS
<1>6. q - p \in Int /\ M * (q - p) > 0 /\ M * (q - p) < M
  BY <1>4, <1>5
<1>7. CASE q - p >= 1
  <2>1. M * (q - p) >= M
    BY <1>7, <1>6
  <2> QED
    BY <2>1, <1>6
<1>8. CASE q - p <= 0
  <2>1. M * (q - p) <= 0
    BY <1>8, <1>6
  <2> QED
    BY <2>1, <1>6
<1> QED
  BY <1>6, <1>7, <1>8

\* Only a goroutine that takes its number changes the counter or a number.
LEMMA SameNumbers ==
  ASSUME NumInv, UNCHANGED <<reqnum, num>>, Started' = Started,
         \A c \in Callers : pc'[c] \notin {"swap", "again"}
  PROVE  NumInv'
BY DEF NumInv, CountedFrom, Drawn, Ordinary

\* serial gives every ordinary call under way a number of its own.
LEMMA NumStep == Warm /\ TypeOK /\ NumInv /\ [Next]_vars => NumInv'
<1> SUFFICES ASSUME Warm, TypeOK, NumInv, [Next]_vars PROVE NumInv'
  OBVIOUS
<1> USE CallsAssumption
<1>s. PICK s \in StartNums : CountedFrom(s)
  BY DEF NumInv
<1>n. s \in Nat /\ WatchInMax <= s /\ s + Cardinality(Ordinary) < CounterMod
  BY <1>s DEF Warm
<1>f. IsFiniteSet(Ordinary) /\ Cardinality(Ordinary) \in Nat
  BY FS_Subset, FS_CardinalityType DEF Ordinary
<1>c. IsFiniteSet(Drawn) /\ Cardinality(Drawn) \in Nat
  BY <1>f, FS_Subset, FS_CardinalityType DEF Drawn
<1>0. ASSUME NEW c \in Callers, SerialReserved(c) PROVE NumInv'
  <2>1. c \notin Ordinary /\ reqnum' = reqnum /\ num'[c] = Fid[c]
    BY <1>0 DEF SerialReserved, Ordinary, TypeOK
  <2>2. \A d \in Callers : d # c => num'[d] = num[d] /\ pc'[d] = pc[d]
    BY <1>0 DEF SerialReserved, Goto, TypeOK
  <2>3. Drawn' = Drawn /\ c \notin Drawn /\ Drawn \subseteq Callers
    BY <2>1, <2>2 DEF Drawn, Started, Ordinary
  <2>4. \A d \in Callers : pc'[d] \notin {"swap", "again"}
    BY <1>0, <2>2 DEF SerialReserved, Goto, NumInv, TypeOK
  <2>5. \A d \in Started' \ Ordinary' : num'[d] = Fid[d]
    <3>1. Ordinary' = Ordinary
      BY DEF Ordinary
    <3>2. \A d \in Started' : d # c => d \in Started
      BY <2>2 DEF Started
    <3> QED
      BY <2>1, <2>2, <3>1, <3>2 DEF NumInv, Started
  <2>6. \A d \in Drawn : num'[d] = num[d]
    BY <2>2, <2>3
  <2>7. CountedFrom(s)'
    BY <2>1, <2>3, <2>6, <1>s DEF CountedFrom
  <2>8. \A d, e \in Drawn' : num'[d] = num'[e] => d = e
    BY <2>3, <2>6 DEF NumInv
  <2> QED
    BY <2>4, <2>5, <2>7, <2>8 DEF NumInv
<1>1. ASSUME NEW c \in Callers, SerialAdd(c) PROVE NumInv'
  <2>0. c \notin Started /\ Started' = Started \cup {c} /\ c \in Ordinary /\ Ordinary' = Ordinary
    BY <1>1 DEF SerialAdd, Goto, Started, Ordinary, TypeOK
  <2>1. c \notin Drawn /\ Drawn' = Drawn \cup {c}
    BY <2>0 DEF Drawn
  <2>2. Cardinality(Drawn') = Cardinality(Drawn) + 1
    BY <2>1, <1>c, FS_AddElement
  <2>3. Cardinality(Drawn') <= Cardinality(Ordinary)
    <3>1. Drawn' \subseteq Ordinary
      BY <2>0 DEF Drawn
    <3> QED
      BY <3>1, <1>f, FS_Subset
  <2>4. reqnum + 1 < CounterMod /\ reqnum + 1 <= s + SerialMod
    BY <2>2, <2>3, <1>c, <1>f, <1>s, <1>n DEF Warm, CountedFrom
  <2>5. (reqnum + 1) % CounterMod = reqnum + 1
    <3>1. reqnum + 1 \in Nat /\ CounterMod > 0
      BY DEF TypeOK
    <3> QED
      BY <2>4, <3>1, ModSmall
  <2>6. reqnum' = reqnum + 1 /\ num' = [num EXCEPT ![c] = (reqnum + 1) % SerialMod]
    BY <1>1, <2>5 DEF SerialAdd
  <2>7. reqnum' = s + Cardinality(Drawn')
    BY <2>2, <2>6, <1>c, <1>s, <1>n DEF CountedFrom
  <2>8. \A d \in Drawn : num'[d] = num[d] /\ d # c
    BY <2>1, <2>6 DEF TypeOK, Drawn, Started
  <2>9. num'[c] = (reqnum + 1) % SerialMod
    BY <2>6 DEF TypeOK
  <2>10. \A d \in Drawn : num'[d] # num'[c]
    <3> TAKE d \in Drawn
    <3>1. PICK t \in (s + 1) .. reqnum : num[d] = t % SerialMod
      BY <1>s DEF CountedFrom
    <3>2. t \in Nat /\ reqnum + 1 \in Nat /\ t < reqnum + 1 /\ (reqnum + 1) - t < SerialMod
      BY <2>4, <1>n DEF TypeOK
    <3>3. t % SerialMod # (reqnum + 1) % SerialMod
      <4>1. SerialMod \in Nat \ {0}
        OBVIOUS
      <4> QED
        BY <3>2, <4>1, ModDistinct
    <3> QED
      BY <3>1, <3>3, <2>8, <2>9
  <2>11. \A d \in Drawn' : \E t \in (s + 1) .. reqnum' : num'[d] = t % SerialMod
    <3> TAKE d \in Drawn'
    <3>1. CASE d = c
      <4>1. reqnum + 1 \in (s + 1) .. reqnum'
        BY <2>6, <1>c, <1>s, <1>n DEF CountedFrom, TypeOK
      <4> QED
        BY <3>1, <4>1, <2>9
    <3>2. CASE d \in Drawn
      <4>1. PICK t \in (s + 1) .. reqnum : num[d] = t % SerialMod
        BY <3>2, <1>s DEF CountedFrom
      <4>2. t \in (s + 1) .. reqnum'
        BY <2>6, <1>n DEF TypeOK
      <4> QED
        BY <3>2, <4>1, <4>2, <2>8
    <3> QED
      BY <3>1, <3>2, <2>1
  <2>12. \A d, e \in Drawn' : num'[d] = num'[e] => d = e
    BY <2>1, <2>8, <2>10 DEF NumInv
  <2>13. \A d \in Callers : pc'[d] \notin {"swap", "again"}
    BY <1>1 DEF SerialAdd, Goto, NumInv, TypeOK
  <2>14. \A d \in Started' \ Ordinary' : num'[d] = Fid[d]
    BY <2>0, <2>6 DEF NumInv, Started, TypeOK
  <2> QED
    BY <2>7, <2>11, <2>12, <2>13, <2>14 DEF NumInv, CountedFrom
<1>2. ASSUME NEW c \in Callers, Serial(c), ~ SerialAdd(c), ~ SerialReserved(c) PROVE FALSE
  <2>2. ~ SerialSwap(c) /\ ~ SerialAgain(c)
    BY DEF SerialSwap, SerialAgain, Goto, NumInv
  <2>3. ASSUME SerialLow(c) PROVE FALSE
    <3>0. c \notin Drawn
      BY <2>3 DEF SerialLow, Goto, Started, Drawn
    <3>1. Cardinality(Drawn \cup {c}) = Cardinality(Drawn) + 1
      BY <3>0, <1>c, FS_AddElement
    <3>2. Cardinality(Drawn \cup {c}) <= Cardinality(Ordinary)
      BY <1>f, <2>3, FS_Subset DEF Drawn, Ordinary, SerialLow
    <3>3. reqnum + 1 < CounterMod
      BY <3>1, <3>2, <1>c, <1>f, <1>s, <1>n DEF CountedFrom
    <3>4. (reqnum + 1) % CounterMod = reqnum + 1
      <4>1. reqnum + 1 \in Nat /\ CounterMod > 0
        BY DEF TypeOK
      <4> QED
        BY <3>3, <4>1, ModSmall
    <3>5. reqnum + 1 < WatchInMax
      BY <2>3, <3>4 DEF SerialLow
    <3>6. reqnum >= s /\ s >= WatchInMax
      BY <1>c, <1>s, <1>n DEF CountedFrom
    <3> QED
      BY <3>5, <3>6, <1>n DEF TypeOK
  <2> QED
    BY <1>2, <2>2, <2>3 DEF Serial
<1>3. ASSUME NEW c \in Callers, ConnsCall(c) PROVE NumInv'
  <2>1. /\ UNCHANGED <<reqnum, num>> /\ Started' = Started
        /\ \A d \in Callers : pc'[d] \notin {"swap", "again"}
    BY <1>3 DEF ConnsCall, AllWrong, Write, WriteFails, Goto, Started, NumInv, TypeOK
  <2> QED
    BY <2>1, SameNumbers
<1>4. ASSUME NEW c \in Callers, NewChan(c) \/ TakeAnswer(c) \/ ContextDone(c) \/ DelChan(c)
      PROVE  NumInv'
  <2>1. /\ UNCHANGED <<reqnum, num>> /\ Started' = Started
        /\ \A d \in Callers : pc'[d] \notin {"swap", "again"}
    BY <1>4 DEF NewChan, TakeAnswer, ContextDone, DelChan, Goto, Started, NumInv, TypeOK
  <2> QED
    BY <2>1, SameNumbers
<1>5. ASSUME UNCHANGED <<reqnum, num, pc>> PROVE NumInv'
  BY <1>5, SameNumbers DEF Started, NumInv
<1>6. ASSUME NEW k \in Conns, Server(k) \/ ReadResp(k) \/ Environment(k)
      PROVE  UNCHANGED <<reqnum, num, pc>>
  BY <1>6 DEF Server, ServeIgnored, Serve, ServeAgain, ReadResp, ReadAnswer, ReadFailure,
       LookupFound, LookupMissed, SendBody, ReadError, Environment, LoseRequest, LoseAnswer,
       Break, TestConn, Refresh, Close, Sweep, callVars
<1>7. ASSUME UNCHANGED vars PROVE UNCHANGED <<reqnum, num, pc>>
  BY <1>7 DEF vars, callVars
<1> QED
  BY <1>0, <1>1, <1>2, <1>3, <1>4, <1>5, <1>6, <1>7 DEF Next, Caller, Finished

-----------------------------------------------------------------------------
(* Whose answer a call takes.                                               *)

\* An answer that is somewhere between the server and a call carries the number of the
\* call it was made for, or that of a ping.
Genuine(m) ==
  \/ m.owner \in Started /\ m.num = num[m.owner]
  \/ m.owner = Ping /\ m.num = PingNum

\* A call that has such an answer, under its own number.
Holds(c, m) == c \in Started /\ m.num = num[c] /\ Genuine(m)

\* Wherever a number stands for a call, it is that call's number: in the requests, in
\* the answers, in the tables, in a reader about to send, and in what a call has taken.
AnswerInv ==
  /\ \A k \in Conns : \A r \in req[k] : Genuine(r)
  /\ \A k \in Conns : \A m \in back[k] : Genuine(m)
  /\ \A k \in Conns : reader[k].at = "lookup" => Genuine(reader[k].msg)
  /\ \A k \in Conns : reader[k].at = "send" => Holds(reader[k].to, reader[k].msg)
  /\ \A k \in Conns, n \in Nums : rc[k][n] # None =>
       rc[k][n] \in Started /\ num[rc[k][n]] = n
  /\ \A c \in Callers : chan[c] # <<>> => Holds(c, Head(chan[c]))
  /\ \A c \in Callers : got[c] # None => Holds(c, got[c])

\* An answer with the number of an ordinary call, where that is no built-in id, was made
\* for that call: no other ordinary call has it, and pings and built-in calls have ids.
LEMMA PrivateOwn ==
  ASSUME TypeOK, NumInv, NEW c \in Callers, Private(c), NEW m, Holds(c, m)
  PROVE  m.owner = c
<1> USE CallsAssumption
<1>1. c \in Drawn /\ num[c] \in Nat /\ num[c] >= WatchInMax
  BY DEF Private, Holds, Drawn, TypeOK, Nums
<1>2. CASE m.owner = Ping /\ m.num = PingNum
  BY <1>1, <1>2 DEF Holds
<1>3. CASE m.owner \in Drawn /\ m.num = num[m.owner]
  BY <1>1, <1>3 DEF Holds, NumInv
<1>4. CASE m.owner \in Started \ Ordinary /\ m.num = num[m.owner]
  <2>1. num[m.owner] = Fid[m.owner] /\ Fid[m.owner] \in Nat /\ ~ (Fid[m.owner] >= WatchInMax)
    BY <1>4 DEF NumInv, Started, Ordinary
  <2> QED
    BY <1>1, <1>4, <2>1 DEF Holds
<1> QED
  BY <1>2, <1>3, <1>4 DEF Holds, Genuine, Drawn

\* A call keeps the number it has started with.
LEMMA NumbersStay ==
  TypeOK /\ [Next]_vars => \A c \in Started : c \in Started' /\ num'[c] = num[c]
<1> SUFFICES ASSUME TypeOK, [Next]_vars, NEW c \in Started
             PROVE  c \in Started' /\ num'[c] = num[c]
  OBVIOUS
<1>1. ASSUME NEW d \in Callers, Caller(d)
      PROVE  c \in Started' /\ num'[c] = num[c]
  <2>1. CASE Serial(d)
    BY <2>1 DEF Serial, SerialReserved, SerialAdd, SerialLow, SerialSwap,
         SerialAgain, Goto, Started, TypeOK
  <2>2. CASE ConnsCall(d)
    BY <2>2 DEF ConnsCall, AllWrong, Write, WriteFails, Goto, Started, TypeOK
  <2>3. CASE NewChan(d) \/ TakeAnswer(d) \/ ContextDone(d) \/ DelChan(d)
    BY <2>3 DEF NewChan, TakeAnswer, ContextDone, DelChan, Goto, Started, TypeOK
  <2> QED
    BY <1>1, <2>1, <2>2, <2>3 DEF Caller
<1>2. ASSUME NEW k \in Conns, Server(k) \/ ReadResp(k) \/ Environment(k)
      PROVE  UNCHANGED <<num, pc>>
  BY <1>2 DEF Server, ServeIgnored, Serve, ServeAgain, ReadResp, ReadAnswer, ReadFailure,
       LookupFound, LookupMissed, SendBody, ReadError, Environment, LoseRequest, LoseAnswer,
       Break, TestConn, Refresh, Close, Sweep, callVars
<1>3. ASSUME UNCHANGED vars PROVE UNCHANGED <<num, pc>>
  BY <1>3 DEF vars, callVars
<1>4. ASSUME UNCHANGED <<num, pc>> PROVE c \in Started' /\ num'[c] = num[c]
  BY <1>4 DEF Started
<1> QED
  BY <1>1, <1>2, <1>3, <1>4 DEF Next, Finished

\* What a step leaves behind may be judged by the numbers before the step.
LEMMA Carry ==
  ASSUME \A c \in Started : c \in Started' /\ num'[c] = num[c],
         \A k \in Conns : \A r \in req'[k] : Genuine(r),
         \A k \in Conns : \A m \in back'[k] : Genuine(m),
         \A k \in Conns : reader'[k].at = "lookup" => Genuine(reader'[k].msg),
         \A k \in Conns : reader'[k].at = "send" => Holds(reader'[k].to, reader'[k].msg),
         \A k \in Conns, n \in Nums : rc'[k][n] # None =>
           rc'[k][n] \in Started /\ num[rc'[k][n]] = n,
         \A c \in Callers : chan'[c] # <<>> => Holds(c, Head(chan'[c])),
         \A c \in Callers : got'[c] # None => Holds(c, got'[c])
  PROVE  AnswerInv'
<1>1. \A m : Genuine(m) => \/ m.owner \in Started' /\ m.num = num'[m.owner]
                           \/ m.owner = Ping /\ m.num = PingNum
  BY DEF Genuine
<1>2. \A c, m : Holds(c, m) => /\ c \in Started' /\ m.num = num'[c]
                               /\ \/ m.owner \in Started' /\ m.num = num'[m.owner]
                                  \/ m.owner = Ping /\ m.num = PingNum
  BY <1>1 DEF Holds
<1>3. \A k \in Conns : \A r \in req'[k] : Genuine(r)'
  BY <1>1 DEF Genuine
<1>4. \A k \in Conns : \A m \in back'[k] : Genuine(m)'
  BY <1>1 DEF Genuine
<1>5. \A k \in Conns : reader'[k].at = "lookup" => Genuine(reader[k].msg)'
  BY <1>1 DEF Genuine
<1>6. \A k \in Conns : reader'[k].at = "send" => Holds(reader[k].to, reader[k].msg)'
  BY <1>2 DEF Holds, Genuine
<1>7. \A k \in Conns, n \in Nums : rc'[k][n] # None =>
         rc'[k][n] \in Started' /\ num'[rc'[k][n]] = n
  OBVIOUS
<1>8. \A c \in Callers : chan'[c] # <<>> => Holds(c, Head(chan[c]))'
  BY <1>2 DEF Holds, Genuine
<1>9. \A c \in Callers : got'[c] # None => Holds(c, got[c])'
  BY <1>2 DEF Holds, Genuine
<1> QED
  BY <1>3, <1>4, <1>5, <1>6, <1>7, <1>8, <1>9 DEF AnswerInv

\* A step that leaves the network, the readers, the tables, the channels and the
\* outcomes alone keeps AnswerInv, if the calls under way keep their numbers.
LEMMA SameAnswers ==
  ASSUME AnswerInv,
         UNCHANGED <<connVars, netVars, chan, got>>,
         \A c \in Started : c \in Started' /\ num'[c] = num[c]
  PROVE  AnswerInv'
<1>1. UNCHANGED <<rc, reader, req, back, chan, got>>
  BY DEF connVars, netVars
<1> QED
  BY <1>1, Carry DEF AnswerInv

\* No step hands a call an answer without its number, or an answer of another number than
\* the call's it was made for.
LEMMA AnswerStep == TypeOK /\ AnswerInv /\ [Next]_vars => AnswerInv'
<1> SUFFICES ASSUME TypeOK, AnswerInv, [Next]_vars PROVE AnswerInv'
  OBVIOUS
<1> USE CallsAssumption
<1>k. \A c \in Started : c \in Started' /\ num'[c] = num[c]
  BY NumbersStay
<1>1. ASSUME NEW c \in Callers, Serial(c) PROVE AnswerInv'
  <2>1. UNCHANGED <<connVars, netVars, chan, got>>
    BY <1>1 DEF Serial, SerialReserved, SerialAdd, SerialLow, SerialSwap, SerialAgain
  <2> QED
    BY <2>1, <1>k, SameAnswers
<1>2. ASSUME NEW c \in Callers, ConnsCall(c) PROVE AnswerInv'
  <2>1. CASE AllWrong(c) \/ \E k \in Conns : WriteFails(c, k)
    <3>1. UNCHANGED <<connVars, netVars, chan, got>>
      BY <2>1 DEF AllWrong, WriteFails
    <3> QED
      BY <3>1, <1>k, SameAnswers
  <2>2. ASSUME NEW k \in Conns, Write(c, k) PROVE AnswerInv'
    <3>1. c \in Started
      BY <2>2 DEF Write, Goto, Started
    <3>2. \A j \in Conns : \A r \in req'[j] :
            r \in req[j] \/ r = [owner |-> c, num |-> num[c], copy |-> 1]
      BY <2>2 DEF Write, TypeOK
    <3>3. \A j \in Conns : \A r \in req'[j] : Genuine(r)
      BY <3>1, <3>2 DEF Genuine, AnswerInv
    <3>4. UNCHANGED <<connVars, back, chan, got>>
      BY <2>2 DEF Write
    <3> QED
      BY <3>3, <3>4, <1>k, Carry DEF AnswerInv, connVars, TypeOK
  <2> QED
    BY <1>2, <2>1, <2>2 DEF ConnsCall
<1>3. ASSUME NEW c \in Callers, NewChan(c) PROVE AnswerInv'
  <2>1. c \in Started /\ num[c] \in Nums
    BY <1>3 DEF NewChan, Goto, Started, TypeOK
  <2>2. \A k \in Conns, n \in Nums :
          rc'[k][n] = rc[k][n] \/ (rc'[k][n] = c /\ n = num[c])
    BY <1>3, <2>1 DEF NewChan, TypeOK
  <2>3. \A k \in Conns, n \in Nums : rc'[k][n] # None =>
          rc'[k][n] \in Started /\ num[rc'[k][n]] = n
    <3>1. \A k \in Conns, n \in Nums : rc[k][n] # None =>
            rc[k][n] \in Started /\ num[rc[k][n]] = n
      BY DEF AnswerInv
    <3> QED
      BY <2>1, <2>2, <3>1
  <2>4. UNCHANGED <<netVars, reader, chan, got>>
    BY <1>3 DEF NewChan
  <2> QED
    BY <2>3, <2>4, <1>k, Carry DEF AnswerInv, netVars, TypeOK
<1>4. ASSUME NEW c \in Callers, TakeAnswer(c) PROVE AnswerInv'
  <2>1. \A d \in Callers : got'[d] # None => Holds(d, got'[d])
    <3>1. Holds(c, Head(chan[c]))
      BY <1>4 DEF TakeAnswer, AnswerInv
    <3>2. \A d \in Callers : got'[d] = got[d] \/ (d = c /\ got'[d] = Head(chan[c]))
      BY <1>4 DEF TakeAnswer, TypeOK
    <3> QED
      BY <3>1, <3>2 DEF AnswerInv
  <2>2. chan'[c] = <<>>
    BY <1>4 DEF TakeAnswer, TypeOK
  <2>3. \A d \in Callers : d # c => chan'[d] = chan[d]
    BY <1>4 DEF TakeAnswer, TypeOK
  <2>4. \A d \in Callers : chan'[d] # <<>> => Holds(d, Head(chan'[d]))
    BY <2>2, <2>3 DEF AnswerInv
  <2>5. UNCHANGED <<rc, reader, req, back>>
    BY <1>4 DEF TakeAnswer, connVars, netVars
  <2> QED
    BY <2>1, <2>4, <2>5, <1>k, Carry DEF AnswerInv
<1>5. ASSUME NEW c \in Callers, ContextDone(c) PROVE AnswerInv'
  <2>1. UNCHANGED <<connVars, netVars, chan, got>>
    BY <1>5 DEF ContextDone
  <2> QED
    BY <2>1, <1>k, SameAnswers
<1>6. ASSUME NEW c \in Callers, DelChan(c) PROVE AnswerInv'
  <2>1. \A k \in Conns, n \in Nums : rc'[k][n] = rc[k][n] \/ rc'[k][n] = None
    BY <1>6 DEF DelChan, TypeOK
  <2>2. UNCHANGED <<netVars, reader, chan, got>>
    BY <1>6 DEF DelChan
  <2> QED
    BY <2>1, <2>2, <1>k, Carry DEF AnswerInv, netVars, TypeOK
<1>7. ASSUME NEW k \in Conns, Server(k) PROVE AnswerInv'
  <2>1. ASSUME NEW r \in req[k], ServeIgnored(k, r) PROVE AnswerInv'
    <3>1. \A j \in Conns : req'[j] \subseteq req[j]
      BY <2>1 DEF ServeIgnored, TypeOK
    <3>2. UNCHANGED <<rc, reader, back, chan, got>>
      BY <2>1 DEF ServeIgnored, callVars, connVars
    <3> QED
      BY <3>1, <3>2, <1>k, Carry DEF AnswerInv
  <2>2. ASSUME NEW r \in req[k], NEW a \in Answers, Serve(k, r, a) \/ ServeAgain(k, r, a)
        PROVE  AnswerInv'
    <3>0. Genuine(r)
      BY DEF AnswerInv
    <3>1. \A j \in Conns : \A s \in req'[j] :
            s \in req[j] \/ (s.owner = r.owner /\ s.num = r.num)
      <4>1. Another(r).owner = r.owner /\ Another(r).num = r.num
        <5>1. r \in Request
          BY DEF TypeOK
        <5> QED
          BY <5>1 DEF Another, Request
      <4>2. \A j \in Conns : \A s \in req'[j] : s \in req[j] \/ s = Another(r)
        <5>1. CASE Serve(k, r, a)
          BY <5>1 DEF Serve, TypeOK
        <5>2. CASE ServeAgain(k, r, a)
          BY <5>2 DEF ServeAgain, TypeOK
        <5> QED
          BY <2>2, <5>1, <5>2
      <4> QED
        BY <4>1, <4>2
    <3>2. \A j \in Conns : \A m \in back'[j] :
            m \in back[j] \/ (m.owner = r.owner /\ m.num = r.num)
      <4>1. Answered(k, r, a)
        BY <2>2 DEF Serve, ServeAgain
      <4> QED
        BY <4>1 DEF Answered, TypeOK
    <3>3. \A j \in Conns : (\A s \in req'[j] : Genuine(s)) /\ (\A m \in back'[j] : Genuine(m))
      BY <3>0, <3>1, <3>2 DEF Genuine, AnswerInv
    <3>4. UNCHANGED <<rc, reader, chan, got>>
      BY <2>2 DEF Serve, ServeAgain, callVars, connVars
    <3> QED
      BY <3>3, <3>4, <1>k, Carry DEF AnswerInv
  <2> QED
    BY <1>7, <2>1, <2>2 DEF Server
<1>8. ASSUME NEW k \in Conns, ReadResp(k) PROVE AnswerInv'
  <2>1. ASSUME NEW m \in back[k], ReadAnswer(k, m) PROVE AnswerInv'
    <3>1. Genuine(m)
      BY DEF AnswerInv
    <3>2. \A j \in Conns : back'[j] \subseteq back[j]
      BY <2>1 DEF ReadAnswer, TypeOK
    <3>3. \A j \in Conns : reader'[j] = reader[j] \/ (reader'[j].at = "lookup" /\ reader'[j].msg = m)
      BY <2>1 DEF ReadAnswer, TypeOK
    <3>4. \A j \in Conns :
            /\ reader'[j].at = "lookup" => Genuine(reader'[j].msg)
            /\ reader'[j].at = "send" => reader'[j] = reader[j]
      BY <3>1, <3>3 DEF AnswerInv
    <3>5. UNCHANGED <<callVars, rc, link, req>>
      BY <2>1 DEF ReadAnswer
    <3> QED
      BY <3>2, <3>4, <3>5, <1>k, Carry DEF AnswerInv, callVars, TypeOK
  <2>2. ASSUME NEW m \in back[k], ReadFailure(k, m) PROVE AnswerInv'
    <3>1. \A j \in Conns : back'[j] \subseteq back[j]
      BY <2>2 DEF ReadFailure, TypeOK
    <3>2. UNCHANGED <<callVars, connVars, req>>
      BY <2>2 DEF ReadFailure
    <3> QED
      BY <3>1, <3>2, <1>k, Carry DEF AnswerInv, callVars, connVars, TypeOK
  <2>3. CASE LookupFound(k)
    <3>1. /\ Genuine(reader[k].msg) /\ reader[k].msg.num \in Nums
          /\ rc[k][reader[k].msg.num] # None
      BY <2>3 DEF LookupFound, AnswerInv, TypeOK, Reader, Message
    <3>2. Holds(rc[k][reader[k].msg.num], reader[k].msg)
      BY <3>1 DEF AnswerInv, Holds
    <3>3. reader' = [reader EXCEPT ![k] =
            [at |-> "send", msg |-> reader[k].msg, to |-> rc[k][reader[k].msg.num]]]
      BY <2>3 DEF LookupFound
    <3>4. \A j \in Conns :
            /\ reader'[j].at = "lookup" => Genuine(reader'[j].msg)
            /\ reader'[j].at = "send" => Holds(reader'[j].to, reader'[j].msg)
      BY <3>2, <3>3 DEF AnswerInv, TypeOK
    <3>5. UNCHANGED <<callVars, rc, netVars>>
      BY <2>3 DEF LookupFound
    <3> QED
      BY <3>4, <3>5, <1>k, Carry DEF AnswerInv, callVars, netVars
  <2>4. CASE LookupMissed(k) \/ ReadError(k)
    <3>1. \A j \in Conns : reader'[j] = reader[j] \/ reader'[j].at \in {"read", "exited"}
      BY <2>4 DEF LookupMissed, ReadError, Reading, Exited, TypeOK
    <3>2. UNCHANGED <<rc, req, back, chan, got>>
      BY <2>4 DEF LookupMissed, ReadError, callVars, netVars
    <3> QED
      BY <3>1, <3>2, <1>k, Carry DEF AnswerInv
  <2>5. CASE SendBody(k)
    <3>1. Holds(reader[k].to, reader[k].msg)
      BY <2>5 DEF SendBody, AnswerInv
    <3>2. \A c \in Callers : chan'[c] = chan[c]
                             \/ (chan'[c] = <<reader[k].msg>> /\ c = reader[k].to)
      BY <2>5 DEF SendBody, TypeOK
    <3>3. Head(<<reader[k].msg>>) = reader[k].msg
      OBVIOUS
    <3>4. \A c \in Callers : chan'[c] # <<>> => Holds(c, Head(chan'[c]))
      BY <3>1, <3>2, <3>3 DEF AnswerInv
    <3>5. \A j \in Conns : reader'[j] = reader[j] \/ reader'[j].at = "read"
      BY <2>5 DEF SendBody, Reading, TypeOK
    <3>6. UNCHANGED <<rc, req, back, got>>
      BY <2>5 DEF SendBody, netVars
    <3> QED
      BY <3>4, <3>5, <3>6, <1>k, Carry DEF AnswerInv
  <2> QED
    BY <1>8, <2>1, <2>2, <2>3, <2>4, <2>5 DEF ReadResp
<1>9. ASSUME NEW k \in Conns, Environment(k) PROVE AnswerInv'
  <2>1. ASSUME NEW r \in req[k], LoseRequest(k, r) PROVE AnswerInv'
    <3>1. \A j \in Conns : req'[j] \subseteq req[j]
      BY <2>1 DEF LoseRequest, TypeOK
    <3>2. UNCHANGED <<rc, reader, back, chan, got>>
      BY <2>1 DEF LoseRequest, callVars, connVars
    <3> QED
      BY <3>1, <3>2, <1>k, Carry DEF AnswerInv
  <2>2. ASSUME NEW m \in back[k], LoseAnswer(k, m) PROVE AnswerInv'
    <3>1. \A j \in Conns : back'[j] \subseteq back[j]
      BY <2>2 DEF LoseAnswer, TypeOK
    <3>2. UNCHANGED <<rc, reader, req, chan, got>>
      BY <2>2 DEF LoseAnswer, callVars, connVars
    <3> QED
      BY <3>1, <3>2, <1>k, Carry DEF AnswerInv
  <2>d. ASSUME Drop(k)
        PROVE  \A j \in Conns :
                 /\ req'[j] \subseteq req[j] /\ back'[j] \subseteq back[j]
                 /\ reader'[j] = reader[j] \/ reader'[j].at = "exited"
    BY <2>d DEF Drop, Exited, TypeOK
  <2>3. CASE Break(k)
    <3>1. Drop(k) /\ UNCHANGED <<rc, chan, got>>
      BY <2>3 DEF Break, callVars
    <3> QED
      BY <3>1, <2>d, <1>k, Carry DEF AnswerInv
  <2>6. CASE Close(k)
    <3>1. Drop(k) /\ UNCHANGED <<chan, got>>
      BY <2>6 DEF Close, Closed, callVars
    <3>2. \A j \in Conns, n \in Nums : rc'[j][n] = rc[j][n] \/ rc'[j][n] = None
      BY <2>6 DEF Close, Closed, EmptyTable, TypeOK
    <3>3. \A j \in Conns, n \in Nums : rc'[j][n] # None =>
            rc'[j][n] \in Started /\ num[rc'[j][n]] = n
      BY <3>2 DEF AnswerInv
    <3>4. \A j \in Conns : /\ \A r \in req'[j] : Genuine(r)
                          /\ \A m \in back'[j] : Genuine(m)
      BY <3>1, <2>d DEF AnswerInv
    <3>5. \A j \in Conns :
            /\ reader'[j].at = "lookup" => Genuine(reader'[j].msg)
            /\ reader'[j].at = "send" => Holds(reader'[j].to, reader'[j].msg)
      BY <3>1, <2>d DEF AnswerInv
    <3> QED
      BY <3>1, <3>3, <3>4, <3>5, <1>k, Carry DEF AnswerInv
  <2>p. ASSUME Tested(k)
        PROVE  \A j \in Conns : \A m \in back'[j] : m \in back[j] \/ Genuine(m)
    <3>1. \A j \in Conns : \A m \in back'[j] : m \in back[j] \/ m = Pong
      BY <2>p DEF Tested, TypeOK
    <3>2. Genuine(Pong)
      BY DEF Genuine, Pong
    <3> QED
      BY <3>1, <3>2
  <2>4. CASE TestConn(k)
    <3>1. Tested(k) /\ UNCHANGED <<rc, reader, req, chan, got>>
      BY <2>4 DEF TestConn, callVars
    <3> QED
      BY <3>1, <2>p, <1>k, Carry DEF AnswerInv
  <2>7. CASE Refresh(k)
    <3>1. Tested(k) /\ UNCHANGED <<rc, req, chan, got>>
      BY <2>7 DEF Refresh, callVars
    <3>2. \A j \in Conns : reader'[j] = reader[j] \/ reader'[j].at = "read"
      BY <2>7 DEF Refresh, Reading, TypeOK
    <3> QED
      BY <3>1, <3>2, <2>p, <1>k, Carry DEF AnswerInv
  <2>5. ASSUME NEW n \in Nums, Sweep(k, n) PROVE AnswerInv'
    <3>1. \A j \in Conns, i \in Nums : rc'[j][i] = rc[j][i] \/ rc'[j][i] = None
      BY <2>5 DEF Sweep, TypeOK
    <3>2. UNCHANGED <<reader, req, back, chan, got>>
      BY <2>5 DEF Sweep, callVars, netVars
    <3> QED
      BY <3>1, <3>2, <1>k, Carry DEF AnswerInv
  <2> QED
    BY <1>9, <2>1, <2>2, <2>3, <2>4, <2>5, <2>6, <2>7 DEF Environment
<1>10. CASE UNCHANGED vars
  <2>1. UNCHANGED <<connVars, netVars, chan, got>>
    BY <1>10 DEF vars, callVars
  <2> QED
    BY <2>1, <1>k, SameAnswers
<1> QED
  BY <1>1, <1>2, <1>3, <1>4, <1>5, <1>6, <1>7, <1>8, <1>9, <1>10
    DEF Next, Caller, Finished

\* At the start no call has a number and nothing is under way.
LEMMA InitInv == Init => NumInv /\ AnswerInv
<1> SUFFICES ASSUME Init PROVE NumInv /\ AnswerInv
  OBVIOUS
<1> USE CallsAssumption
<1>1. Started = {} /\ Drawn = {}
  BY DEF Init, Started, Drawn
<1>2. NumInv
  BY <1>1, FS_EmptySet, CallsAssumption DEF Init, NumInv, CountedFrom
<1>3. AnswerInv
  BY DEF Init, AnswerInv, OwnAnswer, Reading, EmptyTable, Nums
<1> QED
  BY <1>2, <1>3

\* serial: once the counter has left the built-in ids behind, no two ordinary calls under
\* way have the same number, until the counter wraps.
THEOREM Uniqueness == ASSUME Warm PROVE Spec => []UniqueNumbers
<1>1. NumInv => UniqueNumbers
  BY DEF NumInv, UniqueNumbers, Pending, Started, Drawn
<1> QED
  BY <1>1, Typing, InitInv, NumStep, Warm, PTL DEF Spec

\* WaitRsp and the readers: then a call returns with an answer of its number, and with no
\* other's where that is no built-in id, whatever the network and the connections do.
THEOREM OwnAnswers == ASSUME Warm PROVE Spec => []OwnAnswer
<1>1. TypeOK /\ NumInv /\ AnswerInv => OwnAnswer
  <2> SUFFICES ASSUME TypeOK, NumInv, AnswerInv, NEW c \in Callers, got[c] # None
               PROVE  got[c].num = num[c] /\ (Private(c) => got[c].owner = c)
    BY DEF OwnAnswer
  <2>1. Holds(c, got[c])
    BY DEF AnswerInv
  <2> QED
    BY <2>1, PrivateOwn DEF Holds
<1> QED
  BY <1>1, Typing, InitInv, NumStep, AnswerStep, Warm, PTL DEF Spec

-----------------------------------------------------------------------------
(* The table of a connection.                                               *)

\* A call that has written its request knows the connection it wrote it on; the entries
\* of a table belong to waiting calls; and a waiting call has its own.
Written == {c \in Callers : pc[c] \in {"newchan", "wait", "delchan"}}
Entered == \A k \in Conns, n \in Nums :
  rc[k][n] # None => rc[k][n] \in Waiting /\ via[rc[k][n]] = k /\ num[rc[k][n]] = n
Listed  == \A c \in Waiting \ cut : Private(c) => rc[via[c]][num[c]] = c
TableInv == (\A c \in Written : via[c] \in Conns) /\ Entered /\ Listed

\* A step that leaves the table and the waiting calls alone keeps the tables exact.
LEMMA SameTable ==
  ASSUME TableInv, UNCHANGED <<rc, via, cut>>, Waiting' = Waiting, Written' \subseteq Written,
         \A c \in Waiting : num'[c] = num[c]
  PROVE  TableInv'
<1>1. Written' \subseteq Written /\ \A c \in Waiting : c \in Callers
  BY DEF Waiting
<1>2. \A c \in Waiting : Private(c)' = Private(c)
  BY <1>1 DEF Private, Ordinary
<1>3. Entered'
  BY DEF TableInv, Entered
<1>4. Listed'
  BY <1>1, <1>2 DEF TableInv, Listed
<1> QED
  BY <1>1, <1>3, <1>4 DEF TableInv

\* A step that takes entries of a connection, and notes whose, keeps the tables exact.
LEMMA TakenEntries ==
  ASSUME TypeOK, TableInv, NEW k \in Conns, NEW N \in SUBSET Nums, UNCHANGED callVars,
         \A j \in Conns, n \in Nums :
           rc'[j][n] = IF j = k /\ n \in N THEN None ELSE rc[j][n],
         \A n \in N : rc[k][n] # None => rc[k][n] \in cut',
         cut \subseteq cut'
  PROVE  TableInv'
<1>1. UNCHANGED <<pc, num, via>> /\ Waiting' = Waiting /\ Written' = Written
  BY DEF callVars, Waiting, Written
<1>2. Entered'
  BY <1>1 DEF TableInv, Entered
<1>3. \A c \in Waiting : c \in Written /\ num[c] \in Nums
  BY DEF Waiting, Written, TypeOK
<1>4. Listed'
  <2> SUFFICES ASSUME NEW c \in Waiting, c \notin cut', Private(c)
               PROVE  rc'[via[c]][num[c]] = c
    BY <1>1 DEF Listed, Private, Ordinary
  <2>1. c \in Callers /\ via[c] \in Conns /\ num[c] \in Nums /\ rc[via[c]][num[c]] = c
    BY <1>3 DEF Waiting, TableInv, Listed
  <2>2. ~ (via[c] = k /\ num[c] \in N)
    BY <2>1, CallsAssumption
  <2> QED
    BY <2>1, <2>2
<1> QED
  BY <1>1, <1>2, <1>4 DEF TableInv

\* A number that is no built-in id belongs to one waiting call.
LEMMA OnePrivate ==
  ASSUME TypeOK, NumInv, NEW c \in Started, NEW d \in Started, Private(c), num[c] = num[d]
  PROVE  c = d
<1> USE CallsAssumption
<1>1. c \in Drawn
  BY DEF Drawn, Private
<1>2. CASE d \in Ordinary
  BY <1>1, <1>2 DEF Drawn, NumInv
<1>3. CASE d \notin Ordinary
  <2>1. num[d] = Fid[d] /\ Fid[d] \in Nat /\ ~ (Fid[d] >= WatchInMax)
    BY <1>3 DEF NumInv, Started, Ordinary
  <2> QED
    BY <2>1 DEF Private
<1> QED
  BY <1>2, <1>3

\* NewChan and DelChan change the one entry of their own number: no other waiting call
\* has it, unless it is a built-in id.
LEMMA TableStep == TypeOK /\ NumInv /\ TableInv /\ [Next]_vars => TableInv'
<1> SUFFICES ASSUME TypeOK, NumInv, TableInv, [Next]_vars PROVE TableInv'
  OBVIOUS
<1> USE CallsAssumption
<1>w. Waiting \subseteq Started /\ Waiting \subseteq Written
  BY DEF Waiting, Started, Written
<1>k. \A c \in Waiting : num'[c] = num[c]
  BY <1>w, NumbersStay
<1>1. ASSUME NEW c \in Callers, Serial(c) PROVE TableInv'
  <2>1. UNCHANGED <<rc, via, cut>>
    BY <1>1 DEF Serial, SerialReserved, SerialAdd, SerialLow, SerialSwap, SerialAgain,
         connVars
  <2>2. Waiting' = Waiting /\ Written' \subseteq Written
    BY <1>1 DEF Serial, SerialReserved, SerialAdd, SerialLow, SerialSwap, SerialAgain,
         Goto, Waiting, Written, TypeOK
  <2> QED
    BY <2>1, <2>2, <1>k, SameTable
<1>2. ASSUME NEW c \in Callers, ConnsCall(c) PROVE TableInv'
  <2>1. CASE AllWrong(c) \/ \E k \in Conns : WriteFails(c, k)
    <3>1. UNCHANGED <<rc, via, cut>>
      BY <2>1 DEF AllWrong, WriteFails, connVars
    <3>2. Waiting' = Waiting /\ Written' \subseteq Written
      BY <2>1 DEF AllWrong, WriteFails, Goto, Waiting, Written, TypeOK
    <3> QED
      BY <3>1, <3>2, <1>k, SameTable
  <2>2. ASSUME NEW k \in Conns, Write(c, k) PROVE TableInv'
    <3>1. UNCHANGED <<rc, cut, num>> /\ via'[c] = k /\ pc[c] = "write" /\ pc'[c] = "newchan"
          /\ \A d \in Callers : d # c => via'[d] = via[d] /\ pc'[d] = pc[d]
      BY <2>2 DEF Write, Goto, connVars, TypeOK
    <3>2. Waiting' = Waiting /\ c \notin Waiting /\ Waiting \subseteq Callers
      BY <3>1 DEF Waiting
    <3>3. \A d \in Written' : via'[d] \in Conns
      BY <3>1 DEF TableInv, Written
    <3>4. Entered'
      BY <3>1, <3>2 DEF TableInv, Entered
    <3>5. Listed'
      BY <3>1, <3>2 DEF TableInv, Listed, Private, Ordinary
    <3> QED
      BY <3>3, <3>4, <3>5 DEF TableInv
  <2> QED
    BY <1>2, <2>1, <2>2 DEF ConnsCall
<1>3. ASSUME NEW c \in Callers, NewChan(c) PROVE TableInv'
  <2>1. /\ via[c] \in Conns /\ num[c] \in Nums /\ c \in Started /\ c \notin Waiting
        /\ Waiting' = Waiting \cup {c} /\ UNCHANGED <<via, num, cut>> /\ Written' = Written
    BY <1>3 DEF NewChan, Goto, Waiting, Started, Written, TableInv, TypeOK
  <2>2. \A k \in Conns, n \in Nums :
          rc'[k][n] = IF k = via[c] /\ n = num[c] THEN c ELSE rc[k][n]
    BY <1>3, <2>1 DEF NewChan, TypeOK
  <2>3. \A d \in Waiting : d \in Callers /\ via[d] \in Conns /\ num[d] \in Nums
    BY <1>w DEF Waiting, TableInv, TypeOK
  <2>4. Entered'
    BY <2>1, <2>2 DEF TableInv, Entered
  <2>5. \A d \in Waiting : Private(d) => num[d] # num[c]
    BY <2>1, <1>w, OnePrivate
  <2>6. Listed'
    BY <2>1, <2>2, <2>3, <2>5 DEF TableInv, Listed, Private, Ordinary
  <2> QED
    BY <2>1, <2>4, <2>6 DEF TableInv
<1>4. ASSUME NEW c \in Callers, TakeAnswer(c) \/ ContextDone(c) PROVE TableInv'
  <2>1. UNCHANGED <<rc, via, cut>>
    BY <1>4 DEF TakeAnswer, ContextDone, connVars
  <2>2. Waiting' = Waiting /\ Written' \subseteq Written
    BY <1>4 DEF TakeAnswer, ContextDone, Goto, Waiting, Written, TypeOK
  <2> QED
    BY <2>1, <2>2, <1>k, SameTable
<1>5. ASSUME NEW c \in Callers, DelChan(c) PROVE TableInv'
  <2>1. /\ via[c] \in Conns /\ num[c] \in Nums /\ c \in Waiting /\ cut' = cut \ {c}
        /\ Waiting' = Waiting \ {c} /\ UNCHANGED <<via, num>> /\ Written' \subseteq Written
    BY <1>5 DEF DelChan, Goto, Waiting, Written, TableInv, TypeOK
  <2>2. \A k \in Conns, n \in Nums :
          rc'[k][n] = IF k = via[c] /\ n = num[c] THEN None ELSE rc[k][n]
    BY <1>5, <2>1 DEF DelChan, TypeOK
  <2>3. \A d \in Waiting : d \in Callers /\ via[d] \in Conns /\ num[d] \in Nums
    BY <1>w DEF Waiting, TableInv, TypeOK
  <2>4. Entered'
    BY <2>1, <2>2 DEF TableInv, Entered
  <2>5. \A d \in Waiting \ {c} : Private(d) => num[d] # num[c]
    BY <2>1, <1>w, OnePrivate
  <2>6. Listed'
    BY <2>1, <2>2, <2>3, <2>5 DEF TableInv, Listed, Private, Ordinary
  <2> QED
    BY <2>1, <2>4, <2>6 DEF TableInv
<1>6. ASSUME UNCHANGED <<pc, num, via, rc, cut>> PROVE TableInv'
  BY <1>6, SameTable DEF Waiting, Written
<1>7. ASSUME NEW k \in Conns, Server(k) \/ ReadResp(k) PROVE TableInv'
  <2>1. UNCHANGED <<pc, num, via, rc, cut>>
    BY <1>7 DEF Server, ServeIgnored, Serve, ServeAgain, ReadResp, ReadAnswer, ReadFailure,
         LookupFound, LookupMissed, SendBody, ReadError, callVars, connVars
  <2> QED
    BY <2>1, <1>6
<1>8. ASSUME NEW k \in Conns, Environment(k) PROVE TableInv'
  <2>1. CASE Close(k)
    <3>1. UNCHANGED callVars
          /\ \A j \in Conns, n \in Nums :
               rc'[j][n] = IF j = k /\ n \in Nums THEN None ELSE rc[j][n]
      BY <2>1 DEF Close, Closed, EmptyTable, TypeOK
    <3>2. cut \subseteq cut' /\ \A n \in Nums : rc[k][n] # None => rc[k][n] \in cut'
      BY <2>1 DEF Close, Closed
    <3> QED
      BY <3>1, <3>2, TakenEntries
  <2>2. ASSUME NEW n \in Nums, Sweep(k, n) PROVE TableInv'
    <3>1. UNCHANGED callVars
          /\ \A j \in Conns, i \in Nums :
               rc'[j][i] = IF j = k /\ i \in {n} THEN None ELSE rc[j][i]
      BY <2>2 DEF Sweep, TypeOK
    <3>2. cut \subseteq cut' /\ \A i \in {n} : rc[k][i] \in cut'
      BY <2>2 DEF Sweep
    <3> QED
      BY <3>1, <3>2, TakenEntries
  <2>3. ASSUME ~ Close(k), ~ \E n \in Nums : Sweep(k, n)
        PROVE  UNCHANGED <<pc, num, via, rc, cut>>
    BY <1>8, <2>3 DEF Environment, LoseRequest, LoseAnswer, Break, TestConn, Refresh,
         callVars, connVars
  <2> QED
    BY <2>1, <2>2, <2>3, <1>6
<1>9. CASE UNCHANGED vars
  BY <1>9, <1>6 DEF vars, callVars, connVars
<1> QED
  BY <1>1, <1>2, <1>3, <1>4, <1>5, <1>7, <1>8, <1>9 DEF Next, Caller, Finished

\* At the start nobody waits and every table is empty.
LEMMA InitTable == Init => TableInv
BY CallsAssumption DEF Init, TableInv, Entered, Listed, Written, Waiting, EmptyTable, Nums

\* NewChan and DelChan: then no entry outlives its call, and a waiting call whose number
\* is no built-in id has its entry, on a connection dialled again too, unless Close or the
\* job of TimerCheck took it.
THEOREM ExactTable == ASSUME Warm PROVE Spec => []TableExact
<1>1. TableInv => TableExact
  BY DEF TableInv, Entered, Listed, TableExact
<1> QED
  BY <1>1, Typing, InitInv, InitTable, NumStep, TableStep, Warm, PTL DEF Spec

-----------------------------------------------------------------------------
(* What a reader can find in the channel it sends on.                       *)

\* The answer a reader holds, and the one in a channel, if there is one.
InHands(k) == IF reader[k].at \in {"lookup", "send"} THEN {reader[k].msg} ELSE {}
InChan(c)  == IF chan[c] = <<>> THEN {} ELSE {Head(chan[c])}

\* The call's request has not been written.
Unwritten == {"idle", "swap", "again", "write"}

\* Call c has written its request on k, whose server may be handed it n times.
Born(c, n, k) == pc[c] \notin Unwritten /\ via[c] = k /\ n <= Handovers[c][k]

\* One answer of one call, made when the server was handed its request that time.
Same(m, l) == m.owner \in Callers /\ l.owner = m.owner /\ l.copy = m.copy

\* Requests and answers are those of a call that has written, on its connection ...
BornInv ==
  /\ \A k \in Conns : \A m \in req[k] \cup back[k] \cup InHands(k) :
       m.owner \in Callers => Born(m.owner, m.copy, k)
  /\ \A c \in Callers : \A m \in InChan(c) :
       m.owner \in Callers => Born(m.owner, m.copy, via[m.owner])
\* ... a request still to be handed over is newer than every answer, and there is one ...
NewestInv ==
  \A k \in Conns : \A r \in req[k] :
    /\ \A m \in back[k] \cup InHands(k) : m.owner = r.owner => m.copy < r.copy
    /\ \A c \in Callers : \A m \in InChan(c) : m.owner = r.owner => m.copy < r.copy
    /\ \A s \in req[k] : s.owner = r.owner => s = r
\* ... and no answer is in two places.
ApartInv ==
  /\ \A k \in Conns : \A m, l \in back[k] : Same(m, l) => m = l
  /\ \A k \in Conns : \A m \in back[k], l \in InHands(k) : ~ Same(m, l)
  /\ \A k \in Conns, c \in Callers : \A m \in back[k] \cup InHands(k), l \in InChan(c) :
       ~ Same(m, l)
OnceInv == BornInv /\ NewestInv /\ ApartInv

\* A step that adds no request and no answer of a call, but perhaps a ping's.
LEMMA FewerAnswers ==
  ASSUME TypeOK, OnceInv,
         \A c \in Callers : pc[c] \notin Unwritten => pc'[c] \notin Unwritten /\ via'[c] = via[c],
         \A k \in Conns : req'[k] \subseteq req[k],
         \A k \in Conns : \A m \in back'[k] : m.owner \in Callers => m \in back[k],
         \A k \in Conns : InHands(k)' \subseteq InHands(k),
         \A c \in Callers : InChan(c)' \subseteq InChan(c)
  PROVE  OnceInv'
<1>1. \A k \in Conns : \A r \in req[k] : r.owner \in Callers
  BY DEF TypeOK, Request
<1>2. \A c \in Callers : \A n, k : Born(c, n, k) => Born(c, n, k)'
  BY DEF Born
<1>3. \A c \in Callers : \A n : Born(c, n, via[c]) => Born(c, n, via[c])'
  BY DEF Born
<1>4. BornInv'
  BY <1>1, <1>2, <1>3 DEF OnceInv, BornInv
<1>5. NewestInv'
  BY <1>1 DEF OnceInv, NewestInv
<1>6. ApartInv'
  <2>1. \A m, l : Same(m, l) => m.owner \in Callers /\ l.owner \in Callers
    BY DEF Same
  <2>2. \A m, l : Same(m, l)' <=> Same(m, l)
    BY DEF Same
  <2> QED
    BY <2>1, <2>2 DEF OnceInv, ApartInv
<1> QED
  BY <1>4, <1>5, <1>6 DEF OnceInv

\* A goroutine that makes a call, but for its write, adds neither.
LEMMA CallerAnswers ==
  ASSUME TypeOK, OnceInv, NEW c \in Callers, Caller(c), ~ \E k \in Conns : Write(c, k)
  PROVE  OnceInv'
<1> USE CallsAssumption
<1>1. \A d \in Callers : pc[d] \notin Unwritten => pc'[d] \notin Unwritten /\ via'[d] = via[d]
  <2>1. CASE Serial(c)
    BY <2>1 DEF Serial, SerialReserved, SerialAdd, SerialLow, SerialSwap, SerialAgain, Goto,
         Unwritten, TypeOK
  <2>2. CASE ConnsCall(c)
    BY <2>2 DEF ConnsCall, AllWrong, WriteFails, Goto, Unwritten, TypeOK
  <2>3. CASE NewChan(c) \/ TakeAnswer(c) \/ ContextDone(c) \/ DelChan(c)
    BY <2>3 DEF NewChan, TakeAnswer, ContextDone, DelChan, Goto, Unwritten, TypeOK
  <2> QED
    BY <2>1, <2>2, <2>3 DEF Caller
<1>2. UNCHANGED <<req, back, reader>>
  BY DEF Caller, Serial, SerialReserved, SerialAdd, SerialLow, SerialSwap, SerialAgain,
    ConnsCall, AllWrong, WriteFails, NewChan, TakeAnswer, ContextDone, DelChan, connVars,
    netVars
<1>3. \A d \in Callers : InChan(d)' \subseteq InChan(d)
  <2>1. CASE TakeAnswer(c)
    <3>1. chan[c] \in Seq(Message) /\ Len(chan[c]) <= 1 /\ chan[c] # <<>>
      BY <2>1 DEF TakeAnswer, TypeOK
    <3>2. Tail(chan[c]) = <<>>
      BY <3>1
    <3>3. \A d \in Callers : chan'[d] = chan[d] \/ chan'[d] = <<>>
      BY <2>1, <3>2 DEF TakeAnswer, TypeOK
    <3> QED
      BY <3>3 DEF InChan
  <2>2. ASSUME ~ TakeAnswer(c) PROVE chan' = chan
    BY <2>2 DEF Caller, Serial, SerialReserved, SerialAdd, SerialLow, SerialSwap,
      SerialAgain, ConnsCall, AllWrong, WriteFails, NewChan, ContextDone, DelChan
  <2> QED
    BY <2>1, <2>2 DEF InChan
<1> QED
  BY <1>1, <1>2, <1>3, FewerAnswers DEF InHands

\* connsCall writes the request of a call that has neither request nor answer.
LEMMA WriteOnce ==
  ASSUME TypeOK, OnceInv, NEW c \in Callers, NEW k \in Conns, Write(c, k)
  PROVE  OnceInv'
<1> DEFINE new == [owner |-> c, num |-> num[c], copy |-> 1]
<1>1. /\ pc[c] = "write" /\ pc'[c] = "newchan" /\ via'[c] = k
      /\ \A d \in Callers : d # c => pc'[d] = pc[d] /\ via'[d] = via[d]
  BY DEF Write, Goto, TypeOK
<1>2. UNCHANGED <<back, reader, chan>>
  BY DEF Write, connVars
<1>3. \A j \in Conns : InHands(j)' = InHands(j)
  BY <1>2 DEF InHands
<1>4. \A d \in Callers : InChan(d)' = InChan(d)
  BY <1>2 DEF InChan
<1>5. \A j \in Conns : \A r \in req'[j] : r \in req[j] \/ (j = k /\ r = new)
  BY DEF Write, TypeOK
<1>6. /\ \A j \in Conns : \A m \in req[j] \cup back[j] \cup InHands(j) : m.owner # c
      /\ \A d \in Callers : \A m \in InChan(d) : m.owner # c
  BY <1>1 DEF OnceInv, BornInv, Born, Unwritten
<1>7. \A j \in Conns : \A r \in req[j] : r.owner \in Callers
  BY DEF TypeOK, Request
<1>8. \A d \in Callers : \A n, j : d # c /\ Born(d, n, j) => Born(d, n, j)'
  BY <1>1 DEF Born
<1>9. Born(c, 1, k)'
  <2>1. Handovers[c][k] \in Nat \ {0}
    BY CallsAssumption
  <2> QED
    BY <1>1, <2>1 DEF Born, Unwritten
<1>10. BornInv'
  <2>1. \A j \in Conns : \A m \in (req[j] \cup back[j] \cup InHands(j))' :
          m.owner \in Callers => Born(m.owner, m.copy, j)'
    <3>1. \A j \in Conns : \A m \in req[j] \cup back[j] \cup InHands(j) :
            m.owner \in Callers => Born(m.owner, m.copy, j)'
      BY <1>6, <1>8 DEF OnceInv, BornInv
    <3>2. new.owner = c /\ new.copy = 1
      OBVIOUS
    <3> QED
      BY <1>2, <1>3, <1>5, <1>9, <3>1, <3>2
  <2>2. \A d \in Callers : \A m \in InChan(d) :
          m.owner \in Callers => Born(m.owner, m.copy, via[m.owner])'
    <3>1. \A d \in Callers : \A n : d # c /\ Born(d, n, via[d]) => Born(d, n, via[d])'
      BY <1>1 DEF Born
    <3> QED
      BY <1>6, <3>1 DEF OnceInv, BornInv
  <2> QED
    BY <1>4, <2>1, <2>2 DEF BornInv
<1>11. NewestInv'
  BY <1>2, <1>3, <1>4, <1>5, <1>6, <1>7 DEF OnceInv, NewestInv
<1>12. ApartInv'
  BY <1>2, <1>3, <1>4 DEF OnceInv, ApartInv, Same
<1> QED
  BY <1>10, <1>11, <1>12 DEF OnceInv

\* ParseRspByte answers a request that is newer than every answer, and what is left to be
\* handed over is newer still.
LEMMA ServeOnce ==
  ASSUME TypeOK, OnceInv, NEW k \in Conns, NEW r \in req[k], NEW a \in Answers,
         Serve(k, r, a) \/ ServeAgain(k, r, a)
  PROVE  OnceInv'
<1> DEFINE new == [owner |-> r.owner, num |-> r.num, kind |-> a, copy |-> r.copy]
<1>1. r \in Request /\ r.owner \in Callers /\ r.copy \in Nat
  BY DEF TypeOK, Request
<1>2. Another(r).owner = r.owner /\ Another(r).copy = r.copy + 1
  BY <1>1 DEF Another, Request
<1>3. UNCHANGED <<pc, via, reader, chan>>
  BY DEF Serve, ServeAgain, callVars, connVars
<1>4. /\ \A j \in Conns : InHands(j)' = InHands(j)
      /\ \A c \in Callers : InChan(c)' = InChan(c)
      /\ \A c, n, j : Born(c, n, j)' <=> Born(c, n, j)
  BY <1>3 DEF InHands, InChan, Born
<1>5. \A j \in Conns : \A m \in back'[j] : m \in back[j] \/ (j = k /\ m = new)
  <2>1. Answered(k, r, a)
    BY DEF Serve, ServeAgain
  <2> QED
    BY <2>1 DEF Answered, TypeOK
<1>6. \A j \in Conns : \A s \in req'[j] : \/ s \in req[j] /\ (j = k => s # r)
                                          \/ j = k /\ s = Another(r) /\ Born(r.owner, r.copy + 1, k)
  <2>1. CASE Serve(k, r, a)
    BY <2>1 DEF Serve, TypeOK
  <2>2. CASE ServeAgain(k, r, a)
    <3>1. Handovers[r.owner][k] \in Nat /\ r.copy < Handovers[r.owner][k]
      BY <1>1, <2>2, CallsAssumption DEF ServeAgain
    <3>2. Born(r.owner, r.copy, k)
      BY <1>1 DEF OnceInv, BornInv
    <3>3. Born(r.owner, r.copy + 1, k)
      BY <1>1, <3>1, <3>2 DEF Born
    <3>4. \A j \in Conns : \A s \in req'[j] :
            (s \in req[j] /\ (j = k => s # r)) \/ (j = k /\ s = Another(r))
      BY <2>2 DEF ServeAgain, TypeOK
    <3> QED
      BY <3>3, <3>4
  <2> QED
    BY <2>1, <2>2
<1>7. /\ \A j \in Conns : \A m \in back[j] \cup InHands(j) : m.owner = r.owner =>
           j = k /\ m.copy < r.copy
      /\ \A c \in Callers : \A m \in InChan(c) : m.owner = r.owner => m.copy < r.copy
      /\ \A j \in Conns : \A s \in req[j] : s.owner = r.owner => j = k /\ s = r
  BY <1>1 DEF OnceInv, BornInv, Born, NewestInv
<1>8. /\ \A j \in Conns : \A m \in back[j] \cup InHands(j) : m.owner = r.owner => m.copy # r.copy
      /\ \A c \in Callers : \A m \in InChan(c) : m.owner = r.owner => m.copy # r.copy
  <2>1. \A i : ~ (i < i) \/ i \notin Nat
    OBVIOUS
  <2> QED
    BY <1>1, <1>7, <2>1
<1>9. BornInv'
  BY <1>1, <1>2, <1>3, <1>4, <1>5, <1>6 DEF OnceInv, BornInv
<1>10. NewestInv'
  <2> SUFFICES ASSUME NEW j \in Conns, NEW s \in req'[j]
               PROVE  /\ \A m \in back'[j] \cup InHands(j) : m.owner = s.owner => m.copy < s.copy
                      /\ \A c \in Callers : \A m \in InChan(c) :
                           m.owner = s.owner => m.copy < s.copy
                      /\ \A t \in req'[j] : t.owner = s.owner => t = s
    BY <1>4 DEF NewestInv
  <2>1. CASE s \in req[j] /\ (j = k => s # r)
    <3>1. s.owner # r.owner
      BY <1>7, <2>1
    <3> QED
      BY <1>1, <1>2, <1>5, <1>6, <2>1, <3>1 DEF OnceInv, NewestInv
  <2>2. CASE j = k /\ s = Another(r)
    <3>1. \A m \in Message : m.copy < r.copy => m.copy < r.copy + 1
      BY <1>1 DEF Message
    <3>2. \A m \in back'[j] \cup InHands(j) : m.owner = s.owner => m.copy < s.copy
      <4>1. \A m \in back[j] \cup InHands(j) : m \in Message
        BY DEF TypeOK, InHands, Reader
      <4>2. new.copy < s.copy
        BY <1>1, <1>2, <2>2
      <4> QED
        BY <1>2, <1>5, <1>7, <2>2, <3>1, <4>1, <4>2
    <3>3. \A c \in Callers : \A m \in InChan(c) : m.owner = s.owner => m.copy < s.copy
      <4>1. \A c \in Callers : \A m \in InChan(c) : m \in Message
        BY DEF TypeOK, InChan
      <4> QED
        BY <1>2, <1>7, <2>2, <3>1, <4>1
    <3>4. \A t \in req'[j] : t.owner = s.owner => t = s
      BY <1>2, <1>6, <1>7, <2>2
    <3> QED
      BY <3>2, <3>3, <3>4
  <2> QED
    BY <1>6, <2>1, <2>2
<1>11. ApartInv'
  BY <1>4, <1>5, <1>8 DEF OnceInv, ApartInv, Same
<1> QED
  BY <1>9, <1>10, <1>11 DEF OnceInv

\* A reader takes an answer from the network, or puts it into a channel.
LEMMA MoveOnce ==
  ASSUME TypeOK, OnceInv, NEW k \in Conns,
         SendBody(k) \/ \E m \in back[k] : ReadAnswer(k, m)
  PROVE  OnceInv'
<1>0. UNCHANGED <<pc, via, req>>
  BY DEF SendBody, ReadAnswer, callVars, netVars
<1>1. \A c, n, j : Born(c, n, j)' <=> Born(c, n, j)
  BY <1>0 DEF Born
<1>2. ASSUME NEW n \in back[k], ReadAnswer(k, n) PROVE OnceInv'
  <2>1. /\ \A j \in Conns : j # k => back'[j] = back[j] /\ InHands(j)' = InHands(j)
        /\ back'[k] = back[k] \ {n} /\ InHands(k) = {} /\ InHands(k)' = {n}
    BY <1>2 DEF ReadAnswer, InHands, TypeOK
  <2>2. \A c \in Callers : InChan(c)' = InChan(c)
    BY <1>2 DEF ReadAnswer, InChan, callVars
  <2>3. \A j \in Conns : /\ (back[j] \cup InHands(j))' = back[j] \cup InHands(j)
                         /\ back'[j] \subseteq back[j]
    BY <2>1
  <2>4. BornInv'
    BY <1>0, <1>1, <2>2, <2>3 DEF OnceInv, BornInv
  <2>5. NewestInv'
    BY <1>0, <2>2, <2>3 DEF OnceInv, NewestInv
  <2>6. ApartInv'
    BY <2>1, <2>2, <2>3 DEF OnceInv, ApartInv, Same
  <2> QED
    BY <2>4, <2>5, <2>6 DEF OnceInv
<1>3. CASE SendBody(k)
  <2>0. PICK d \in Callers, n \in Message :
               reader[k].at = "send" /\ d = reader[k].to /\ n = reader[k].msg
    <3>1. reader[k] \in Reader
      BY DEF TypeOK
    <3> QED
      BY <1>3, <3>1 DEF SendBody, Reader
  <2>1. /\ \A j \in Conns : j # k => InHands(j)' = InHands(j)
        /\ InHands(k) = {n} /\ InHands(k)' = {} /\ back' = back
    BY <1>3, <2>0 DEF SendBody, InHands, Reading, TypeOK, netVars
  <2>2. (\A c \in Callers : c # d => InChan(c)' = InChan(c)) /\ InChan(d)' = {n}
    <3>1. chan'[d] = <<n>> /\ \A c \in Callers : c # d => chan'[c] = chan[c]
      BY <1>3, <2>0 DEF SendBody, TypeOK
    <3>2. Head(<<n>>) = n /\ <<n>> # <<>>
      OBVIOUS
    <3> QED
      BY <3>1, <3>2 DEF InChan
  <2>3. \A c \in Callers : \A m \in InChan(c)' : m \in InChan(c) \/ m = n
    BY <2>2
  <2>4. BornInv'
    <3>1. n.owner \in Callers => Born(n.owner, n.copy, via[n.owner])
      BY <2>1 DEF OnceInv, BornInv, Born
    <3>2. \A c \in Callers : \A m \in InChan(c)' :
            m.owner \in Callers => Born(m.owner, m.copy, via[m.owner])
      BY <2>3, <3>1 DEF OnceInv, BornInv
    <3>3. \A j \in Conns : \A m \in (req[j] \cup back[j] \cup InHands(j))' :
            m.owner \in Callers => Born(m.owner, m.copy, j)
      BY <1>0, <2>1 DEF OnceInv, BornInv
    <3> QED
      BY <1>0, <1>1, <3>2, <3>3 DEF BornInv
  <2>5. NewestInv'
    <3>1. \A j \in Conns : \A r \in req[j] : n.owner = r.owner => n.copy < r.copy
      <4>1. \A j \in Conns : \A r \in req[j] : r.owner \in Callers
        BY DEF TypeOK, Request
      <4>2. \A j \in Conns : \A r \in req[j] : n.owner = r.owner => j = k
        BY <2>1, <4>1 DEF OnceInv, BornInv, Born
      <4> QED
        BY <2>1, <4>2 DEF OnceInv, NewestInv
    <3>2. \A j \in Conns : (back[j] \cup InHands(j))' \subseteq back[j] \cup InHands(j)
      BY <2>1
    <3> QED
      BY <1>0, <2>3, <3>1, <3>2 DEF OnceInv, NewestInv
  <2>6. ApartInv'
    <3>1. \A j \in Conns : \A m \in (back[j] \cup InHands(j))' :
            m \in back[j] \cup InHands(j) /\ ~ Same(m, n)
      <4>1. \A j \in Conns : \A m \in (back[j] \cup InHands(j))' :
              m \in back[j] \cup InHands(j) /\ (j = k => m \in back[k])
        BY <2>1
      <4>2. \A m \in back[k] : ~ Same(m, n)
        BY <2>1 DEF OnceInv, ApartInv
      <4>3. \A j \in Conns : j # k =>
              \A m \in back[j] \cup InHands(j) : ~ Same(m, n)
        BY <2>1 DEF OnceInv, BornInv, Born, Same
      <4> QED
        BY <4>1, <4>2, <4>3
    <3>2. \A j \in Conns, c \in Callers :
            \A m \in (back[j] \cup InHands(j))', l \in InChan(c)' : ~ Same(m, l)
      BY <2>3, <3>1 DEF OnceInv, ApartInv
    <3>3. \A j \in Conns : \A m \in back[j], l \in InHands(j)' : ~ Same(m, l)
      BY <2>1 DEF OnceInv, ApartInv
    <3> QED
      BY <2>1, <3>2, <3>3 DEF OnceInv, ApartInv, Same
  <2> QED
    BY <2>4, <2>5, <2>6 DEF OnceInv
<1> QED
  BY <1>2, <1>3

\* What else happens to a connection adds no request, and no answer but a ping's.
LEMMA RestOnce ==
  ASSUME TypeOK, OnceInv, NEW k \in Conns,
         \/ ReadResp(k) \/ Environment(k) \/ \E r \in req[k] : ServeIgnored(k, r),
         ~ SendBody(k), ~ \E m \in back[k] : ReadAnswer(k, m)
  PROVE  OnceInv'
<1> USE CallsAssumption
<1>1. UNCHANGED callVars
  BY DEF ReadResp, ReadFailure, LookupFound, LookupMissed, ReadError, Environment,
    LoseRequest, LoseAnswer, Break, TestConn, Refresh, Close, Sweep, ServeIgnored
<1>2. UNCHANGED <<pc, via, chan>>
  BY <1>1 DEF callVars
<1>3. \A c \in Callers : InChan(c)' = InChan(c)
  BY <1>2 DEF InChan
<1>4. SUFFICES /\ \A j \in Conns : req'[j] \subseteq req[j]
               /\ \A j \in Conns : \A m \in back'[j] : m.owner \in Callers => m \in back[j]
               /\ \A j \in Conns : InHands(j)' \subseteq InHands(j)
  BY <1>2, <1>3, FewerAnswers
<1>5. ASSUME Drop(k)
      PROVE  /\ \A j \in Conns : req'[j] \subseteq req[j] /\ back'[j] \subseteq back[j]
             /\ \A j \in Conns : InHands(j)' \subseteq InHands(j)
  BY <1>5 DEF Drop, Exited, InHands, TypeOK
<1>6. ASSUME Tested(k)
      PROVE  \A j \in Conns : \A m \in back'[j] : m.owner \in Callers => m \in back[j]
  <2>1. \A j \in Conns : \A m \in back'[j] : m \in back[j] \/ m = Pong
    BY <1>6 DEF Tested, TypeOK
  <2> QED
    BY <2>1 DEF Pong
<1>7. CASE Break(k) \/ Close(k)
  BY <1>5, <1>7 DEF Break, Close, Closed
<1>8. CASE TestConn(k)
  BY <1>6, <1>8 DEF TestConn, InHands
<1>9. CASE Refresh(k)
  <2>1. \A j \in Conns : InHands(j)' \subseteq InHands(j)
    BY <1>9 DEF Refresh, Reading, InHands, TypeOK
  <2> QED
    BY <1>6, <1>9, <2>1 DEF Refresh
<1>10. ASSUME NEW m \in back[k], ReadFailure(k, m) \/ LoseAnswer(k, m)
       PROVE  UNCHANGED <<req, reader>> /\ \A j \in Conns : back'[j] \subseteq back[j]
  <2>1. CASE ReadFailure(k, m)
    BY <2>1 DEF ReadFailure, connVars, TypeOK
  <2>2. CASE LoseAnswer(k, m)
    BY <2>2 DEF LoseAnswer, connVars, TypeOK
  <2> QED
    BY <1>10, <2>1, <2>2
<1>11. ASSUME NEW r \in req[k], ServeIgnored(k, r) \/ LoseRequest(k, r)
       PROVE  UNCHANGED <<back, reader>> /\ \A j \in Conns : req'[j] \subseteq req[j]
  <2>1. CASE ServeIgnored(k, r)
    BY <2>1 DEF ServeIgnored, connVars, TypeOK
  <2>2. CASE LoseRequest(k, r)
    BY <2>2 DEF LoseRequest, connVars, TypeOK
  <2> QED
    BY <1>11, <2>1, <2>2
<1>12. CASE LookupFound(k)
  <2>1. UNCHANGED netVars /\ \A j \in Conns : InHands(j)' \subseteq InHands(j)
    BY <1>12 DEF LookupFound, InHands, TypeOK
  <2> QED
    BY <2>1 DEF netVars
<1>13. CASE LookupMissed(k) \/ ReadError(k)
  <2>1. UNCHANGED netVars /\ \A j \in Conns : reader'[j] = reader[j] \/ reader'[j].at \in {"read", "exited"}
    <3>1. CASE LookupMissed(k)
      BY <3>1 DEF LookupMissed, Reading, TypeOK
    <3>2. CASE ReadError(k)
      BY <3>2 DEF ReadError, Exited, TypeOK
    <3> QED
      BY <1>13, <3>1, <3>2
  <2>2. \A j \in Conns : InHands(j)' \subseteq InHands(j)
    BY <2>1 DEF InHands
  <2> QED
    BY <2>1, <2>2 DEF netVars
<1>14. ASSUME NEW n \in Nums, Sweep(k, n) PROVE UNCHANGED <<req, back, reader>>
  BY <1>14 DEF Sweep, netVars
<1>15. ASSUME UNCHANGED reader PROVE \A j \in Conns : InHands(j)' = InHands(j)
  BY <1>15 DEF InHands
<1> QED
  BY <1>7, <1>8, <1>9, <1>10, <1>11, <1>12, <1>13, <1>14, <1>15 DEF ReadResp, Environment

\* No step puts an answer into two places, or answers one handover twice.
LEMMA OnceStep == TypeOK /\ OnceInv /\ [Next]_vars => OnceInv'
<1> SUFFICES ASSUME TypeOK, OnceInv, [Next]_vars PROVE OnceInv'
  OBVIOUS
<1>1. ASSUME NEW c \in Callers, Caller(c) PROVE OnceInv'
  BY <1>1, CallerAnswers, WriteOnce
<1>2. ASSUME NEW k \in Conns, Server(k) PROVE OnceInv'
  <2>1. ASSUME NEW r \in req[k], ServeIgnored(k, r) PROVE OnceInv'
    <3>1. ~ SendBody(k) /\ ~ \E m \in back[k] : ReadAnswer(k, m)
      <4>1. UNCHANGED reader
        BY <2>1 DEF ServeIgnored, connVars
      <4>2. SendBody(k) => reader'[k] # reader[k]
        BY DEF SendBody, Reading, TypeOK
      <4>3. \A m \in back[k] : ReadAnswer(k, m) => reader'[k] # reader[k]
        BY DEF ReadAnswer, TypeOK
      <4> QED
        BY <4>1, <4>2, <4>3
    <3> QED
      BY <2>1, <3>1, RestOnce
  <2> QED
    BY <1>2, <2>1, ServeOnce DEF Server
<1>3. ASSUME NEW k \in Conns, ReadResp(k) \/ Environment(k) PROVE OnceInv'
  BY <1>3, MoveOnce, RestOnce
<1>4. CASE UNCHANGED vars
  <2>1. UNCHANGED <<pc, via, req, back, reader, chan>>
    BY <1>4 DEF vars, callVars, connVars, netVars
  <2> QED
    BY <2>1, FewerAnswers DEF InHands, InChan
<1> QED
  BY <1>1, <1>2, <1>3, <1>4 DEF Next, Finished

\* At the start there are no requests and no answers.
LEMMA InitOnce == Init => OnceInv
<1> SUFFICES ASSUME Init PROVE OnceInv
  OBVIOUS
<1>1. /\ \A k \in Conns : req[k] = {} /\ back[k] = {} /\ InHands(k) = {}
      /\ \A c \in Callers : InChan(c) = {}
  BY DEF Init, Reading, InHands, InChan
<1> QED
  BY <1>1 DEF OnceInv, BornInv, NewestInv, ApartInv

\* What a reader is about to send and what it finds in the channel are two answers of
\* the one call the number belongs to, so its request was handed over twice.
LEMMA BlocksOnRepeat == TypeOK /\ NumInv /\ AnswerInv /\ OnceInv => ReaderBlocksOnlyOnRepeat
<1> SUFFICES ASSUME TypeOK, NumInv, AnswerInv, OnceInv, NEW k \in Conns,
                    reader[k].at = "send", chan[reader[k].to] # <<>>, Private(reader[k].to)
             PROVE  /\ reader[k].msg.owner = reader[k].to
                    /\ Head(chan[reader[k].to]).owner = reader[k].to
                    /\ Handovers[reader[k].to][k] > 1
  BY DEF ReaderBlocksOnlyOnRepeat
<1> DEFINE c == reader[k].to
           m == reader[k].msg
           h == Head(chan[c])
<1>1. c \in Callers /\ m \in Message /\ h \in Message
  <2>1. c \in Callers /\ m \in Message
    BY DEF TypeOK, Reader
  <2> QED
    BY <2>1 DEF TypeOK
<1>2. m.owner = c
  <2>1. Holds(c, m)
    BY DEF AnswerInv
  <2> QED
    BY <1>1, <2>1, PrivateOwn
<1>3. h.owner = c
  <2>1. Holds(c, h)
    BY <1>1 DEF AnswerInv
  <2> QED
    BY <1>1, <2>1, PrivateOwn
<1>4. m \in InHands(k) /\ h \in InChan(c)
  BY DEF InHands, InChan
<1>5. via[c] = k /\ m.copy <= Handovers[c][k] /\ h.copy <= Handovers[c][k]
  BY <1>1, <1>2, <1>3, <1>4 DEF OnceInv, BornInv, Born
<1>6. m.copy # h.copy
  BY <1>1, <1>2, <1>3, <1>4 DEF OnceInv, ApartInv, Same
<1>7. m.copy \in Nat \ {0} /\ h.copy \in Nat \ {0} /\ Handovers[c][k] \in Nat
  BY <1>1, CallsAssumption DEF Message
<1> QED
  BY <1>2, <1>3, <1>5, <1>6, <1>7

\* c.body <- bts: then a call whose number is no built-in id blocks the reader of its
\* connection only with an answer of its own, and only if its request is handed over twice.
THEOREM ReaderBlocks == ASSUME Warm PROVE Spec => []ReaderBlocksOnlyOnRepeat
  BY Typing, InitInv, InitOnce, NumStep, AnswerStep, OnceStep, BlocksOnRepeat, Warm, PTL
    DEF Spec
=============================================================================
