--------------------------- MODULE RegistryProofs ---------------------------
(***************************************************************************)
(* What holds of the watcher's registry for every number of handlers,       *)
(* nodes, api names and requests.                                           *)
(*                                                                          *)
(* The argument: a number, once drawn from the counter, is a row of data    *)
(* whose name never changes again.  Every id in sight, be it in a table, in *)
(* an answer or in the hands of a handler, is the number of such a row.     *)
(***************************************************************************)
EXTENDS Registry, TLAPS

Func == [name : Names, node : SUBSET Uuids]
Host == [host : Hosts, recent : BOOLEAN]
Drawn == {i \in Ids : i <= num}

\* The tables: the rows below the counter are filled, the ids that were stored
\* are among them, and what the names say is what the rows say.
TablesInv ==
  /\ num \in WatchInMax .. MaxId
  /\ data \in [Ids -> Func \cup {None}]
  /\ \A i \in Drawn : data[i] \in Func
  /\ ids \subseteq Drawn
  /\ str \in [Names -> Ids \cup {None}] /\ NamedIsNumbered

ToldInv == told \subseteq Names \X Ids /\ AnsweredIds

NodesInv ==
  /\ node \in [Uuids -> Host \cup {None}]
  /\ doomed \in Uuids \cup {None}
  /\ alone \subseteq Handlers /\ settled \in [Uuids -> SUBSET Names]

Putting   == {"lookup", "number", "ids", "str", "scan", "append", "assign"}
Stages    == Putting \cup {"node", "store", "find", "conns", "look"}
Working   == [at : Stages, req : Request, pos : Nat, id : Ids \cup {None},
              read : SUBSET Uuids, list : SUBSET Uuids]

\* A handler at work w: what it knows of the function it works on.
Sound(w) ==
  /\ w \in {Idle} \cup Working
  /\ w.at \in Putting \cup {"node", "store"} => w.req.op = "Registered"
  /\ w.at \in Putting => w.pos \in DOMAIN w.req.funcs
  /\ w.at \in {"ids", "str", "scan", "append", "assign"} =>
       w.id \in Drawn /\ data[w.id].name = w.req.funcs[w.pos]
  /\ w.at \in {"str", "scan", "append", "assign"} => w.id \in ids
  /\ w.at \in {"find", "conns", "look"} => w.req.op = "GetApiConn"
  /\ w.at \in {"conns", "look"} => w.id \in ids /\ data[w.id].name = w.req.name

WorkInv ==
  /\ work \in [Handlers -> {Idle} \cup Working]
  /\ \A h \in Handlers : Sound(work[h])

IdsInv == TablesInv /\ ToldInv /\ NodesInv /\ WorkInv

\* Ids that were drawn stay drawn, and keep their names.
Grown ==
  /\ Drawn \subseteq Drawn' /\ ids \subseteq ids'
  /\ \A i \in Drawn : data'[i].name = data[i].name

-----------------------------------------------------------------------------

\* The fields of a request, by its operation.
LEMMA RequestFields ==
  ASSUME NEW r \in Request
  PROVE  /\ r.op = "Registered" => r.uuid \in Uuids /\ r.host \in Hosts /\ r.funcs \in Seq(Names)
         /\ r.op = "Heartbeats" => r.uuid \in Uuids
         /\ r.op \in {"GetFuncMsg", "GetApiConn"} => r.name \in Names
  BY DEF Request

\* A handler that goes on to step a, and a local it changes with that.
Locals(at, req, pos, id, read, list) ==
  [at |-> at, req |-> req, pos |-> pos, id |-> id, read |-> read, list |-> list]

\* What the steps of a handler make of its locals, as records.
LEMMA Forms ==
  ASSUME NEW CONSTANT w \in Working, NEW CONSTANT a, NEW CONSTANT v
  PROVE  /\ [w EXCEPT !.at = a] = Locals(a, w.req, w.pos, w.id, w.read, w.list)
         /\ [[w EXCEPT !.at = a] EXCEPT !.pos = v] = Locals(a, w.req, v, w.id, w.read, w.list)
         /\ [[w EXCEPT !.at = a] EXCEPT !.id = v] = Locals(a, w.req, w.pos, v, w.read, w.list)
         /\ [[w EXCEPT !.at = a] EXCEPT !.read = v] = Locals(a, w.req, w.pos, w.id, v, w.list)
<1>1. [w EXCEPT !.at = a] = Locals(a, w.req, w.pos, w.id, w.read, w.list)
  BY DEF Working, Locals
<1>2. PICK e : e = Locals(a, w.req, w.pos, w.id, w.read, w.list)
  OBVIOUS
<1>3. /\ [e EXCEPT !.pos = v] = Locals(a, w.req, v, w.id, w.read, w.list)
      /\ [e EXCEPT !.id = v] = Locals(a, w.req, w.pos, v, w.read, w.list)
      /\ [e EXCEPT !.read = v] = Locals(a, w.req, w.pos, w.id, v, w.list)
  BY <1>2 DEF Locals
<1> QED
  BY <1>1, <1>2, <1>3

\* A handler that puts an api has its name and its node.
LEMMA NameTyped ==
  ASSUME NEW h \in Handlers, WorkInv, work[h].at \in Putting
  PROVE  work[h] \in Working /\ Name(h) \in Names /\ Uuid(h) \in Uuids
<1>1. work[h] \in Working /\ Sound(work[h])
  BY DEF WorkInv, Idle, Putting
<1>2. work[h].req \in Request /\ work[h].req.op = "Registered"
        /\ work[h].pos \in DOMAIN work[h].req.funcs
  BY <1>1 DEF Sound, Working
<1> QED
  BY <1>1, <1>2, RequestFields DEF Name, Uuid

\* What is sound stays so when the tables grow.
LEMMA SoundStays ==
  ASSUME Grown, TablesInv, NEW CONSTANT w, Sound(w)
  PROVE  Sound(w)'
<1>1. w.id \in ids => w.id \in ids' /\ w.id \in Drawn
  BY DEF Grown, TablesInv
<1>2. w.id \in Drawn => w.id \in Drawn' /\ data'[w.id].name = data[w.id].name
  BY DEF Grown
<1> QED
  BY <1>1, <1>2 DEF Sound

\* A step of one handler leaves what the others know as it is.
LEMMA OthersStay ==
  ASSUME WorkInv, TablesInv, Grown, NEW h \in Handlers, NEW CONSTANT x,
         work' = [work EXCEPT ![h] = x], Sound(x)'
  PROVE  WorkInv'
<1>1. ASSUME NEW g \in Handlers PROVE Sound(work[g])'
  <2>1. PICK w : w = work[g]
    OBVIOUS
  <2>2. Sound(w)'
    BY <2>1, SoundStays DEF WorkInv
  <2>3. work'[g] = IF g = h THEN x ELSE w
    BY <2>1 DEF WorkInv
  <2> QED
    BY <2>2, <2>3
<1>2. x \in {Idle} \cup Working
  BY DEF Sound
<1> QED
  BY <1>1, <1>2 DEF WorkInv

\* So does a step that moves no handler.
LEMMA AllStay ==
  ASSUME WorkInv, TablesInv, Grown, UNCHANGED work
  PROVE  WorkInv'
<1>1. ASSUME NEW g \in Handlers PROVE Sound(work[g])'
  <2>1. PICK w : w = work[g]
    OBVIOUS
  <2> QED
    BY <2>1, SoundStays DEF WorkInv
<1> QED
  BY <1>1 DEF WorkInv

\* A step that leaves the table of functions alone.
LEMMA TablesStay ==
  ASSUME TablesInv, UNCHANGED funcVars
  PROVE  Grown /\ TablesInv'
  BY DEF TablesInv, Grown, Drawn, funcVars, NamedIsNumbered

\* What was told stays true when the tables grow.
LEMMA ToldStays ==
  ASSUME TablesInv, ToldInv, Grown, UNCHANGED told
  PROVE  ToldInv'
  BY DEF TablesInv, ToldInv, Grown, AnsweredIds

\* An answer that tells one more pair of a name and the id of its row.
LEMMA OneMoreTold ==
  ASSUME TablesInv, ToldInv, Grown, TablesInv', NEW CONSTANT n \in Names, NEW CONSTANT i,
         told' = told \cup {<<n, i>>}, i \in ids', data'[i].name = n
  PROVE  ToldInv'
<1>1. i \in Ids
  BY DEF TablesInv, Drawn
<1>2. told' \subseteq Names \X Ids
  BY <1>1 DEF ToldInv
<1>3. ASSUME NEW t \in told' PROVE t[2] \in ids' /\ data'[t[2]].name = t[1]
  <2>1. CASE t \in told
    BY <2>1 DEF TablesInv, ToldInv, Grown, AnsweredIds
  <2>2. CASE t = <<n, i>>
    BY <2>2
  <2> QED
    BY <2>1, <2>2
<1> QED
  BY <1>2, <1>3 DEF ToldInv, AnsweredIds

\* A row whose list of nodes is replaced keeps its name.
LEMMA ListReplaced ==
  ASSUME TablesInv, NEW i \in Drawn, NEW s \in SUBSET Uuids,
         data' = [data EXCEPT ![i].node = s], UNCHANGED <<num, ids, str>>
  PROVE  Grown /\ TablesInv'
<1>1. data[i] \in Func /\ i \in Ids
  BY DEF TablesInv, Drawn
<1>2. data' = [data EXCEPT ![i] = [name |-> data[i].name, node |-> s]]
  <2>1. PICK f : f = data[i]
    OBVIOUS
  <2>2. [f EXCEPT !.node = s] = [name |-> f.name, node |-> s]
    BY <1>1, <2>1 DEF Func
  <2>3. data' = [data EXCEPT ![i] = [f EXCEPT !.node = s]]
    BY <2>1
  <2> QED
    BY <2>1, <2>2, <2>3
<1>3. [name |-> data[i].name, node |-> s] \in Func
  BY <1>1 DEF Func
<1>4. Drawn' = Drawn
  BY DEF Drawn
<1>5. \A j \in Ids : data'[j] = IF j = i THEN [name |-> data[i].name, node |-> s] ELSE data[j]
  BY <1>2 DEF TablesInv
<1>6. \A j \in Drawn : data'[j] \in Func /\ data'[j].name = data[j].name
  BY <1>1, <1>3, <1>5 DEF TablesInv, Drawn
<1>7. data' \in [Ids -> Func \cup {None}]
  BY <1>2, <1>3 DEF TablesInv
<1>8. NamedIsNumbered'
  BY <1>6 DEF TablesInv, NamedIsNumbered
<1>9. /\ num' \in WatchInMax .. MaxId /\ ids' \subseteq Drawn'
      /\ str' \in [Names -> Ids \cup {None}]
  BY <1>4 DEF TablesInv
<1> QED
  BY <1>4, <1>6, <1>7, <1>8, <1>9 DEF TablesInv, Grown

-----------------------------------------------------------------------------

\* A step in which a handler does no more than go on.
LEMMA Moves ==
  ASSUME IdsInv, NEW h \in Handlers, NEW CONSTANT x, Sound(x),
         work' = [work EXCEPT ![h] = x], UNCHANGED <<funcVars, nodeVars, told>>,
         alone' \subseteq Handlers, settled' \in [Uuids -> SUBSET Names]
  PROVE  IdsInv'
<1>1. Grown /\ TablesInv' /\ ToldInv'
  BY TablesStay, ToldStays DEF IdsInv
<1>2. Sound(x)'
  BY <1>1, SoundStays DEF IdsInv
<1>3. WorkInv'
  BY <1>1, <1>2, OthersStay DEF IdsInv
<1>4. NodesInv'
  BY DEF IdsInv, NodesInv, nodeVars
<1> QED
  BY <1>1, <1>3, <1>4 DEF IdsInv

\* A step in which a handler does no more than go to another stage.
LEMMA Goes ==
  ASSUME IdsInv, NEW h \in Handlers, NEW CONSTANT w \in Working, w = work[h], NEW CONSTANT a,
         Sound(Locals(a, w.req, w.pos, w.id, w.read, w.list)),
         work' = [work EXCEPT ![h].at = a], UNCHANGED <<funcVars, nodeVars, told, alone, settled>>
  PROVE  IdsInv'
<1>1. PICK x : x = Locals(a, w.req, w.pos, w.id, w.read, w.list)
  OBVIOUS
<1>2. [w EXCEPT !.at = a] = x
  BY <1>1, Forms
<1>3. work' = [work EXCEPT ![h] = x]
  BY <1>2
<1>4. alone' \subseteq Handlers /\ settled' \in [Uuids -> SUBSET Names]
  BY DEF IdsInv, NodesInv
<1> QED
  BY <1>1, <1>3, <1>4, Moves

\* The end of PutApi leaves the handler with the next function or the node.
LEMMA ToldMoves ==
  ASSUME WorkInv, NEW h \in Handlers, NEW CONSTANT i, work[h].at \in Putting, Told(h, i)
  PROVE  \E x : work' = [work EXCEPT ![h] = x] /\ Sound(x)'
<1>1. PICK w : w = work[h]
  OBVIOUS
<1>2. w \in Working /\ w.at \in Putting /\ w.req \in Request /\ w.req.op = "Registered"
      /\ w.pos \in Nat /\ w.pos \in DOMAIN w.req.funcs /\ w.req.funcs \in Seq(Names)
  BY <1>1, NameTyped, RequestFields DEF WorkInv, Sound, Working
<1>3. CASE w.pos < Len(w.req.funcs)
  <2>0. PICK p : p = [w EXCEPT !.at = "lookup"].pos + 1
    OBVIOUS
  <2> DEFINE x == [at |-> "lookup", req |-> w.req, pos |-> p, id |-> w.id,
                   read |-> w.read, list |-> w.list]
  <2>1. work' = [work EXCEPT ![h] = [[w EXCEPT !.at = "lookup"] EXCEPT !.pos = p]]
    BY <1>1, <1>3, <2>0 DEF Told, At
  <2>2. [[w EXCEPT !.at = "lookup"] EXCEPT !.pos = p] = x
    <3>1. w \in Working
      BY <1>2
    <3>2. [[w EXCEPT !.at = "lookup"] EXCEPT !.pos = p]
            = Locals("lookup", w.req, p, w.id, w.read, w.list)
      BY <3>1, Forms
    <3> QED
      BY <3>2 DEF Locals
  <2>6. p = w.pos + 1
    BY <1>2, <2>0 DEF Working
  <2>3. x \in Working
    BY <1>2, <2>6 DEF Working, Stages, Putting
  <2>4. x.pos \in DOMAIN x.req.funcs
    BY <1>2, <1>3, <2>6
  <2>5. Sound(x)'
    BY <1>2, <2>3, <2>4 DEF Sound, Putting
  <2> QED
    BY <2>1, <2>2, <2>5
<1>4. CASE ~ (w.pos < Len(w.req.funcs))
  <2> DEFINE x == [at |-> "node", req |-> w.req, pos |-> w.pos, id |-> w.id,
                   read |-> w.read, list |-> w.list]
  <2>1. work' = [work EXCEPT ![h] = [w EXCEPT !.at = "node"]]
    BY <1>1, <1>4 DEF Told
  <2>2. [w EXCEPT !.at = "node"] = x
    BY <1>2 DEF Working
  <2>3. x \in Working
    BY <1>2 DEF Working, Stages
  <2>4. Sound(x)'
    BY <1>2, <2>3 DEF Sound, Putting
  <2> QED
    BY <2>1, <2>2, <2>4
<1> QED
  BY <1>3, <1>4

\* PutApi is done with a function whose row it knows.
LEMMA Answers ==
  ASSUME IdsInv, Grown, TablesInv', NEW h \in Handlers, NEW CONSTANT i, work[h].at \in Putting,
         Told(h, i), i \in ids', data'[i].name = Name(h), UNCHANGED <<nodeVars, alone, settled>>
  PROVE  IdsInv'
<1>1. PICK n : n = Name(h)
  OBVIOUS
<1>2. n \in Names /\ told' = told \cup {<<n, i>>}
  BY <1>1, NameTyped DEF IdsInv, Told
<1>3. ToldInv'
  BY <1>1, <1>2, OneMoreTold DEF IdsInv
<1>4. PICK x : work' = [work EXCEPT ![h] = x] /\ Sound(x)'
  BY ToldMoves DEF IdsInv
<1>5. WorkInv'
  BY <1>4, OthersStay DEF IdsInv
<1>6. NodesInv'
  BY DEF IdsInv, NodesInv, nodeVars
<1> QED
  BY <1>3, <1>5, <1>6 DEF IdsInv

-----------------------------------------------------------------------------
(* Registered.                                                              *)

\* A request that starts has no id in hand yet.
LEMMA BeginSound ==
  ASSUME IdsInv, NEW h \in Handlers, NEW r \in Requests, Begin(h, r)
  PROVE  IdsInv'
<1> DEFINE x == [at |-> IF r.op = "Registered" THEN "lookup" ELSE "find", req |-> r,
                 pos |-> 1, id |-> None, read |-> {}, list |-> {}]
<1>1. r \in Request /\ (r.op = "Registered" => r.funcs # <<>>)
  BY RegistryAssumption
<1>2. r.op = "Registered" => 1 \in DOMAIN r.funcs
  BY <1>1, RequestFields
<1>3. x \in Working
  BY <1>1 DEF Working, Stages, Putting
<1>4. Sound(x)
  BY <1>2, <1>3 DEF Sound, Putting, Begin
<1>5. work' = [work EXCEPT ![h] = x]
  BY DEF Begin, Enter
<1> QED
  BY <1>4, <1>5, Moves DEF Begin, MarkAlone, IdsInv, NodesInv

\* A request by an id asks for one that was told.
LEMMA BeginByIdSound ==
  ASSUME IdsInv, NEW h \in Handlers, NEW t \in told, BeginById(h, t)
  PROVE  IdsInv'
<1>1. PICK a, b : t = <<a, b>> /\ a \in Names /\ b \in Ids /\ b \in ids /\ data[b].name = a
  BY DEF IdsInv, ToldInv, AnsweredIds
<1> DEFINE q == [op |-> "GetApiConn", name |-> a]
           x == [at |-> "conns", req |-> q, pos |-> 1, id |-> b, read |-> {}, list |-> {}]
<1>2. q \in Request
  BY <1>1 DEF Request
<1>3. x \in Working
  BY <1>1, <1>2 DEF Working, Stages
<1>4. Sound(x)
  BY <1>1, <1>3 DEF Sound, Putting
<1>5. work' = [work EXCEPT ![h] = x]
  BY <1>1 DEF BeginById
<1> QED
  BY <1>4, <1>5, Moves DEF BeginById, MarkAlone, IdsInv, NodesInv

\* PutApi's lookup by name: an id found there is that of the name.
LEMMA LookupSound ==
  ASSUME IdsInv, NEW h \in Handlers, LookupKnown(h) \/ LookupMissed(h)
  PROVE  IdsInv'
<1>1. PICK w : w = work[h]
  OBVIOUS
<1>2. w.at = "lookup"
  BY <1>1 DEF LookupKnown, LookupMissed, Goto
<1>3. w \in Working /\ Sound(w) /\ Name(h) = w.req.funcs[w.pos] /\ Name(h) \in Names
  BY <1>1, <1>2, NameTyped DEF IdsInv, WorkInv, Putting, Name
<1>4. CASE LookupKnown(h)
  <2>1. PICK i : i = str[Name(h)]
    OBVIOUS
  <2>2. i \in ids /\ i \in Drawn /\ i \in Ids /\ data[i].name = w.req.funcs[w.pos]
    BY <1>3, <1>4, <2>1 DEF IdsInv, TablesInv, NamedIsNumbered, LookupKnown, Drawn
  <2> DEFINE x == [at |-> "scan", req |-> w.req, pos |-> w.pos, id |-> i,
                   read |-> w.read, list |-> w.list]
  <2>3. work' = [work EXCEPT ![h] = [[w EXCEPT !.at = "scan"] EXCEPT !.id = i]]
    BY <1>1, <1>4, <2>1 DEF LookupKnown, At
  <2>4. [[w EXCEPT !.at = "scan"] EXCEPT !.id = i] = x
    BY <1>3, Forms DEF Locals
  <2>5. x \in Working
    BY <1>3, <2>2 DEF Working, Stages, Putting
  <2>6. Sound(x)
    BY <1>2, <1>3, <2>2, <2>5 DEF Sound, Putting
  <2> QED
    BY <1>4, <2>3, <2>4, <2>6, Moves DEF LookupKnown, IdsInv, NodesInv
<1>5. CASE LookupMissed(h)
  <2> DEFINE x == Locals("number", w.req, w.pos, w.id, w.read, w.list)
  <2>1. Sound(x)
    BY <1>2, <1>3 DEF Sound, Putting, Working, Stages, Locals
  <2> QED
    BY <1>1, <1>3, <1>5, <2>1, Goes DEF LookupMissed, Goto
<1> QED
  BY <1>4, <1>5

\* The scan of a function's nodes changes no table.
LEMMA ScanSound ==
  ASSUME IdsInv, NEW h \in Handlers, ScanPresent(h) \/ ScanAbsent(h)
  PROVE  IdsInv'
<1>1. PICK w : w = work[h]
  OBVIOUS
<1>2. w.at = "scan"
  BY <1>1 DEF ScanPresent, ScanAbsent, Goto
<1>3. w \in Working /\ Sound(w) /\ Name(h) = w.req.funcs[w.pos]
  BY <1>1, <1>2, NameTyped DEF IdsInv, WorkInv, Putting, Name
<1>4. CASE ScanPresent(h)
  <2>1. Grown /\ TablesInv' /\ w.id \in ids' /\ data'[w.id].name = Name(h)
    BY <1>2, <1>3, <1>4, TablesStay DEF IdsInv, ScanPresent, Sound, funcVars
  <2>2. Told(h, w.id) /\ work[h].at \in Putting
    BY <1>1, <1>2, <1>4 DEF ScanPresent, Putting
  <2> QED
    BY <1>4, <2>1, <2>2, Answers DEF ScanPresent
<1>5. CASE ScanAbsent(h)
  <2> DEFINE x == Locals("append", w.req, w.pos, w.id, w.read, w.list)
  <2>1. Sound(x)
    BY <1>2, <1>3 DEF Sound, Putting, Working, Stages, Locals
  <2> QED
    BY <1>1, <1>3, <1>5, <2>1, Goes DEF ScanAbsent, Goto
<1> QED
  BY <1>4, <1>5

\* The read half of append: the slice it saw may be stale by the write.
LEMMA AppendReadsSound ==
  ASSUME IdsInv, NEW h \in Handlers, AppendReads(h)
  PROVE  IdsInv'
<1>1. PICK w : w = work[h]
  OBVIOUS
<1>2. PICK s : s = data[w.id].node
  OBVIOUS
<1>3. w \in Working /\ Sound(w) /\ w.at = "append"
  BY <1>1, NameTyped DEF IdsInv, WorkInv, Putting, AppendReads
<1>4. s \in SUBSET Uuids
  BY <1>2, <1>3 DEF IdsInv, TablesInv, Sound, Func
<1>5. PICK x : x = Locals("assign", w.req, w.pos, w.id, s, w.list)
  OBVIOUS
<1>6. [[w EXCEPT !.at = "assign"] EXCEPT !.read = s] = x
  BY <1>3, <1>5, Forms
<1>7. work' = [work EXCEPT ![h] = [[w EXCEPT !.at = "assign"] EXCEPT !.read = s]]
  BY <1>1, <1>2 DEF AppendReads, At
<1>8. Sound(x)
  BY <1>3, <1>4, <1>5 DEF Sound, Putting, Working, Stages, Locals
<1> QED
  BY <1>6, <1>7, <1>8, Moves DEF AppendReads, IdsInv, NodesInv

\* The write half of append replaces a slice; names and ids stay.
LEMMA AppendWritesSound ==
  ASSUME IdsInv, NEW h \in Handlers, AppendWrites(h)
  PROVE  IdsInv'
<1>1. PICK w : w = work[h]
  OBVIOUS
<1>2. PICK s : s = w.read \cup {Uuid(h)}
  OBVIOUS
<1>3. w \in Working /\ Sound(w) /\ w.at = "assign" /\ Uuid(h) \in Uuids
      /\ Name(h) = w.req.funcs[w.pos]
  BY <1>1, NameTyped DEF IdsInv, WorkInv, Putting, AppendWrites, Name
<1>4. s \in SUBSET Uuids /\ w.id \in Drawn /\ w.id \in ids /\ data[w.id].name = Name(h)
  BY <1>2, <1>3 DEF Working, Sound
<1>5. data' = [data EXCEPT ![w.id].node = s] /\ UNCHANGED <<num, ids, str>>
  BY <1>1, <1>2 DEF AppendWrites
<1>6. Grown /\ TablesInv'
  BY <1>4, <1>5, ListReplaced DEF IdsInv
<1>7. w.id \in ids' /\ data'[w.id].name = Name(h)
  BY <1>4, <1>6 DEF Grown
<1>8. Told(h, w.id) /\ work[h].at \in Putting
  BY <1>1 DEF AppendWrites, Putting
<1> QED
  BY <1>6, <1>7, <1>8, Answers DEF AppendWrites

\* The counter gives a number no row has yet: the rows that were drawn stay as
\* they are.
LEMMA NumberSound ==
  ASSUME IdsInv, NEW h \in Handlers, Number(h)
  PROVE  IdsInv'
<1>1. PICK w : w = work[h]
  OBVIOUS
<1>2. PICK i : i = num + 1
  OBVIOUS
<1>3. PICK f : f = [name |-> Name(h), node |-> {Uuid(h)}]
  OBVIOUS
<1>4. w \in Working /\ Sound(w) /\ w.at = "number" /\ Uuid(h) \in Uuids
      /\ Name(h) = w.req.funcs[w.pos] /\ Name(h) \in Names
  BY <1>1, NameTyped DEF IdsInv, WorkInv, Putting, Number, Name
<1>5. num \in Nat /\ i \in Ids /\ i \notin Drawn /\ Drawn' = Drawn \cup {i}
      /\ num' \in WatchInMax .. MaxId
  BY <1>2, RegistryAssumption DEF Number, IdsInv, TablesInv, Drawn, Ids
<1>6. f \in Func
  BY <1>3, <1>4 DEF Func
<1>7. data' = [data EXCEPT ![i] = f] /\ UNCHANGED <<ids, str, told, nodeVars, alone, settled>>
  BY <1>2, <1>3 DEF Number
<1>8. /\ data' \in [Ids -> Func \cup {None}] /\ data'[i] = f
      /\ \A j \in Drawn : data'[j] = data[j]
  BY <1>5, <1>6, <1>7 DEF IdsInv, TablesInv, Drawn
<1>9. Grown
  BY <1>5, <1>7, <1>8 DEF Grown
<1>10. TablesInv'
  <2>1. \A j \in Drawn' : data'[j] \in Func
    BY <1>5, <1>6, <1>8 DEF IdsInv, TablesInv
  <2>2. NamedIsNumbered'
    BY <1>7, <1>8 DEF IdsInv, TablesInv, NamedIsNumbered
  <2>3. ids' \subseteq Drawn' /\ str' \in [Names -> Ids \cup {None}]
    BY <1>5, <1>7 DEF IdsInv, TablesInv
  <2> QED
    BY <1>5, <1>8, <2>1, <2>2, <2>3 DEF TablesInv
<1>11. PICK x : x = Locals("ids", w.req, w.pos, i, w.read, w.list)
  OBVIOUS
<1>12. [[w EXCEPT !.at = "ids"] EXCEPT !.id = i] = x
  BY <1>4, <1>11, Forms
<1>13. work' = [work EXCEPT ![h] = x]
  BY <1>1, <1>2, <1>12 DEF Number, At
<1>14. data'[i].name = w.req.funcs[w.pos] /\ i \in Drawn'
  BY <1>3, <1>4, <1>5, <1>8
<1>15. x \in Working
  BY <1>4, <1>5, <1>11 DEF Working, Stages, Putting, Locals
<1>16. Sound(x)'
  BY <1>4, <1>11, <1>14, <1>15 DEF Sound, Putting, Locals
<1>17. WorkInv'
  BY <1>9, <1>13, <1>16, OthersStay DEF IdsInv
<1>18. ToldInv'
  BY <1>7, <1>9, ToldStays DEF IdsInv
<1>19. NodesInv'
  BY <1>7 DEF IdsInv, NodesInv, nodeVars
<1> QED
  BY <1>10, <1>17, <1>18, <1>19 DEF IdsInv

\* The id becomes known before the name does.
LEMMA StoreIdsSound ==
  ASSUME IdsInv, NEW h \in Handlers, StoreIds(h)
  PROVE  IdsInv'
<1>1. PICK w : w = work[h]
  OBVIOUS
<1>2. w \in Working /\ Sound(w) /\ w.at = "ids"
  BY <1>1, NameTyped DEF IdsInv, WorkInv, Putting, StoreIds, Goto
<1>3. w.id \in Drawn /\ data[w.id].name = w.req.funcs[w.pos]
  BY <1>2 DEF Sound
<1>4. ids' = ids \cup {w.id} /\ UNCHANGED <<num, data, str, nodeVars, told, alone, settled>>
  BY <1>1 DEF StoreIds
<1>5. Drawn' = Drawn
  BY <1>4 DEF Drawn
<1>6. Grown /\ TablesInv'
  BY <1>3, <1>4, <1>5 DEF IdsInv, TablesInv, Grown, NamedIsNumbered
<1>7. PICK x : x = Locals("str", w.req, w.pos, w.id, w.read, w.list)
  OBVIOUS
<1>8. [w EXCEPT !.at = "str"] = x
  BY <1>2, <1>7, Forms
<1>9. work' = [work EXCEPT ![h] = x]
  BY <1>1, <1>8 DEF StoreIds, Goto
<1>10. x \in Working
  BY <1>2, <1>7 DEF Working, Stages, Putting, Locals
<1>11. Sound(x)'
  BY <1>2, <1>3, <1>4, <1>5, <1>7, <1>10 DEF Sound, Putting, Locals
<1>12. WorkInv'
  BY <1>6, <1>9, <1>11, OthersStay DEF IdsInv
<1>13. ToldInv'
  BY <1>4, <1>6, ToldStays DEF IdsInv
<1>14. NodesInv'
  BY <1>4 DEF IdsInv, NodesInv, nodeVars
<1> QED
  BY <1>6, <1>12, <1>13, <1>14 DEF IdsInv

\* The name becomes known, when its id already is.
LEMMA StoreStrSound ==
  ASSUME IdsInv, NEW h \in Handlers, StoreStr(h)
  PROVE  IdsInv'
<1>1. PICK w : w = work[h]
  OBVIOUS
<1>2. w \in Working /\ Sound(w) /\ w.at = "str" /\ Name(h) \in Names
      /\ Name(h) = w.req.funcs[w.pos]
  BY <1>1, NameTyped DEF IdsInv, WorkInv, Putting, StoreStr, Name
<1>3. w.id \in ids /\ w.id \in Drawn /\ w.id \in Ids /\ data[w.id].name = Name(h)
  BY <1>2 DEF Sound, Drawn
<1>4. PICK n : n = Name(h)
  OBVIOUS
<1>5. str' = [str EXCEPT ![n] = w.id] /\ UNCHANGED <<num, data, ids, nodeVars, alone, settled>>
  BY <1>1, <1>4 DEF StoreStr
<1>6. Drawn' = Drawn
  BY <1>5 DEF Drawn
<1>7. str' \in [Names -> Ids \cup {None}] /\ NamedIsNumbered'
  BY <1>2, <1>3, <1>4, <1>5 DEF IdsInv, TablesInv, NamedIsNumbered
<1>8. Grown /\ TablesInv'
  BY <1>5, <1>6, <1>7 DEF IdsInv, TablesInv, Grown
<1>9. w.id \in ids' /\ data'[w.id].name = Name(h)
  BY <1>3, <1>5
<1>10. Told(h, w.id) /\ work[h].at \in Putting
  BY <1>1 DEF StoreStr, Putting
<1> QED
  BY <1>5, <1>8, <1>9, <1>10, Answers

-----------------------------------------------------------------------------
(* The table of nodes.                                                      *)

\* A stamp that is renewed, or grows old.
LEMMA Stamped ==
  ASSUME NodesInv, NEW CONSTANT u \in Uuids, node[u] # None, NEW CONSTANT b \in BOOLEAN,
         node' = [node EXCEPT ![u].recent = b]
  PROVE  node' \in [Uuids -> Host \cup {None}]
<1>1. PICK m : m = node[u]
  OBVIOUS
<1>2. m \in Host
  BY <1>1 DEF NodesInv
<1>3. [m EXCEPT !.recent = b] = [host |-> m.host, recent |-> b]
  BY <1>2 DEF Host
<1>4. [m EXCEPT !.recent = b] \in Host
  BY <1>2, <1>3 DEF Host
<1>5. node' = [node EXCEPT ![u] = [m EXCEPT !.recent = b]]
  BY <1>1
<1> QED
  BY <1>4, <1>5 DEF NodesInv

\* A handler that is done knows nothing that could be wrong.
LEMMA IdleIsSound == Sound(Idle) /\ Sound(Idle)'
  BY DEF Sound, Idle, Putting

\* The second half of Registered lists the node and changes no function.
LEMMA PutNodeSound ==
  ASSUME IdsInv, NEW h \in Handlers, PutNodeDetail(h)
  PROVE  IdsInv'
<1>1. PICK w : w = work[h]
  OBVIOUS
<1>2. w.at \in {"node", "store"}
  BY <1>1 DEF PutNodeDetail, PutNodeKnown, PutNodeMissed, PutNodeStores, Goto
<1>3. w \in Working /\ Sound(w) /\ w.req \in Request /\ w.req.op = "Registered"
  BY <1>1, <1>2 DEF IdsInv, WorkInv, Sound, Idle, Working
<1>4. Uuid(h) \in Uuids /\ w.req.host \in Hosts
  BY <1>1, <1>3, RequestFields DEF Uuid
<1>5. CASE PutNodeMissed(h)
  <2> DEFINE x == Locals("store", w.req, w.pos, w.id, w.read, w.list)
  <2>1. Sound(x)
    BY <1>3 DEF Sound, Putting, Working, Stages, Locals
  <2> QED
    BY <1>1, <1>3, <1>5, <2>1, Goes DEF PutNodeMissed, Goto
<1>6. CASE PutNodeKnown(h) \/ PutNodeStores(h)
  <2>1. node' \in [Uuids -> Host \cup {None}]
    <3>1. CASE PutNodeKnown(h)
      <4>1. PICK u : u = Uuid(h)
        OBVIOUS
      <4>2. PICK b \in BOOLEAN : b = (node[u].recent \/ node[u].host = w.req.host)
        OBVIOUS
      <4>3. node' = [node EXCEPT ![u].recent = b] /\ node[u] # None
        BY <1>1, <3>1, <4>1, <4>2 DEF PutNodeKnown
      <4> QED
        BY <1>4, <4>1, <4>3, Stamped DEF IdsInv
    <3>2. CASE PutNodeStores(h)
      <4>1. [host |-> work[h].req.host, recent |-> TRUE] \in Host
        BY <1>1, <1>4 DEF Host
      <4> QED
        BY <3>2, <4>1 DEF PutNodeStores, IdsInv, NodesInv
    <3> QED
      BY <1>6, <3>1, <3>2
  <2>2. work' = [work EXCEPT ![h] = Idle] /\ UNCHANGED <<funcVars, doomed, told, alone>>
        /\ settled' \in [Uuids -> SUBSET Names]
    <3>1. {w.req.funcs[k] : k \in DOMAIN w.req.funcs} \subseteq Names
      BY <1>3, RequestFields
    <3>2. PICK fs : fs = IF h \in alone THEN {w.req.funcs[k] : k \in DOMAIN w.req.funcs} ELSE {}
      OBVIOUS
    <3>3. settled' = [settled EXCEPT ![Uuid(h)] = fs]
      BY <1>1, <1>6, <3>2 DEF PutNodeKnown, PutNodeStores, Registered
    <3>4. settled' \in [Uuids -> SUBSET Names]
      BY <3>1, <3>2, <3>3 DEF IdsInv, NodesInv
    <3> QED
      BY <1>6, <3>4 DEF PutNodeKnown, PutNodeStores, Return
  <2>3. Grown /\ TablesInv' /\ ToldInv'
    BY <2>2, TablesStay, ToldStays DEF IdsInv
  <2>4. WorkInv'
    BY <2>2, <2>3, IdleIsSound, OthersStay DEF IdsInv
  <2>5. NodesInv'
    BY <2>1, <2>2 DEF IdsInv, NodesInv
  <2> QED
    BY <2>3, <2>4, <2>5 DEF IdsInv
<1> QED
  BY <1>5, <1>6 DEF PutNodeDetail

\* A heartbeat refreshes a node and changes no function.
LEMMA HeartbeatsSound ==
  ASSUME IdsInv, NEW h \in Handlers, NEW r \in Requests, Heartbeats(h, r)
  PROVE  IdsInv'
<1>1. r.uuid \in Uuids
  BY RegistryAssumption, RequestFields DEF Heartbeats, AtOnce
<1>2. node' \in [Uuids -> Host \cup {None}]
  <2>1. CASE node[r.uuid] = None
    BY <2>1 DEF Heartbeats, IdsInv, NodesInv
  <2>2. CASE node[r.uuid] # None
    BY <1>1, <2>2, Stamped DEF Heartbeats, IdsInv
  <2> QED
    BY <2>1, <2>2
<1>3. Grown /\ TablesInv' /\ ToldInv'
  BY TablesStay, ToldStays DEF Heartbeats, IdsInv
<1>4. WorkInv'
  BY <1>3, AllStay DEF Heartbeats, IdsInv
<1>5. NodesInv'
  BY <1>2 DEF Heartbeats, AtOnce, MarkAlone, IdsInv, NodesInv
<1> QED
  BY <1>3, <1>4, <1>5 DEF IdsInv

\* Time and the expiry of nodes leave functions and handlers alone.
LEMMA TimeSound ==
  ASSUME IdsInv, (\E u \in Uuids : Expire(u)) \/ ClearNodeExprie
  PROVE  IdsInv'
<1>1. UNCHANGED <<funcVars, work, told, alone, settled>>
  BY DEF Expire, ClearNodeExprie, ClearDeletes, ClearTests
<1>2. Grown /\ TablesInv' /\ ToldInv'
  BY <1>1, TablesStay, ToldStays DEF IdsInv
<1>3. WorkInv'
  BY <1>1, <1>2, AllStay DEF IdsInv
<1>4. ASSUME NEW u \in Uuids, Expire(u) PROVE NodesInv'
  BY <1>1, <1>4, Stamped DEF Expire, IdsInv, NodesInv
<1>5. ASSUME NEW u \in Uuids, ClearTests(u) PROVE NodesInv'
  BY <1>5 DEF ClearTests, IdsInv, NodesInv
<1>6. ASSUME ClearDeletes PROVE NodesInv'
  BY <1>6 DEF ClearDeletes, IdsInv, NodesInv
<1>7. NodesInv'
  BY <1>4, <1>5, <1>6 DEF ClearNodeExprie, IdsInv
<1> QED
  BY <1>2, <1>3, <1>7 DEF IdsInv

-----------------------------------------------------------------------------
(* GetFuncMsg and GetApiConn.                                               *)

\* An answer by name tells only what the tables hold.
LEMMA GetFuncMsgSound ==
  ASSUME IdsInv, NEW h \in Handlers, NEW r \in Requests, GetFuncMsg(h, r)
  PROVE  IdsInv'
<1>1. PICK n : n = r.name
  OBVIOUS
<1>2. PICK i : i = str[n]
  OBVIOUS
<1>3. n \in Names
  BY <1>1, RegistryAssumption, RequestFields DEF GetFuncMsg, AtOnce
<1>4. Grown /\ TablesInv'
  BY TablesStay DEF GetFuncMsg, IdsInv
<1>5. ToldInv'
  <2>1. CASE i = None
    BY <1>1, <1>2, <1>4, <2>1, ToldStays DEF GetFuncMsg, IdsInv
  <2>2. CASE i # None
    <3>1. told' = told \cup {<<n, i>>}
      BY <1>1, <1>2, <2>2 DEF GetFuncMsg
    <3>2. i \in ids' /\ data'[i].name = n
      BY <1>2, <1>3, <2>2 DEF GetFuncMsg, funcVars, IdsInv, TablesInv, NamedIsNumbered
    <3> QED
      BY <1>3, <1>4, <3>1, <3>2, OneMoreTold DEF IdsInv
  <2> QED
    BY <2>1, <2>2
<1>6. WorkInv'
  BY <1>4, AllStay DEF GetFuncMsg, IdsInv
<1>7. NodesInv'
  BY DEF GetFuncMsg, AtOnce, MarkAlone, IdsInv, NodesInv, nodeVars
<1> QED
  BY <1>4, <1>5, <1>6, <1>7 DEF IdsInv

\* GetApiConn finds a function by its name or not at all.
LEMMA FindSound ==
  ASSUME IdsInv, NEW h \in Handlers, FindMissed(h) \/ FindKnown(h)
  PROVE  IdsInv'
<1>1. PICK w : w = work[h]
  OBVIOUS
<1>2. w.at = "find"
  BY <1>1 DEF FindMissed, FindKnown
<1>3. w \in Working /\ Sound(w) /\ w.req \in Request /\ w.req.op = "GetApiConn"
  BY <1>1, <1>2 DEF IdsInv, WorkInv, Sound, Idle, Working
<1>4. Function(h) = str[w.req.name] /\ w.req.name \in Names
  BY <1>1, <1>3, RequestFields DEF Function
<1>5. alone \subseteq Handlers /\ settled \in [Uuids -> SUBSET Names]
  BY DEF IdsInv, NodesInv
<1>6. CASE FindMissed(h)
  BY <1>5, <1>6, IdleIsSound, Moves DEF FindMissed, Return
<1>7. CASE FindKnown(h)
  <2>1. PICK i : i = Function(h)
    OBVIOUS
  <2>2. i \in ids /\ i \in Ids /\ data[i].name = w.req.name
    BY <1>4, <1>7, <2>1 DEF FindKnown, IdsInv, TablesInv, NamedIsNumbered
  <2>3. PICK x : x = Locals("conns", w.req, w.pos, i, w.read, w.list)
    OBVIOUS
  <2>4. [[w EXCEPT !.at = "conns"] EXCEPT !.id = i] = x
    BY <1>3, <2>3, Forms
  <2>5. work' = [work EXCEPT ![h] = x]
    BY <1>1, <1>7, <2>1, <2>4 DEF FindKnown, At
  <2>6. Sound(x)
    BY <1>3, <2>2, <2>3 DEF Sound, Putting, Working, Stages, Locals
  <2> QED
    BY <1>5, <1>7, <2>5, <2>6, Moves DEF FindKnown
<1> QED
  BY <1>6, <1>7

\* GetApiConn takes a copy of the nodes of its function.
LEMMA ReadConnsSound ==
  ASSUME IdsInv, NEW h \in Handlers, ReadConns(h)
  PROVE  IdsInv'
<1>1. PICK w : w = work[h]
  OBVIOUS
<1>2. PICK s : s = data[w.id].node
  OBVIOUS
<1>3. w \in Working /\ Sound(w) /\ w.at = "conns"
  BY <1>1 DEF IdsInv, WorkInv, Sound, Idle, ReadConns
<1>4. s \in SUBSET Uuids
  BY <1>2, <1>3 DEF IdsInv, TablesInv, Sound, Func
<1>5. PICK x : x = Locals("look", w.req, w.pos, w.id, s, w.list)
  OBVIOUS
<1>6. [[w EXCEPT !.at = "look"] EXCEPT !.read = s] = x
  BY <1>3, <1>5, Forms
<1>7. work' = [work EXCEPT ![h] = x]
  BY <1>1, <1>2, <1>6 DEF ReadConns, At
<1>8. Sound(x)
  BY <1>3, <1>4, <1>5 DEF Sound, Putting, Working, Stages, Locals
<1> QED
  BY <1>7, <1>8, Moves DEF ReadConns, IdsInv, NodesInv

\* GetApiConn keeps of them the nodes the watcher knows.
LEMMA LookNodeSound ==
  ASSUME IdsInv, NEW h \in Handlers, NEW u \in Uuids, LookNode(h, u)
  PROVE  IdsInv'
<1>1. PICK w : w = work[h]
  OBVIOUS
<1>2. PICK s : s = w.read \ {u}
  OBVIOUS
<1>3. w \in Working /\ Sound(w) /\ w.at = "look"
  BY <1>1 DEF IdsInv, WorkInv, Sound, Idle, LookNode
<1>4. PICK e : e = [at |-> w.at, req |-> w.req, pos |-> w.pos, id |-> w.id,
                    read |-> s, list |-> w.list]
  OBVIOUS
<1>5. [w EXCEPT !.read = s] = e
  BY <1>3, <1>4 DEF Working
<1>6. PICK l : l = IF node[u] # None THEN e.list \cup {u} ELSE e.list
  OBVIOUS
<1>7. PICK x : x = Locals("look", w.req, w.pos, w.id, s, l)
  OBVIOUS
<1>8. [e EXCEPT !.list = l] = x
  BY <1>3, <1>4, <1>7 DEF Locals
<1>9. Looked(w, u) = [e EXCEPT !.list = l]
  BY <1>2, <1>5, <1>6 DEF Looked
<1>10. work' = [work EXCEPT ![h] = x]
  BY <1>1, <1>8, <1>9 DEF LookNode
<1>11. s \in SUBSET Uuids /\ l \in SUBSET Uuids
  BY <1>2, <1>3, <1>4, <1>6 DEF Working
<1>12. Sound(x)
  BY <1>3, <1>7, <1>11 DEF Sound, Putting, Working, Stages, Locals
<1> QED
  BY <1>10, <1>12, Moves DEF LookNode, IdsInv, NodesInv

\* GetApiConn writes the nodes it found back; the id keeps its name.
LEMMA WriteConnsSound ==
  ASSUME IdsInv, NEW h \in Handlers, WriteConns(h)
  PROVE  IdsInv'
<1>1. PICK w : w = work[h]
  OBVIOUS
<1>2. w \in Working /\ Sound(w) /\ w.at = "look" /\ w.req \in Request /\ w.req.op = "GetApiConn"
  BY <1>1 DEF IdsInv, WorkInv, Sound, Idle, Working, WriteConns
<1>3. w.id \in ids /\ w.id \in Drawn /\ data[w.id].name = w.req.name /\ w.req.name \in Names
      /\ w.list \in SUBSET Uuids
  BY <1>2, RequestFields DEF IdsInv, TablesInv, Sound, Working
<1>4. data' = [data EXCEPT ![w.id].node = w.list] /\ UNCHANGED <<num, ids, str>>
  BY <1>1 DEF WriteConns
<1>5. Grown /\ TablesInv'
  BY <1>3, <1>4, ListReplaced DEF IdsInv
<1>6. w.id \in ids' /\ data'[w.id].name = w.req.name
  BY <1>3, <1>5 DEF Grown
<1>7. told' = told \cup {<<w.req.name, w.id>>}
  BY <1>1 DEF WriteConns
<1>8. ToldInv'
  BY <1>3, <1>5, <1>6, <1>7, OneMoreTold DEF IdsInv
<1>9. WorkInv'
  BY <1>5, IdleIsSound, OthersStay DEF WriteConns, Return, IdsInv
<1>10. NodesInv'
  BY DEF WriteConns, IdsInv, NodesInv, nodeVars
<1> QED
  BY <1>5, <1>8, <1>9, <1>10 DEF IdsInv

-----------------------------------------------------------------------------
(* The theorems.                                                            *)

\* A new watcher: nothing is known, nothing was told.
LEMMA InitSound == Init => IdsInv
<1> SUFFICES ASSUME Init PROVE IdsInv
  OBVIOUS
<1>1. TablesInv
  BY RegistryAssumption DEF Init, TablesInv, Drawn, Ids, NamedIsNumbered
<1>2. ToldInv
  BY DEF Init, ToldInv, AnsweredIds
<1>3. NodesInv
  BY DEF Init, NodesInv
<1>4. WorkInv
  BY IdleIsSound DEF Init, WorkInv
<1> QED
  BY <1>1, <1>2, <1>3, <1>4 DEF IdsInv

\* Every step of every handler, and of time, keeps the invariant.
LEMMA NextSound == IdsInv /\ [Next]_vars => IdsInv'
<1> SUFFICES ASSUME IdsInv, [Next]_vars PROVE IdsInv'
  OBVIOUS
<1>1. ASSUME NEW h \in Handlers, Ask(h) PROVE IdsInv'
  BY <1>1, BeginSound, BeginByIdSound, HeartbeatsSound, GetFuncMsgSound DEF Ask
<1>2. ASSUME NEW h \in Handlers, PutApi(h) PROVE IdsInv'
  BY <1>2, LookupSound, ScanSound, AppendReadsSound, AppendWritesSound,
     NumberSound, StoreIdsSound, StoreStrSound DEF PutApi
<1>3. ASSUME NEW h \in Handlers, GetApiConn(h) PROVE IdsInv'
  BY <1>3, FindSound, ReadConnsSound, LookNodeSound, WriteConnsSound DEF GetApiConn
<1>4. CASE UNCHANGED vars
  <2>1. Grown /\ TablesInv' /\ ToldInv'
    BY <1>4, TablesStay, ToldStays DEF IdsInv, vars
  <2>2. WorkInv'
    BY <1>4, <2>1, AllStay DEF IdsInv, vars
  <2>3. NodesInv'
    BY <1>4 DEF IdsInv, NodesInv, vars, nodeVars
  <2> QED
    BY <2>1, <2>2, <2>3 DEF IdsInv
<1> QED
  BY <1>1, <1>2, <1>3, <1>4, PutNodeSound, TimeSound DEF Next, Handle

\* So it always holds.
LEMMA Sounds == Spec => []IdsInv
  BY InitSound, NextSound, PTL DEF Spec

\* The range of the watcher's tables, whatever its handlers do: in particular a
\* handler that found a function by its name has the id of one that can be looked
\* up, which GetIds in GetApiConn and PutApi relies on.
THEOREM Typing == Spec => []TypeOK
<1>1. ASSUME IdsInv PROVE TypeOK
  <2>1. \A h \in Handlers :
          \/ work[h].at \in {"idle", "lookup", "number", "ids", "str", "node", "store", "find"}
          \/ work[h].at \in {"scan", "append", "assign", "conns", "look"} /\ work[h].id \in ids
    <3> TAKE h \in Handlers
    <3>1. PICK w : w = work[h]
      OBVIOUS
    <3>2. Sound(w)
      BY <1>1, <3>1 DEF IdsInv, WorkInv
    <3> QED
      BY <3>1, <3>2 DEF Sound, Idle, Working, Stages, Putting
  <2>2. \A i \in Ids : data[i] # None => data[i].name \in Names /\ data[i].node \subseteq Uuids
    BY <1>1 DEF IdsInv, TablesInv, Func
  <2>3. \A u \in Uuids : node[u] # None => node[u].host \in Hosts /\ node[u].recent \in BOOLEAN
    BY <1>1 DEF IdsInv, NodesInv, Host
  <2>4. ids \subseteq Ids
    BY <1>1 DEF IdsInv, TablesInv, Drawn
  <2> QED
    BY <1>1, <2>1, <2>2, <2>3, <2>4 DEF IdsInv, TablesInv, ToldInv, NodesInv, TypeOK
<1> QED
  BY <1>1, Sounds, PTL

\* An id PutApi, GetFuncMsg or GetApiConn ever told for an api name denotes that
\* name in every later state, for any number of nodes that register the same
\* names at once.
THEOREM AnsweredIdsHold == Spec => []AnsweredIds
<1>1. IdsInv => AnsweredIds
  BY DEF IdsInv, ToldInv
<1> QED
  BY <1>1, Sounds, PTL

\* A function that can be found by its name can be found by its id, at every
\* moment of every interleaving: PutApi stores f.ids before f.str.
THEOREM NamedHaveNumbers == Spec => []NamedIsNumbered
<1>1. IdsInv => NamedIsNumbered
  BY DEF IdsInv, TablesInv
<1> QED
  BY <1>1, Sounds, PTL
=============================================================================
