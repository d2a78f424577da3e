------------------------------ MODULE Registry ------------------------------
(***************************************************************************)
(* The watcher's registry (network/watch): the table of functions, which    *)
(* gives every api name an id and lists the nodes that serve it, and the    *)
(* table of nodes, which a timer clears of those that send no heartbeats.   *)
(*                                                                          *)
(* Every request is handled in a goroutine of its own.  The sync.Maps are   *)
(* atomic one operation at a time, the slice funcdata.node is not guarded   *)
(* at all: a handler is cut at each access to what another may change.  The *)
(* slice is a set here: neither its order nor a second copy of a node in it *)
(* decides anything.                                                        *)
(***************************************************************************)
EXTENDS Naturals, Sequences, FiniteSets

CONSTANTS
  Handlers,    \* the goroutines that handle requests
  Uuids,       \* the nodes
  Names,       \* api names
  Hosts,       \* addresses of nodes
  Requests,    \* what clients ask, see Request
  WatchInMax,  \* comm.WATCH_IN_MAX: the counter's value in a new watcher
  MaxId,       \* the bound on function ids
  None         \* no function, no node

Request == [op : {"Registered"}, uuid : Uuids, host : Hosts, funcs : Seq(Names)]
             \cup [op : {"Heartbeats"}, uuid : Uuids]
             \cup [op : {"GetFuncMsg", "GetApiConn"}, name : Names]

ASSUME RegistryAssumption ==
  /\ Requests \subseteq Request
  /\ \A r \in Requests : r.op = "Registered" => r.funcs # <<>>
  /\ WatchInMax \in Nat /\ MaxId \in Nat /\ WatchInMax <= MaxId
  /\ None \notin Uuids /\ None \notin Nat

VARIABLES
  num,      \* funcmap.num
  data,     \* the funcdata of each id: its name and the nodes its slice lists
  ids,      \* funcmap.ids: the ids that were stored
  str,      \* funcmap.str: name -> the id of its funcdata
  node,     \* nodemap.uuid: node -> its address, and whether its stamp is recent
  doomed,   \* the node ClearNodeExprie is about to delete
  work,     \* the handlers: their request, their step and their locals
  told,     \* the pairs <<name, id>> the watcher has told anyone
  alone,    \* the handlers that have had no other beside them
  settled   \* the functions of a node's last registration, if that was handled alone

funcVars == <<num, data, ids, str>>
nodeVars == <<node, doomed>>
vars     == <<funcVars, nodeVars, work, told, alone, settled>>

Ids  == (WatchInMax + 1) .. MaxId
Idle == [at |-> "idle"]

Init ==
  /\ num = WatchInMax
  /\ data = [i \in Ids |-> None]
  /\ ids = {}
  /\ str = [n \in Names |-> None]
  /\ node = [u \in Uuids |-> None]
  /\ doomed = None
  /\ work = [h \in Handlers |-> Idle]
  /\ told = {} /\ alone = {} /\ settled = [u \in Uuids |-> {}]

-----------------------------------------------------------------------------

At(h, at)         == [work[h] EXCEPT !.at = at]
Goto(h, from, to) == work[h].at = from /\ work' = [work EXCEPT ![h].at = to]
Return(h)         == work' = [work EXCEPT ![h] = Idle]

\* The locals of a handler: the place in funcs, the function it found, what it
\* read of funcdata.node, and the nodes it will answer with.
Enter(h, r, at) == work' =
  [work EXCEPT ![h] = [at |-> at, req |-> r, pos |-> 1, id |-> None, read |-> {}, list |-> {}]]
MarkAlone(h) ==
  alone' = IF \A g \in Handlers : work[g] = Idle THEN {h} ELSE {}

Begin(h, r) ==
  /\ work[h] = Idle /\ r.op \in {"Registered", "GetApiConn"}
  /\ Enter(h, r, IF r.op = "Registered" THEN "lookup" ELSE "find")
  /\ MarkAlone(h)
  /\ UNCHANGED <<funcVars, nodeVars, told, settled>>

\* GetApiConn for a function id the watcher has told.
BeginById(h, t) ==
  /\ work[h] = Idle
  /\ work' = [work EXCEPT ![h] =
       [at |-> "conns", req |-> [op |-> "GetApiConn", name |-> t[1]], pos |-> 1,
        id |-> t[2], read |-> {}, list |-> {}]]
  /\ MarkAlone(h)
  /\ UNCHANGED <<funcVars, nodeVars, told, settled>>

Name(h) == work[h].req.funcs[work[h].pos]
Uuid(h) == work[h].req.uuid

-----------------------------------------------------------------------------
(* Registered: PutApi for each function of the node.                        *)

\* GetStr(arg.Name)
LookupKnown(h) ==
  /\ work[h].at = "lookup" /\ str[Name(h)] # None
  /\ work' = [work EXCEPT ![h] = [At(h, "scan") EXCEPT !.id = str[Name(h)]]]
  /\ UNCHANGED <<funcVars, nodeVars, told, alone, settled>>

LookupMissed(h) ==
  /\ Goto(h, "lookup", "number")
  /\ str[Name(h)] = None
  /\ UNCHANGED <<funcVars, nodeVars, told, alone, settled>>

\* The end of PutApi: rsp.Funcs tells the node the id.
Told(h, i) ==
  /\ told' = told \cup {<<Name(h), i>>}
  /\ work' = IF work[h].pos < Len(work[h].req.funcs)
             THEN [work EXCEPT ![h] = [At(h, "lookup") EXCEPT !.pos = @ + 1]]
             ELSE [work EXCEPT ![h].at = "node"]

ScanPresent(h) ==
  /\ work[h].at = "scan" /\ Uuid(h) \in data[work[h].id].node
  /\ Told(h, work[h].id)
  /\ UNCHANGED <<funcVars, nodeVars, alone, settled>>

ScanAbsent(h) ==
  /\ Goto(h, "scan", "append")
  /\ Uuid(h) \notin data[work[h].id].node
  /\ UNCHANGED <<funcVars, nodeVars, told, alone, settled>>

\* data.node = append(data.node, uuid) reads the slice ...
AppendReads(h) ==
  /\ work[h].at = "append"
  /\ work' = [work EXCEPT ![h] = [At(h, "assign") EXCEPT !.read = data[work[h].id].node]]
  /\ UNCHANGED <<funcVars, nodeVars, told, alone, settled>>

\* A mutant of AppendWrites: the slice is replaced by one of the new node alone.
AppendForgets(h) ==
  /\ work[h].at = "assign"
  /\ data' = [data EXCEPT ![work[h].id].node = {Uuid(h)}]
  /\ Told(h, work[h].id)
  /\ UNCHANGED <<num, ids, str, nodeVars, alone, settled>>

\* ... and writes it.
AppendWrites(h) ==
  /\ work[h].at = "assign"
  /\ data' = [data EXCEPT ![work[h].id].node = work[h].read \cup {Uuid(h)}]
  /\ Told(h, work[h].id)
  /\ UNCHANGED <<num, ids, str, nodeVars, alone, settled>>

\* A mutant of Number: the counter is read and written in two steps; this one is
\* the read.
NumberLoads(h) ==
  /\ work[h].at = "number" /\ num < MaxId
  /\ data' = [data EXCEPT ![num + 1] = [name |-> Name(h), node |-> {Uuid(h)}]]
  /\ work' = [work EXCEPT ![h] = [At(h, "ids") EXCEPT !.id = num + 1]]
  /\ UNCHANGED <<num, ids, str, nodeVars, told, alone, settled>>

\* atomic.AddUint32(&f.num, 1); the funcdata is the handler's own as yet.
Number(h) ==
  /\ work[h].at = "number" /\ num < MaxId
  /\ num' = num + 1
  /\ data' = [data EXCEPT ![num + 1] = [name |-> Name(h), node |-> {Uuid(h)}]]
  /\ work' = [work EXCEPT ![h] = [At(h, "ids") EXCEPT !.id = num + 1]]
  /\ UNCHANGED <<ids, str, nodeVars, told, alone, settled>>

\* A mutant of StoreIds: f.str is stored in its place, before f.ids.
StoreStrFirst(h) ==
  /\ Goto(h, "ids", "str")
  /\ str' = [str EXCEPT ![Name(h)] = work[h].id]
  /\ UNCHANGED <<num, data, ids, nodeVars, told, alone, settled>>

StoreIds(h) ==
  /\ Goto(h, "ids", "str")
  /\ ids' = ids \cup {work[h].id}
  /\ UNCHANGED <<num, data, str, nodeVars, told, alone, settled>>

\* f.str.Store, whatever is there by now.  The line added to the file is read
\* only by the next watcher.
StoreStr(h) ==
  /\ work[h].at = "str"
  /\ str' = [str EXCEPT ![Name(h)] = work[h].id]
  /\ Told(h, work[h].id)
  /\ UNCHANGED <<num, data, ids, nodeVars, alone, settled>>

-----------------------------------------------------------------------------
(* Registered goes on: PutNodeDetail.                                       *)

Registered(h) ==
  settled' = [settled EXCEPT ![Uuid(h)] =
    IF h \in alone THEN {work[h].req.funcs[k] : k \in DOMAIN work[h].req.funcs} ELSE {}]

\* A known node: its stamp is renewed if it has not moved.  (The stamp is written
\* through the pointer that was loaded; the write is lost if the timer deletes the
\* node, which ClearDeletes may do after this step as well.)
PutNodeKnown(h) ==
  /\ work[h].at = "node" /\ node[Uuid(h)] # None
  /\ node' = [node EXCEPT ![Uuid(h)].recent = @ \/ node[Uuid(h)].host = work[h].req.host]
  /\ Return(h) /\ Registered(h)
  /\ UNCHANGED <<funcVars, doomed, told, alone>>

PutNodeMissed(h) ==
  /\ Goto(h, "node", "store")
  /\ node[Uuid(h)] = None
  /\ UNCHANGED <<funcVars, nodeVars, told, alone, settled>>

PutNodeStores(h) ==
  /\ work[h].at = "store"
  /\ node' = [node EXCEPT ![Uuid(h)] = [host |-> work[h].req.host, recent |-> TRUE]]
  /\ Return(h) /\ Registered(h)
  /\ UNCHANGED <<funcVars, doomed, told, alone>>

-----------------------------------------------------------------------------
(* Heartbeats, GetFuncMsg and GetApiConn.                                   *)

\* These two touch the tables once and are done.
AtOnce(h, r, op) == work[h] = Idle /\ r.op = op /\ MarkAlone(h)

\* UpHeartbeat; an unknown node gets an error and will register again.
Heartbeats(h, r) ==
  /\ AtOnce(h, r, "Heartbeats")
  /\ node' = IF node[r.uuid] = None THEN node ELSE [node EXCEPT ![r.uuid].recent = TRUE]
  /\ UNCHANGED <<funcVars, doomed, work, told, settled>>

GetFuncMsg(h, r) ==
  /\ AtOnce(h, r, "GetFuncMsg")
  /\ told' = IF str[r.name] = None THEN told ELSE told \cup {<<r.name, str[r.name]>>}
  /\ UNCHANGED <<funcVars, nodeVars, work, settled>>

Function(h) == str[work[h].req.name]

\* GetApiConn by name: GetStr(req.ApiName)
FindMissed(h) ==
  /\ work[h].at = "find" /\ Function(h) = None
  /\ Return(h)
  /\ UNCHANGED <<funcVars, nodeVars, told, alone, settled>>

FindKnown(h) ==
  /\ work[h].at = "find" /\ Function(h) # None
  /\ work' = [work EXCEPT ![h] = [At(h, "conns") EXCEPT !.id = Function(h)]]
  /\ UNCHANGED <<funcVars, nodeVars, told, alone, settled>>

\* GetIds, and for _, id := range data.node reads the slice once.
ReadConns(h) ==
  /\ work[h].at = "conns" /\ work[h].id \in ids
  /\ work' = [work EXCEPT ![h] = [At(h, "look") EXCEPT !.read = data[work[h].id].node]]
  /\ UNCHANGED <<funcVars, nodeVars, told, alone, settled>>

\* The locals once u was looked up: the answer lists the nodes that are known.
Looked(w, u) ==
  [[w EXCEPT !.read = @ \ {u}] EXCEPT !.list = IF node[u] # None THEN @ \cup {u} ELSE @]

\* GetNodeByUuid for one node of the slice after the other.
LookNode(h, u) ==
  /\ work[h].at = "look" /\ u \in work[h].read
  /\ work' = [work EXCEPT ![h] = Looked(work[h], u)]
  /\ UNCHANGED <<funcVars, nodeVars, told, alone, settled>>

\* A mutant of WriteConns: the nodes found are dropped, not the others.
WriteConnsInverted(h) ==
  /\ work[h].at = "look" /\ work[h].read = {}
  /\ data' = [data EXCEPT ![work[h].id].node = @ \ work[h].list]
  /\ Return(h)
  /\ UNCHANGED <<num, ids, str, nodeVars, told, alone, settled>>

\* data.node = ids: the nodes that were found, over what others appended since.
WriteConns(h) ==
  /\ work[h].at = "look" /\ work[h].read = {}
  /\ data' = [data EXCEPT ![work[h].id].node = work[h].list]
  /\ told' = told \cup {<<work[h].req.name, work[h].id>>}
  /\ Return(h)
  /\ UNCHANGED <<num, ids, str, nodeVars, alone, settled>>

-----------------------------------------------------------------------------
(* Time, and ClearNodeExprie on the timer.                                  *)

\* NodeConnTimeOut has passed since the last stamp of u.
Expire(u) ==
  /\ node[u] # None /\ node[u].recent
  /\ node' = [node EXCEPT ![u].recent = FALSE]
  /\ UNCHANGED <<funcVars, doomed, work, told, alone, settled>>

ClearTests(u) ==
  /\ doomed = None /\ node[u] # None /\ ~ node[u].recent
  /\ doomed' = u
  /\ UNCHANGED <<funcVars, node, work, told, alone, settled>>

\* uuid.Delete(key), also when a heartbeat came in since the test.
ClearDeletes ==
  /\ doomed # None
  /\ node' = [node EXCEPT ![doomed] = None]
  /\ doomed' = None
  /\ UNCHANGED <<funcVars, work, told, alone, settled>>

-----------------------------------------------------------------------------

PutApi(h) == \/ LookupKnown(h) \/ LookupMissed(h) \/ ScanPresent(h) \/ ScanAbsent(h)
             \/ AppendReads(h) \/ AppendWrites(h)
             \/ Number(h) \/ StoreIds(h) \/ StoreStr(h)
PutNodeDetail(h) == PutNodeKnown(h) \/ PutNodeMissed(h) \/ PutNodeStores(h)
GetApiConn(h) == \/ FindMissed(h) \/ FindKnown(h) \/ ReadConns(h)
                 \/ (\E u \in Uuids : LookNode(h, u)) \/ WriteConns(h)
Handle(h) == PutApi(h) \/ PutNodeDetail(h) \/ GetApiConn(h)
Ask(h)    == \/ \E r \in Requests : Begin(h, r) \/ Heartbeats(h, r) \/ GetFuncMsg(h, r)
             \/ \E t \in told : BeginById(h, t)
ClearNodeExprie == ClearDeletes \/ \E u \in Uuids : ClearTests(u)

Next == \/ \E h \in Handlers : Ask(h) \/ Handle(h)
        \/ \E u \in Uuids : Expire(u)
        \/ ClearNodeExprie

Spec == Init /\ [][Next]_vars

-----------------------------------------------------------------------------

\* The range of the tables; a handler that found a function
\* has the id of one that can be looked up.
TypeOK ==
  /\ num \in WatchInMax .. MaxId
  /\ DOMAIN data = Ids
  /\ \A i \in Ids : data[i] # None => data[i].name \in Names /\ data[i].node \subseteq Uuids
  /\ ids \subseteq Ids
  /\ str \in [Names -> Ids \cup {None}]
  /\ \A u \in Uuids : node[u] # None => node[u].host \in Hosts /\ node[u].recent \in BOOLEAN
  /\ doomed \in Uuids \cup {None}
  /\ \A h \in Handlers :
       \/ work[h].at \in {"idle", "lookup", "number", "ids", "str", "node", "store", "find"}
       \/ work[h].at \in {"scan", "append", "assign", "conns", "look"} /\ work[h].id \in ids
  /\ told \subseteq Names \X Ids
  /\ alone \subseteq Handlers /\ settled \in [Uuids -> SUBSET Names]

\* PutApi, GetFuncMsg: an id that was ever told for a name denotes that name,
\* for every later request, though handlers race for the same names: calls
\* carry nothing but the id.
AnsweredIds ==
  \A t \in told : t[2] \in ids /\ data[t[2]].name = t[1]

\* f.ids is stored before f.str: a function that can be found by its name can be
\* found by its id, which GetApiConn relies on.
NamedIsNumbered ==
  \A n \in Names : str[n] # None => str[n] \in ids /\ data[str[n]].name = n

Serves(u, n) == str[n] # None /\ u \in data[str[n]].node
Functions(u) ==
  UNION {{r.funcs[k] : k \in DOMAIN r.funcs} :
           r \in {q \in Requests : q.op = "Registered" /\ q.uuid = u}}
Known(u) == node[u] # None /\ node[u].recent
Quiet    == \A h \in Handlers : work[h] = Idle

\* GetApiConn against Registered: a node whose last registration had the watcher
\* to itself is listed under the functions it registered for as long as its
\* heartbeats come in, whatever requests of others run side by side afterwards.
KeptWhenAlone ==
  \A u \in Uuids : Known(u) => \A n \in settled[u] : Serves(u, n)

\* network/rpc/README.md: the watcher keeps a node that registered and records it for
\* other nodes to find.  When no request is being handled, a node the watcher
\* knows, and hears from, is listed under its functions.
Discoverable ==
  Quiet => \A u \in Uuids : Known(u) => \A n \in Functions(u) : Serves(u, n)
=============================================================================
