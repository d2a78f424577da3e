------------------------------ MODULE Startup ------------------------------
(***************************************************************************)
(* The start of service nodes beside a running watcher (network/rpc/node.go *)
(* and watch.go): newClient dials the watcher, RunServer registers there,   *)
(* and the watcher looks the function asked for up in its funcmap.          *)
(*                                                                          *)
(* The network is as good as can be: nothing is lost, the answers to the    *)
(* frames of the dialling were read before RunServer, and a deadline passes *)
(* only for a call to which no answer can come any more.                    *)
(***************************************************************************)
EXTENDS FiniteSets

CONSTANTS
  Nodes,       \* the service nodes
  Watcher,     \* the watcher
  Builtin,     \* the functions of comm.WatchFmsg
  Registered,  \* the one among them that registers a node
  Serves,      \* the functions each node registers
  None         \* the function id 0, the empty name, no function, no connection

Processes == Nodes \cup {Watcher}

\* A function stands for its id and for its name.
VARIABLES
  ids, str,  \* funcmap.ids and funcmap.str of each process: the keys stored
  master,    \* WatchNode.master
  slaves,    \* WatchNode.slaves
  unput,     \* the rows of WatchFmsg that the watcher's runServer has still to put
  phase,     \* how far a node's start has come
  call       \* where a node's call to its master is

tableVars == <<ids, str>>
linkVars  == <<master, slaves>>
vars      == <<tableVars, linkVars, unput, phase, call>>

Init ==
  /\ ids = [p \in Processes |-> {}] /\ str = [p \in Processes |-> {}]
  /\ master = [p \in Processes |-> None] /\ slaves = [p \in Processes |-> {}]
  /\ unput = Builtin
  /\ phase = [n \in Nodes |-> "new"]
  /\ call = [n \in Nodes |-> "none"]

-----------------------------------------------------------------------------
(* funcmap                                                                  *)

\* A sync.Map's Load: the key when it is stored.
Load(table, key) == IF key \in table THEN key ELSE None

\* The conditions are the code's: the ids are asked for the id 0 only, and the
\* names for the empty name only.
Query(p, fid, name) ==
  LET byId   == IF fid = None THEN Load(ids[p], fid) ELSE None
      byName == IF name = None THEN Load(str[p], name) ELSE None
  IN  IF byId # None THEN byId ELSE byName

PutMsg(p, f) ==
  IF Query(p, f, None) # None
  THEN UNCHANGED tableVars
  ELSE /\ ids' = [ids EXCEPT ![p] = @ \cup {f}]
       /\ str' = [str EXCEPT ![p] = @ \cup {f}]

\* MasterCall and SlavesCall write to nobody.
NoWatcher(p) == master[p] = None /\ slaves[p] = {}

-----------------------------------------------------------------------------
(* runServer of the watcher                                                 *)

PutRow(f) ==
  /\ f \in unput
  /\ unput' = unput \ {f}
  /\ PutMsg(Watcher, f)
  /\ UNCHANGED <<linkVars, phase, call>>

-----------------------------------------------------------------------------
(* newClient and runServer of a node                                        *)

Goto(n, from, to) == phase[n] = from /\ phase' = [phase EXCEPT ![n] = to]
Sets(n, from, to) == call[n] = from /\ call' = [call EXCEPT ![n] = to]

\* InitWatchConfig with one watcher, which is up: its RunServer has returned.
NewClient(n) ==
  /\ unput = {}
  /\ Goto(n, "new", "client")
  /\ master' = [master EXCEPT ![n] = Watcher]
  /\ UNCHANGED <<tableVars, slaves, unput, call>>

\* WatchRegister: MasterCall writes the request.
RunServer(n) ==
  /\ Goto(n, "client", "registering")
  /\ ~ NoWatcher(n)
  /\ Sets(n, "none", "sent")
  /\ UNCHANGED <<tableVars, linkVars, unput>>

\* The rest of WatchRegister: the node's functions come back with their ids.  The
\* watcher does not call itself Main, so it is entered among the slaves.
Registers(n) ==
  /\ Goto(n, "registering", "running")
  /\ Sets(n, "answered", "none")
  /\ ids' = [ids EXCEPT ![n] = @ \cup Serves[n]]
  /\ str' = [str EXCEPT ![n] = @ \cup Serves[n]]
  /\ slaves' = [slaves EXCEPT ![n] = @ \cup {Watcher}]
  /\ UNCHANGED <<master, unput>>

\* The answer is an error: ParseResp returns 0 for it and the reader drops it.
ReadFailure(n) ==
  /\ Sets(n, "refused", "dropped")
  /\ UNCHANGED <<tableVars, linkVars, unput, phase>>

\* The context of WatchRegister ends, and runServer returns the error.
ContextDone(n) ==
  /\ Goto(n, "registering", "failed")
  /\ Sets(n, "dropped", "none")
  /\ UNCHANGED <<tableVars, linkVars, unput>>

-----------------------------------------------------------------------------
(* ParseRspByte of the watcher, in a goroutine for each request             *)

\* QueryFunc finds the function, and findCall calls it.
Found(n) ==
  /\ Query(Watcher, Registered, None) # None
  /\ Sets(n, "sent", "answered")
  /\ UNCHANGED <<tableVars, linkVars, unput, phase>>

\* QueryFunc does not find it and goes on to ask a watcher.
Missed(n) ==
  /\ Query(Watcher, Registered, None) = None
  /\ Sets(n, "sent", "asking")
  /\ UNCHANGED <<tableVars, linkVars, unput, phase>>

\* The watcher knows no watcher: QueryFunc returns nil, the answer is the error
\* "not found server api mapping in server".
AskFails(n) ==
  /\ NoWatcher(Watcher)
  /\ Sets(n, "asking", "refused")
  /\ UNCHANGED <<tableVars, linkVars, unput, phase>>

-----------------------------------------------------------------------------

Start(n)  == NewClient(n) \/ RunServer(n) \/ Registers(n) \/ ReadFailure(n) \/ ContextDone(n)
Handle(n) == Found(n) \/ Missed(n) \/ AskFails(n)

\* Every start has ended.
Finished == (\A n \in Nodes : phase[n] \in {"running", "failed"}) /\ UNCHANGED vars

Next == (\E f \in unput : PutRow(f)) \/ (\E n \in Nodes : Start(n) \/ Handle(n)) \/ Finished

Spec == Init /\ [][Next]_vars

\* RunServer of the service tests: a node that is started beside a running watcher
\* registers there, and RunServer returns no error.
Starts == \A n \in Nodes : phase[n] # "failed"
=============================================================================
