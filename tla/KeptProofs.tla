----------------------------- MODULE KeptProofs -----------------------------
(***************************************************************************)
(* The watcher keeps the functions of a node that registered undisturbed,   *)
(* whatever requests follow and however they interleave.                    *)
(*                                                                          *)
(* The lists of nodes are read and written in separate steps, so a writer   *)
(* may put back what it read long ago.  The argument: from the moment the   *)
(* node is settled, whoever holds a copy of one of its lists holds a copy   *)
(* with the node in it, and nobody is about to give one of its functions a  *)
(* new id.                                                                  *)
(***************************************************************************)
EXTENDS RegistryProofs

\* A registration that was undisturbed so far: the functions it has put are
\* there, and the row it works on is the one its name leads to.
Puts(w) ==
  /\ \A k \in DOMAIN w.req.funcs :
       (k < w.pos \/ w.at \in {"node", "store"}) => Serves(w.req.uuid, w.req.funcs[k])
  /\ w.at \in {"scan", "append", "assign"} => w.id = str[w.req.funcs[w.pos]]
  /\ w.at \in {"ids", "str"} => w.req.uuid \in data[w.id].node

AloneInv ==
  \A h \in alone : work[h] # Idle =>
    /\ \A o \in Handlers \ {h} : work[o] = Idle
    /\ work[h].req.op = "Registered" => Puts(work[h])

\* A handler about to give the name n a new id.
Adds(w, n) == w.at \in {"number", "ids", "str"} /\ w.req.funcs[w.pos] = n

\* A handler that may write the list of n has u in what it will write.
Carries(w, u, n) ==
  w.at \in {"assign", "look"} /\ w.id = str[n] =>
    u \in w.read \/ (w.at = "look" /\ u \in w.list)

Kept(u, n) ==
  /\ str[n] # None
  /\ \A h \in Handlers : ~ Adds(work[h], n)
  /\ node[u] # None =>
       u \in data[str[n]].node /\ \A h \in Handlers : Carries(work[h], u, n)

KeptInv == \A u \in Uuids : \A n \in settled[u] : Kept(u, n)

AllKept == IdsInv /\ AloneInv /\ KeptInv

\* A registration up to and with the function it works on.
Done(w) == \A k \in DOMAIN w.req.funcs : k <= w.pos => Serves(w.req.uuid, w.req.funcs[k])

\* A step that spares what settled nodes have: in the tables, and in the locals
\* x the step leaves its handler with.
SparesTables ==
  \A u \in Uuids : \A n \in settled[u] : Kept(u, n) =>
    str'[n] = str[n] /\ (node[u] # None => u \in data'[str[n]].node)
SparesLocals(x) ==
  \A u \in Uuids : \A n \in settled[u] : Kept(u, n) =>
    ~ Adds(x, n) /\ (node[u] # None => Carries(x, u, n)')

-----------------------------------------------------------------------------

\* A handler at work is no idle one, and its locals are in their range.
LEMMA AtWork ==
  ASSUME IdsInv, NEW h \in Handlers, work[h] # Idle
  PROVE  work[h] \in Working /\ work[h].req \in Request
  BY DEF IdsInv, WorkInv, Working

\* The end of PutApi: the next function, or the node.
LEMMA ToldForm ==
  ASSUME IdsInv, NEW h \in Handlers, NEW CONSTANT i, work[h].at \in Putting, Told(h, i)
  PROVE  \E x : /\ work' = [work EXCEPT ![h] = x] /\ x.req = work[h].req
                /\ \/ x.at = "lookup" /\ x.pos = work[h].pos + 1
                   \/ x.at = "node" /\ work[h].pos >= Len(work[h].req.funcs)
<1>1. PICK w : w = work[h]
  OBVIOUS
<1>2. w \in Working /\ w.req \in Request /\ w.req.op = "Registered"
      /\ w.pos \in Nat /\ w.req.funcs \in Seq(Names)
  BY <1>1, NameTyped, RequestFields DEF IdsInv, WorkInv, Sound, Working
<1>3. CASE w.pos < Len(w.req.funcs)
  <2>1. PICK p : p = [w EXCEPT !.at = "lookup"].pos + 1
    OBVIOUS
  <2>2. PICK x : x = Locals("lookup", w.req, p, w.id, w.read, w.list)
    OBVIOUS
  <2>3. [[w EXCEPT !.at = "lookup"] EXCEPT !.pos = p] = x
    BY <1>2, <2>2, Forms
  <2>4. work' = [work EXCEPT ![h] = x]
    BY <1>1, <1>3, <2>1, <2>3 DEF Told, At
  <2>5. p = w.pos + 1
    BY <1>2, <2>1 DEF Working
  <2>6. x.req = work[h].req /\ x.at = "lookup" /\ x.pos = work[h].pos + 1
    BY <1>1, <2>2, <2>5 DEF Locals
  <2> QED
    BY <2>4, <2>6
<1>4. CASE ~ (w.pos < Len(w.req.funcs))
  <2>1. PICK x : x = Locals("node", w.req, w.pos, w.id, w.read, w.list)
    OBVIOUS
  <2>2. [w EXCEPT !.at = "node"] = x
    BY <1>2, <2>1, Forms
  <2>3. work' = [work EXCEPT ![h] = x]
    BY <1>1, <1>4, <2>2 DEF Told
  <2>4. w.pos >= Len(w.req.funcs)
    BY <1>2, <1>4
  <2>5. x.req = work[h].req /\ x.at = "node" /\ work[h].pos >= Len(work[h].req.funcs)
    BY <1>1, <2>1, <2>4 DEF Locals
  <2> QED
    BY <2>3, <2>5
<1> QED
  BY <1>3, <1>4

\* A step of a handler of its own locals and the tables: whoever is alone stays so.
LEMMA AloneByStep ==
  ASSUME IdsInv, AloneInv, NEW h \in Handlers, NEW CONSTANT x, work[h] # Idle,
         work' = [work EXCEPT ![h] = x], UNCHANGED alone,
         h \in alone /\ x # Idle /\ x.req.op = "Registered" => Puts(x)'
  PROVE  AloneInv'
<1> SUFFICES ASSUME NEW g \in alone', work'[g] # Idle
             PROVE  /\ \A o \in Handlers \ {g} : work'[o] = Idle
                    /\ work'[g].req.op = "Registered" => Puts(work[g])'
  BY DEF AloneInv
<1>1. g \in Handlers /\ g \in alone /\ work \in [Handlers -> {Idle} \cup Working]
  BY DEF IdsInv, NodesInv, WorkInv
<1>2. g = h
  <2>1. SUFFICES ASSUME g # h PROVE FALSE
    OBVIOUS
  <2>2. work[g] # Idle
    BY <1>1, <2>1
  <2>3. work[h] = Idle
    BY <1>1, <2>1, <2>2 DEF AloneInv
  <2> QED
    BY <2>3
<1>3. \A o \in Handlers \ {g} : work'[o] = Idle
  BY <1>1, <1>2 DEF AloneInv
<1>4. work'[g] = x
  BY <1>1, <1>2
<1>5. ASSUME x.req.op = "Registered" PROVE Puts(work[g])'
  <2>1. Puts(x)'
    BY <1>1, <1>2, <1>4, <1>5
  <2> QED
    BY <1>4, <2>1 DEF Puts
<1> QED
  BY <1>3, <1>4, <1>5

\* The same step, for the nodes that are settled: what it must not spoil.
LEMMA KeptByStep ==
  ASSUME IdsInv, KeptInv, NEW h \in Handlers, NEW CONSTANT x,
         work' = [work EXCEPT ![h] = x], UNCHANGED <<settled, node>>,
         SparesTables, SparesLocals(x)
  PROVE  KeptInv'
<1> SUFFICES ASSUME NEW u \in Uuids, NEW n \in settled[u] PROVE Kept(u, n)'
  BY DEF KeptInv
<1>1. Kept(u, n)
  BY DEF KeptInv
<1>2. /\ str'[n] = str[n] /\ ~ Adds(x, n)
      /\ node[u] # None => u \in data'[str[n]].node /\ Carries(x, u, n)'
  BY <1>1 DEF SparesTables, SparesLocals
<1>3. ASSUME NEW g \in Handlers
      PROVE  ~ Adds(work'[g], n) /\ (node[u] # None => Carries(work[g], u, n)')
  <2>1. work'[g] = IF g = h THEN x ELSE work[g]
    BY DEF IdsInv, WorkInv
  <2>2. CASE g = h
    BY <1>2, <2>1, <2>2 DEF Carries
  <2>3. CASE g # h
    BY <1>1, <1>2, <2>1, <2>3 DEF Kept, Carries
  <2> QED
    BY <2>2, <2>3
<1> QED
  BY <1>1, <1>2, <1>3 DEF Kept, Adds

\* The end of PutApi, when the function it was about is in its place.
LEMMA TellsKept ==
  ASSUME AllKept, NEW h \in Handlers, NEW CONSTANT w, w = work[h], w.at \in Putting,
         NEW CONSTANT i, Told(h, i), UNCHANGED <<alone, settled, node>>,
         h \in alone => Done(w)', SparesTables
  PROVE  AloneInv' /\ KeptInv'
<1>1. w = work[h]
  OBVIOUS
<1>2. w \in Working /\ w.req \in Request /\ w.req.op = "Registered"
      /\ w.pos \in Nat /\ w.req.funcs \in Seq(Names) /\ w # Idle
  BY <1>1, NameTyped, RequestFields DEF AllKept, IdsInv, WorkInv, Sound, Working, Idle, Putting
<1>3. PICK x : /\ work' = [work EXCEPT ![h] = x] /\ x.req = w.req
               /\ \/ x.at = "lookup" /\ x.pos = w.pos + 1
                  \/ x.at = "node" /\ w.pos >= Len(w.req.funcs)
  BY <1>1, ToldForm DEF AllKept
<1>4. ASSUME h \in alone PROVE Puts(x)'
  <2>1. ASSUME NEW k \in DOMAIN w.req.funcs, k < x.pos \/ x.at \in {"node", "store"}
        PROVE  k <= w.pos
    BY <1>2, <1>3, <2>1
  <2> QED
    BY <1>3, <1>4, <2>1 DEF Puts, Done
<1>5. AloneInv'
  BY <1>1, <1>2, <1>3, <1>4, AloneByStep DEF AllKept
<1>6. KeptInv'
  <2>1. SparesLocals(x)
    BY <1>3 DEF SparesLocals, Adds, Carries
  <2> QED
    BY <1>3, <2>1, KeptByStep DEF AllKept
<1> QED
  BY <1>5, <1>6

-----------------------------------------------------------------------------
(* PutApi.                                                                  *)

\* A name that is there is never given a new id.
LEMMA LookupKept ==
  ASSUME AllKept, NEW h \in Handlers, LookupKnown(h) \/ LookupMissed(h)
  PROVE  AloneInv' /\ KeptInv'
<1>1. PICK w : w = work[h]
  OBVIOUS
<1>2. w.at = "lookup" /\ w # Idle
  BY <1>1 DEF LookupKnown, LookupMissed, Goto, Idle
<1>3. w \in Working /\ Name(h) = w.req.funcs[w.pos]
  BY <1>1, <1>2, AtWork DEF AllKept, Name
<1>4. UNCHANGED <<funcVars, node, alone, settled>>
  BY DEF LookupKnown, LookupMissed, nodeVars
<1>5. PICK i : i = str[Name(h)]
  OBVIOUS
<1>6. PICK x : /\ work' = [work EXCEPT ![h] = x] /\ x.req = w.req /\ x.pos = w.pos
               /\ \/ x.at = "scan" /\ x.id = i
                  \/ x.at = "number" /\ i = None
  <2>1. CASE LookupKnown(h)
    <3>1. PICK x : x = Locals("scan", w.req, w.pos, i, w.read, w.list)
      OBVIOUS
    <3>2. work' = [work EXCEPT ![h] = [[w EXCEPT !.at = "scan"] EXCEPT !.id = i]]
      BY <1>1, <1>5, <2>1 DEF LookupKnown, At
    <3>3. [[w EXCEPT !.at = "scan"] EXCEPT !.id = i] = x
      BY <1>3, <3>1, Forms
    <3>4. x.req = w.req /\ x.pos = w.pos /\ x.at = "scan" /\ x.id = i
      BY <3>1 DEF Locals
    <3> QED
      BY <3>2, <3>3, <3>4
  <2>2. CASE LookupMissed(h)
    <3>1. PICK x : x = Locals("number", w.req, w.pos, w.id, w.read, w.list)
      OBVIOUS
    <3>2. work' = [work EXCEPT ![h] = x]
      BY <1>1, <1>3, <2>2, <3>1, Forms DEF LookupMissed, Goto
    <3>3. x.req = w.req /\ x.pos = w.pos /\ x.at = "number" /\ i = None
      BY <1>5, <2>2, <3>1 DEF Locals, LookupMissed
    <3> QED
      BY <3>2, <3>3
  <2> QED
    BY <2>1, <2>2
<1>7. ASSUME h \in alone, w.req.op = "Registered" PROVE Puts(x)'
  <2>1. Puts(w)
    BY <1>1, <1>2, <1>7 DEF AllKept, AloneInv
  <2> QED
    BY <1>2, <1>3, <1>4, <1>5, <1>6, <2>1 DEF Puts, Serves, funcVars
<1>8. AloneInv'
  BY <1>1, <1>2, <1>4, <1>6, <1>7, AloneByStep DEF AllKept
<1>9. SparesTables /\ SparesLocals(x)
  BY <1>3, <1>4, <1>5, <1>6 DEF SparesTables, SparesLocals, Kept, Adds, Carries, funcVars
<1> QED
  BY <1>4, <1>6, <1>8, <1>9, KeptByStep DEF AllKept

\* PutApi finds the node in the list of the function, or not: nothing is written.
LEMMA ScanKept ==
  ASSUME AllKept, NEW h \in Handlers, ScanPresent(h) \/ ScanAbsent(h)
  PROVE  AloneInv' /\ KeptInv'
<1>1. PICK w : w = work[h]
  OBVIOUS
<1>2. w.at = "scan" /\ w # Idle /\ w.at \in Putting
  BY <1>1 DEF ScanPresent, ScanAbsent, Goto, Idle, Putting
<1>3. w \in Working /\ w.pos \in Nat /\ w.pos \in DOMAIN w.req.funcs /\ w.req.op = "Registered"
      /\ w.req.funcs \in Seq(Names) /\ w.id \in Ids
  BY <1>1, <1>2, AtWork, RequestFields DEF AllKept, IdsInv, WorkInv, Sound, Working, Drawn
<1>4. UNCHANGED <<funcVars, node, alone, settled>>
  BY DEF ScanPresent, ScanAbsent, nodeVars
<1>5. h \in alone => Puts(w)
  BY <1>1, <1>2, <1>3 DEF AllKept, AloneInv
<1>6. CASE ScanPresent(h)
  <2>1. Told(h, w.id) /\ w.req.uuid \in data[w.id].node
    BY <1>1, <1>6 DEF ScanPresent, Uuid
  <2>2. ASSUME h \in alone, NEW k \in DOMAIN w.req.funcs, k <= w.pos
        PROVE  Serves(w.req.uuid, w.req.funcs[k])'
    <3>1. CASE k = w.pos
      BY <1>2, <1>3, <1>4, <1>5, <2>1, <2>2, <3>1, RegistryAssumption
         DEF Puts, Serves, funcVars, Ids
    <3>2. CASE k < w.pos
      BY <1>4, <1>5, <2>2, <3>2 DEF Puts, Serves, funcVars
    <3> QED
      BY <1>3, <2>2, <3>1, <3>2
  <2>3. (h \in alone => Done(w)') /\ SparesTables
    BY <1>4, <2>2 DEF Done, SparesTables, Kept, funcVars
  <2> QED
    BY <1>1, <1>2, <1>4, <2>1, <2>3, TellsKept
<1>7. CASE ScanAbsent(h)
  <2>1. PICK x : x = Locals("append", w.req, w.pos, w.id, w.read, w.list)
    OBVIOUS
  <2>2. work' = [work EXCEPT ![h] = x]
    BY <1>1, <1>3, <1>7, <2>1, Forms DEF ScanAbsent, Goto
  <2>3. x.req = w.req /\ x.pos = w.pos /\ x.at = "append" /\ x.id = w.id
    BY <2>1 DEF Locals
  <2>4. h \in alone => Puts(x)'
    BY <1>2, <1>4, <1>5, <2>3 DEF Puts, Serves, funcVars
  <2>5. AloneInv'
    BY <1>1, <1>2, <1>4, <2>2, <2>4, AloneByStep DEF AllKept
  <2>6. SparesTables /\ SparesLocals(x)
    BY <1>4, <2>3 DEF SparesTables, SparesLocals, Kept, Adds, Carries, funcVars
  <2> QED
    BY <1>4, <2>2, <2>5, <2>6, KeptByStep DEF AllKept
<1> QED
  BY <1>6, <1>7

\* PutApi copies the list it will append to: a settled node is in the copy.
LEMMA AppendReadsKept ==
  ASSUME AllKept, NEW h \in Handlers, AppendReads(h)
  PROVE  AloneInv' /\ KeptInv'
<1>1. PICK w : w = work[h]
  OBVIOUS
<1>2. PICK s : s = data[w.id].node
  OBVIOUS
<1>3. w.at = "append" /\ w # Idle
  BY <1>1 DEF AppendReads, Idle
<1>4. w \in Working
  BY <1>1, <1>3, AtWork DEF AllKept
<1>5. UNCHANGED <<funcVars, node, alone, settled>>
  BY DEF AppendReads, nodeVars
<1>6. PICK x : x = Locals("assign", w.req, w.pos, w.id, s, w.list)
  OBVIOUS
<1>7. [[w EXCEPT !.at = "assign"] EXCEPT !.read = s] = x
  BY <1>4, <1>6, Forms
<1>8. work' = [work EXCEPT ![h] = [[w EXCEPT !.at = "assign"] EXCEPT !.read = s]]
  BY <1>1, <1>2 DEF AppendReads, At
<1>9. work' = [work EXCEPT ![h] = x]
  BY <1>7, <1>8
<1>10. x.req = w.req /\ x.pos = w.pos /\ x.at = "assign" /\ x.id = w.id /\ x.read = s
  BY <1>6 DEF Locals
<1>11. h \in alone /\ w.req.op = "Registered" => Puts(w)
  BY <1>1, <1>3 DEF AllKept, AloneInv
<1>12. h \in alone /\ x.req.op = "Registered" => Puts(x)'
  BY <1>3, <1>5, <1>10, <1>11 DEF Puts, Serves, funcVars
<1>13. AloneInv'
  BY <1>1, <1>3, <1>5, <1>9, <1>12, AloneByStep DEF AllKept
<1>14. SparesTables /\ SparesLocals(x)
  BY <1>2, <1>5, <1>10 DEF SparesTables, SparesLocals, Kept, Adds, Carries, funcVars
<1> QED
  BY <1>5, <1>9, <1>13, <1>14, KeptByStep DEF AllKept

\* PutApi writes the list it read with the node in addition.
LEMMA AppendWritesKept ==
  ASSUME AllKept, NEW h \in Handlers, AppendWrites(h)
  PROVE  AloneInv' /\ KeptInv'
<1>1. PICK w : w = work[h]
  OBVIOUS
<1>2. PICK s : s = w.read \cup {w.req.uuid}
  OBVIOUS
<1>3. w.at = "assign" /\ w # Idle /\ w.at \in Putting
  BY <1>1 DEF AppendWrites, Idle, Putting
<1>4. w \in Working /\ w.pos \in Nat /\ w.pos \in DOMAIN w.req.funcs /\ w.req.op = "Registered"
      /\ w.req.funcs \in Seq(Names) /\ w.id \in Drawn
  BY <1>1, <1>3, AtWork, RequestFields DEF AllKept, IdsInv, WorkInv, Sound, Working
<1>5. UNCHANGED <<str, node, alone, settled>> /\ data' = [data EXCEPT ![w.id].node = s]
      /\ Told(h, w.id)
  BY <1>1, <1>2 DEF AppendWrites, nodeVars, Uuid
<1>6. w.id \in Ids /\ data[w.id] \in Func /\ data \in [Ids -> Func \cup {None}]
  BY <1>4 DEF AllKept, IdsInv, TablesInv, Drawn
<1>7. data'[w.id].node = s
  <2>1. PICK f : f = data[w.id]
    OBVIOUS
  <2>2. data'[w.id] = [f EXCEPT !.node = s]
    BY <1>5, <1>6, <2>1
  <2> QED
    BY <1>6, <2>1, <2>2 DEF Func
<1>8. \A i : i # w.id => data'[i] = data[i]
  BY <1>5, <1>6
<1>9. h \in alone => Done(w)'
  <2> SUFFICES ASSUME h \in alone, NEW k \in DOMAIN w.req.funcs, k <= w.pos
               PROVE  Serves(w.req.uuid, w.req.funcs[k])'
    BY DEF Done
  <2>1. Puts(w)
    BY <1>1, <1>3, <1>4 DEF AllKept, AloneInv
  <2>2. PICK n : n = w.req.funcs[k]
    OBVIOUS
  <2>3. str[n] # None /\ (str[n] = w.id \/ w.req.uuid \in data[str[n]].node)
    <3>1. CASE k = w.pos
      BY <1>3, <1>6, <2>1, <2>2, <3>1, RegistryAssumption DEF Puts, Ids
    <3>2. CASE k < w.pos
      BY <2>1, <2>2, <3>2 DEF Puts, Serves
    <3> QED
      BY <1>4, <3>1, <3>2
  <2> QED
    BY <1>2, <1>5, <1>7, <1>8, <2>2, <2>3 DEF Serves
<1>10. SparesTables
  BY <1>1, <1>2, <1>3, <1>5, <1>7, <1>8 DEF SparesTables, Kept, Carries
<1> QED
  BY <1>1, <1>3, <1>5, <1>9, <1>10, TellsKept

\* A new row is nobody's but its own handler's.
LEMMA NumberKept ==
  ASSUME AllKept, NEW h \in Handlers, Number(h)
  PROVE  AloneInv' /\ KeptInv'
<1>1. PICK w : w = work[h]
  OBVIOUS
<1>2. PICK i : i = num + 1
  OBVIOUS
<1>3. w.at = "number" /\ w # Idle /\ w.at \in Putting
  BY <1>1 DEF Number, Idle, Putting
<1>4. w \in Working /\ w.req.op = "Registered" /\ w.pos \in DOMAIN w.req.funcs
      /\ w.req.funcs \in Seq(Names)
  BY <1>1, <1>3, AtWork, RequestFields DEF AllKept, IdsInv, WorkInv, Sound
<1>5. UNCHANGED <<str, node, alone, settled>>
      /\ data' = [data EXCEPT ![i] = [name |-> Name(h), node |-> {w.req.uuid}]]
  BY <1>1, <1>2 DEF Number, nodeVars, Uuid
<1>6. num \in Nat /\ i \in Ids /\ i \notin Drawn
  BY <1>2, RegistryAssumption DEF Number, AllKept, IdsInv, TablesInv, Drawn, Ids
<1>7. \A n \in Names : str[n] # None => str[n] # i
  BY <1>6 DEF AllKept, IdsInv, TablesInv, NamedIsNumbered
<1>8. data'[i].node = {w.req.uuid} /\ \A j : j # i => data'[j] = data[j]
  BY <1>5, <1>6 DEF AllKept, IdsInv, TablesInv
<1>9. PICK x : x = Locals("ids", w.req, w.pos, i, w.read, w.list)
  OBVIOUS
<1>10. [[w EXCEPT !.at = "ids"] EXCEPT !.id = i] = x
  BY <1>4, <1>9, Forms
<1>11. work' = [work EXCEPT ![h] = x]
  BY <1>1, <1>2, <1>10 DEF Number, At
<1>12. x.req = w.req /\ x.pos = w.pos /\ x.at = "ids" /\ x.id = i
  BY <1>9 DEF Locals
<1>13. h \in alone => Puts(x)'
  <2>1. h \in alone => Puts(w)
    BY <1>1, <1>3, <1>4 DEF AllKept, AloneInv
  <2>2. \A k \in DOMAIN w.req.funcs : w.req.funcs[k] \in Names
    BY <1>4
  <2> QED
    BY <1>3, <1>5, <1>7, <1>8, <1>12, <2>1, <2>2 DEF Puts, Serves
<1>14. AloneInv'
  BY <1>1, <1>3, <1>5, <1>11, <1>13, AloneByStep DEF AllKept
<1>15. SparesTables
  <2>1. \A u \in Uuids : settled[u] \subseteq Names
    BY DEF AllKept, IdsInv, NodesInv
  <2> QED
    BY <1>5, <1>7, <1>8, <2>1 DEF SparesTables, Kept
<1>16. SparesLocals(x)
  BY <1>1, <1>3, <1>12 DEF SparesLocals, Kept, Adds, Carries
<1> QED
  BY <1>5, <1>11, <1>14, <1>15, <1>16, KeptByStep DEF AllKept

\* The id is stored: neither names nor lists change.
LEMMA StoreIdsKept ==
  ASSUME AllKept, NEW h \in Handlers, StoreIds(h)
  PROVE  AloneInv' /\ KeptInv'
<1>1. PICK w : w = work[h]
  OBVIOUS
<1>2. w.at = "ids" /\ w # Idle
  BY <1>1 DEF StoreIds, Goto, Idle
<1>3. w \in Working
  BY <1>1, <1>2, AtWork DEF AllKept
<1>4. UNCHANGED <<str, data, node, alone, settled>>
  BY DEF StoreIds, nodeVars
<1>5. PICK x : x = Locals("str", w.req, w.pos, w.id, w.read, w.list)
  OBVIOUS
<1>6. [w EXCEPT !.at = "str"] = x
  BY <1>3, <1>5, Forms
<1>7. work' = [work EXCEPT ![h] = x]
  BY <1>1, <1>6 DEF StoreIds, Goto
<1>8. x.req = w.req /\ x.pos = w.pos /\ x.at = "str" /\ x.id = w.id
  BY <1>5 DEF Locals
<1>9. h \in alone /\ x.req.op = "Registered" => Puts(x)'
  <2>1. h \in alone /\ w.req.op = "Registered" => Puts(w)
    BY <1>1, <1>2 DEF AllKept, AloneInv
  <2> QED
    BY <1>2, <1>4, <1>8, <2>1 DEF Puts, Serves
<1>10. AloneInv'
  BY <1>1, <1>2, <1>4, <1>7, <1>9, AloneByStep DEF AllKept
<1>11. SparesTables /\ SparesLocals(x)
  BY <1>1, <1>2, <1>4, <1>8 DEF SparesTables, SparesLocals, Kept, Adds, Carries
<1> QED
  BY <1>4, <1>7, <1>10, <1>11, KeptByStep DEF AllKept

\* The name gets the id of the new row: it had none, or nobody settled has it.
LEMMA StoreStrKept ==
  ASSUME AllKept, NEW h \in Handlers, StoreStr(h)
  PROVE  AloneInv' /\ KeptInv'
<1>1. PICK w : w = work[h]
  OBVIOUS
<1>2. w.at = "str" /\ w # Idle /\ w.at \in Putting
  BY <1>1 DEF StoreStr, Idle, Putting
<1>3. w \in Working /\ w.pos \in Nat /\ w.pos \in DOMAIN w.req.funcs /\ w.req.op = "Registered"
      /\ w.req.funcs \in Seq(Names) /\ w.id \in Drawn
  BY <1>1, <1>2, AtWork, RequestFields DEF AllKept, IdsInv, WorkInv, Sound, Working
<1>4. PICK n : n = w.req.funcs[w.pos]
  OBVIOUS
<1>5. UNCHANGED <<data, node, alone, settled>> /\ str' = [str EXCEPT ![n] = w.id]
      /\ Told(h, w.id)
  BY <1>1, <1>4 DEF StoreStr, nodeVars, Name
<1>6. n \in Names /\ str \in [Names -> Ids \cup {None}] /\ w.id # None
  BY <1>3, <1>4, RegistryAssumption DEF AllKept, IdsInv, TablesInv, Drawn, Ids
<1>7. str'[n] = w.id /\ \A m : m # n => str'[m] = str[m]
  BY <1>5, <1>6
<1>8. h \in alone => Done(w)'
  <2> SUFFICES ASSUME h \in alone, NEW k \in DOMAIN w.req.funcs, k <= w.pos
               PROVE  Serves(w.req.uuid, w.req.funcs[k])'
    BY DEF Done
  <2>1. Puts(w)
    BY <1>1, <1>2, <1>3 DEF AllKept, AloneInv
  <2>2. CASE w.req.funcs[k] = n
    BY <1>2, <1>5, <1>6, <1>7, <2>1, <2>2 DEF Puts, Serves
  <2>3. CASE w.req.funcs[k] # n
    <3>1. k < w.pos
      BY <1>3, <1>4, <2>3
    <3> QED
      BY <1>5, <1>7, <2>1, <2>3, <3>1 DEF Puts, Serves
  <2> QED
    BY <2>2, <2>3
<1>9. SparesTables
  BY <1>1, <1>2, <1>4, <1>5, <1>7 DEF SparesTables, Kept, Adds
<1> QED
  BY <1>1, <1>2, <1>5, <1>8, <1>9, TellsKept

-----------------------------------------------------------------------------
(* The table of nodes, and GetApiConn.                                      *)

\* A node is settled when the registration that ends was undisturbed: then all its
\* functions are in place and nobody else is at work.
LEMMA PutNodeKept ==
  ASSUME AllKept, NEW h \in Handlers, PutNodeDetail(h)
  PROVE  AloneInv' /\ KeptInv'
<1>1. PICK w : w = work[h]
  OBVIOUS
<1>2. w.at \in {"node", "store"} /\ w # Idle
  BY <1>1 DEF PutNodeDetail, PutNodeKnown, PutNodeMissed, PutNodeStores, Goto, Idle
<1>3. w \in Working /\ w.req.op = "Registered" /\ w.req.uuid \in Uuids
  BY <1>1, <1>2, AtWork, RequestFields DEF AllKept, IdsInv, WorkInv, Sound
<1>4. h \in alone => Puts(w) /\ \A o \in Handlers \ {h} : work[o] = Idle
  BY <1>1, <1>2, <1>3 DEF AllKept, AloneInv
<1>5. CASE PutNodeMissed(h)
  <2>1. UNCHANGED <<funcVars, node, alone, settled>>
    BY <1>5 DEF PutNodeMissed, nodeVars
  <2>2. PICK x : x = Locals("store", w.req, w.pos, w.id, w.read, w.list)
    OBVIOUS
  <2>3. [w EXCEPT !.at = "store"] = x
    BY <1>3, <2>2, Forms
  <2>4. work' = [work EXCEPT ![h] = x]
    BY <1>1, <1>5, <2>3 DEF PutNodeMissed, Goto
  <2>5. x.req = w.req /\ x.at = "store"
    BY <2>2 DEF Locals
  <2>6. h \in alone => Puts(x)'
    BY <1>2, <1>4, <2>1, <2>5 DEF Puts, Serves, funcVars
  <2>7. AloneInv'
    BY <1>1, <1>2, <2>1, <2>4, <2>6, AloneByStep DEF AllKept
  <2>8. SparesTables /\ SparesLocals(x)
    BY <2>1, <2>5 DEF SparesTables, SparesLocals, Kept, Adds, Carries, funcVars
  <2> QED
    BY <2>1, <2>4, <2>7, <2>8, KeptByStep DEF AllKept
<1>6. CASE PutNodeKnown(h) \/ PutNodeStores(h)
  <2>1. PICK v : v = w.req.uuid
    OBVIOUS
  <2>2. UNCHANGED <<funcVars, alone>> /\ work' = [work EXCEPT ![h] = Idle]
    BY <1>6 DEF PutNodeKnown, PutNodeStores, Return
  <2>3. AloneInv'
    BY <1>1, <1>2, <2>2, AloneByStep DEF AllKept
  <2>4. PICK fs : fs = IF h \in alone THEN {w.req.funcs[k] : k \in DOMAIN w.req.funcs} ELSE {}
    OBVIOUS
  <2>5. settled' = [settled EXCEPT ![v] = fs]
    BY <1>1, <1>6, <2>1, <2>4 DEF PutNodeKnown, PutNodeStores, Registered, Uuid
  <2>6. \A u \in Uuids : u # v => node'[u] = node[u]
    BY <1>1, <1>6, <2>1 DEF PutNodeKnown, PutNodeStores, Uuid, AllKept, IdsInv, NodesInv
  <2>7. \A g \in Handlers : work'[g] = IF g = h THEN Idle ELSE work[g]
    BY <2>2 DEF AllKept, IdsInv, WorkInv
  <2>8. \A n : ~ Adds(Idle, n) /\ \A u : Carries(Idle, u, n)'
    BY DEF Adds, Carries, Idle
  <2>9. ASSUME NEW u \in Uuids, u # v, NEW n \in settled'[u] PROVE Kept(u, n)'
    <3>1. n \in settled[u]
      BY <2>5, <2>9 DEF AllKept, IdsInv, NodesInv
    <3>2. Kept(u, n)
      BY <3>1 DEF AllKept, KeptInv
    <3>3. ASSUME NEW g \in Handlers
          PROVE  ~ Adds(work'[g], n) /\ (node[u] # None => Carries(work[g], u, n)')
      BY <2>2, <2>7, <2>8, <3>2 DEF Kept, Carries, funcVars
    <3> QED
      BY <2>2, <2>6, <2>9, <3>2, <3>3 DEF Kept, Adds, funcVars
  <2>10. ASSUME NEW n \in settled'[v] PROVE Kept(v, n)'
    <3>1. h \in alone /\ n \in {w.req.funcs[k] : k \in DOMAIN w.req.funcs}
      BY <1>3, <2>1, <2>4, <2>5, <2>10 DEF AllKept, IdsInv, NodesInv
    <3>2. PICK k \in DOMAIN w.req.funcs : n = w.req.funcs[k]
      BY <3>1
    <3>3. Serves(v, n)
      BY <1>2, <1>4, <2>1, <3>1, <3>2 DEF Puts
    <3>4. \A g \in Handlers : work'[g] = Idle
      BY <1>4, <2>7, <3>1
    <3>5. ASSUME NEW g \in Handlers PROVE ~ Adds(work[g], n)' /\ Carries(work[g], v, n)'
      BY <3>4 DEF Adds, Carries, Idle
    <3> QED
      BY <2>2, <3>3, <3>5 DEF Kept, Serves, funcVars
  <2> QED
    BY <2>3, <2>9, <2>10 DEF KeptInv
<1> QED
  BY <1>5, <1>6 DEF PutNodeDetail

\* GetApiConn looks a function up and copies its list: a settled node is in it.
LEMMA FindKept ==
  ASSUME AllKept, NEW h \in Handlers, FindMissed(h) \/ FindKnown(h) \/ ReadConns(h)
  PROVE  AloneInv' /\ KeptInv'
<1>1. PICK w : w = work[h]
  OBVIOUS
<1>2. w.at \in {"find", "conns"} /\ w # Idle
  BY <1>1 DEF FindMissed, FindKnown, ReadConns, Idle
<1>3. w \in Working /\ w.req.op = "GetApiConn"
  BY <1>1, <1>2, AtWork DEF AllKept, IdsInv, WorkInv, Sound
<1>4. UNCHANGED <<funcVars, node, alone, settled>>
  BY DEF FindMissed, FindKnown, ReadConns, nodeVars
<1>5. PICK x : /\ work' = [work EXCEPT ![h] = x]
               /\ x = Idle \/ x.req = w.req
               /\ \/ x.at \in {"idle", "conns"}
                  \/ x.at = "look" /\ x.id = w.id /\ x.read = data[w.id].node
  <2>1. CASE FindMissed(h)
    <3>1. work' = [work EXCEPT ![h] = Idle] /\ Idle.at = "idle"
      BY <2>1 DEF FindMissed, Return, Idle
    <3> QED
      BY <3>1
  <2>2. CASE FindKnown(h)
    <3>1. PICK i : i = Function(h)
      OBVIOUS
    <3>2. PICK x : x = Locals("conns", w.req, w.pos, i, w.read, w.list)
      OBVIOUS
    <3>3. [[w EXCEPT !.at = "conns"] EXCEPT !.id = i] = x
      BY <1>3, <3>2, Forms
    <3>4. work' = [work EXCEPT ![h] = [[w EXCEPT !.at = "conns"] EXCEPT !.id = i]]
      BY <1>1, <2>2, <3>1 DEF FindKnown, At
    <3>5. x.req = w.req /\ x.at = "conns"
      BY <3>2 DEF Locals
    <3> QED
      BY <3>3, <3>4, <3>5
  <2>3. CASE ReadConns(h)
    <3>1. PICK s : s = data[w.id].node
      OBVIOUS
    <3>2. PICK x : x = Locals("look", w.req, w.pos, w.id, s, w.list)
      OBVIOUS
    <3>3. [[w EXCEPT !.at = "look"] EXCEPT !.read = s] = x
      BY <1>3, <3>2, Forms
    <3>4. work' = [work EXCEPT ![h] = [[w EXCEPT !.at = "look"] EXCEPT !.read = s]]
      BY <1>1, <2>3, <3>1 DEF ReadConns, At
    <3>5. x.req = w.req /\ x.at = "look" /\ x.id = w.id /\ x.read = data[w.id].node
      BY <3>1, <3>2 DEF Locals
    <3> QED
      BY <3>3, <3>4, <3>5
  <2> QED
    BY <2>1, <2>2, <2>3
<1>6. AloneInv'
  BY <1>1, <1>2, <1>3, <1>4, <1>5, AloneByStep DEF AllKept
<1>7. SparesTables /\ SparesLocals(x)
  BY <1>1, <1>4, <1>5 DEF SparesTables, SparesLocals, Kept, Adds, Carries, funcVars
<1> QED
  BY <1>4, <1>5, <1>6, <1>7, KeptByStep DEF AllKept

\* GetApiConn drops a node from its copy only if the watcher does not know it.
LEMMA LookNodeKept ==
  ASSUME AllKept, NEW h \in Handlers, NEW v \in Uuids, LookNode(h, v)
  PROVE  AloneInv' /\ KeptInv'
<1>1. PICK w : w = work[h]
  OBVIOUS
<1>2. w.at = "look" /\ w # Idle
  BY <1>1 DEF LookNode, Idle
<1>3. w \in Working /\ w.req.op = "GetApiConn"
  BY <1>1, <1>2, AtWork DEF AllKept, IdsInv, WorkInv, Sound
<1>4. UNCHANGED <<funcVars, node, alone, settled>>
  BY DEF LookNode, nodeVars
<1>5. PICK x : x = Looked(w, v)
  OBVIOUS
<1>6. work' = [work EXCEPT ![h] = x]
  BY <1>1, <1>5 DEF LookNode
<1>7. /\ x.req = w.req /\ x.at = "look" /\ x.id = w.id /\ x.read = w.read \ {v}
      /\ x.list = IF node[v] # None THEN w.list \cup {v} ELSE w.list
  <2>1. PICK s : s = w.read \ {v}
    OBVIOUS
  <2>2. PICK e : e = [at |-> w.at, req |-> w.req, pos |-> w.pos, id |-> w.id,
                      read |-> s, list |-> w.list]
    OBVIOUS
  <2>3. [w EXCEPT !.read = s] = e
    BY <1>3, <2>2 DEF Working
  <2>4. PICK l : l = IF node[v] # None THEN e.list \cup {v} ELSE e.list
    OBVIOUS
  <2>5. x = [e EXCEPT !.list = l]
    BY <1>5, <2>1, <2>3, <2>4 DEF Looked
  <2>6. x = [at |-> w.at, req |-> w.req, pos |-> w.pos, id |-> w.id, read |-> s, list |-> l]
    BY <2>2, <2>5
  <2> QED
    BY <1>2, <2>1, <2>2, <2>4, <2>6
<1>8. AloneInv'
  BY <1>1, <1>2, <1>3, <1>4, <1>6, <1>7, AloneByStep DEF AllKept
<1>9. SparesTables /\ SparesLocals(x)
  BY <1>1, <1>2, <1>4, <1>7 DEF SparesTables, SparesLocals, Kept, Adds, Carries, funcVars
<1> QED
  BY <1>4, <1>6, <1>8, <1>9, KeptByStep DEF AllKept

\* GetApiConn writes back the nodes that were known: a settled one is among them.
LEMMA WriteConnsKept ==
  ASSUME AllKept, NEW h \in Handlers, WriteConns(h)
  PROVE  AloneInv' /\ KeptInv'
<1>1. PICK w : w = work[h]
  OBVIOUS
<1>2. w.at = "look" /\ w.read = {} /\ w # Idle
  BY <1>1 DEF WriteConns, Idle
<1>3. w.id \in Drawn
  BY <1>1, <1>2 DEF AllKept, IdsInv, WorkInv, TablesInv, Sound
<1>4. UNCHANGED <<str, node, alone, settled>> /\ work' = [work EXCEPT ![h] = Idle]
      /\ data' = [data EXCEPT ![w.id].node = w.list]
  BY <1>1 DEF WriteConns, Return, nodeVars
<1>5. w.id \in Ids /\ data[w.id] \in Func /\ data \in [Ids -> Func \cup {None}]
  BY <1>3 DEF AllKept, IdsInv, TablesInv, Drawn
<1>6. data'[w.id].node = w.list
  <2>1. PICK f : f = data[w.id]
    OBVIOUS
  <2>2. data'[w.id] = [f EXCEPT !.node = w.list]
    BY <1>4, <1>5, <2>1
  <2> QED
    BY <1>5, <2>1, <2>2 DEF Func
<1>7. \A i : i # w.id => data'[i] = data[i]
  BY <1>4, <1>5
<1>8. AloneInv'
  BY <1>1, <1>2, <1>4, AloneByStep DEF AllKept
<1>9. SparesTables
  BY <1>1, <1>2, <1>4, <1>6, <1>7 DEF SparesTables, Kept, Carries
<1>10. PICK x : x = Idle
  OBVIOUS
<1>11. SparesLocals(x)
  BY <1>10 DEF SparesLocals, Adds, Carries, Idle
<1> QED
  BY <1>4, <1>8, <1>9, <1>10, <1>11, KeptByStep DEF AllKept

-----------------------------------------------------------------------------
(* Requests that start, and time.                                           *)

\* What a step must leave alone that moves no handler.
LEMMA KeptStays ==
  ASSUME KeptInv, UNCHANGED <<funcVars, work, settled>>,
         \A u \in Uuids : node'[u] # None => node[u] # None
  PROVE  KeptInv'
<1> SUFFICES ASSUME NEW u \in Uuids, NEW n \in settled[u] PROVE Kept(u, n)'
  BY DEF KeptInv
<1>1. Kept(u, n)
  BY DEF KeptInv
<1> QED
  BY <1>1 DEF Kept, Adds, Carries, funcVars

\* A request that starts is alone only when nobody else is at work.
LEMMA BeginKept ==
  ASSUME AllKept, NEW h \in Handlers, NEW CONSTANT x, work[h] = Idle, MarkAlone(h),
         work' = [work EXCEPT ![h] = x], UNCHANGED <<funcVars, node, settled>>,
         x.at \in {"lookup", "find", "conns"}, x.pos = 1,
         x.req \in Request, x.req.op = "Registered" => x.at = "lookup"
  PROVE  AloneInv' /\ KeptInv'
<1>1. ASSUME NEW g \in alone', work'[g] # Idle
      PROVE  /\ \A o \in Handlers \ {g} : work'[o] = Idle
             /\ work'[g].req.op = "Registered" => Puts(work[g])'
  <2>1. g = h /\ \A o \in Handlers : work[o] = Idle
    BY <1>1 DEF MarkAlone
  <2>2. work'[g] = x /\ \A o \in Handlers \ {g} : work'[o] = Idle
    BY <2>1 DEF AllKept, IdsInv, WorkInv
  <2>3. ASSUME x.req.op = "Registered" PROVE Puts(x)'
    <3>1. \A k \in DOMAIN x.req.funcs : ~ (k < x.pos)
      BY <2>3, RequestFields
    <3> QED
      BY <2>3, <3>1 DEF Puts
  <2> QED
    BY <2>2, <2>3 DEF Puts
<1>2. SparesTables /\ SparesLocals(x)
  BY DEF SparesTables, SparesLocals, Kept, Adds, Carries, funcVars
<1> QED
  BY <1>1, <1>2, KeptByStep DEF AloneInv, AllKept

\* Every request: those that take steps, and those that are done at once.
LEMMA AskKept ==
  ASSUME AllKept, NEW h \in Handlers, Ask(h)
  PROVE  AloneInv' /\ KeptInv'
<1>1. ASSUME NEW r \in Requests, Begin(h, r) PROVE AloneInv' /\ KeptInv'
  <2>1. PICK x : x = [at |-> IF r.op = "Registered" THEN "lookup" ELSE "find", req |-> r,
                      pos |-> 1, id |-> None, read |-> {}, list |-> {}]
    OBVIOUS
  <2>2. work' = [work EXCEPT ![h] = x]
    BY <1>1, <2>1 DEF Begin, Enter
  <2>3. /\ x.at \in {"lookup", "find"} /\ x.pos = 1 /\ x.req = r
        /\ r.op = "Registered" => x.at = "lookup"
    BY <2>1
  <2>4. work[h] = Idle /\ MarkAlone(h) /\ UNCHANGED <<funcVars, node, settled>>
    BY <1>1 DEF Begin, nodeVars
  <2> QED
    BY <2>2, <2>3, <2>4, BeginKept, RegistryAssumption
<1>2. ASSUME NEW t \in told, BeginById(h, t) PROVE AloneInv' /\ KeptInv'
  <2>1. PICK q : q = [op |-> "GetApiConn", name |-> t[1]]
    OBVIOUS
  <2>2. PICK x : x = [at |-> "conns", req |-> q, pos |-> 1, id |-> t[2], read |-> {}, list |-> {}]
    OBVIOUS
  <2>3. work' = [work EXCEPT ![h] = x]
    BY <1>2, <2>1, <2>2 DEF BeginById
  <2>4. t[1] \in Names
    BY DEF AllKept, IdsInv, ToldInv
  <2>5. q \in Request /\ q.op = "GetApiConn"
    BY <2>1, <2>4 DEF Request
  <2>6. x.at = "conns" /\ x.pos = 1 /\ x.req = q
    BY <2>2
  <2>7. work[h] = Idle /\ MarkAlone(h) /\ UNCHANGED <<funcVars, node, settled>>
    BY <1>2 DEF BeginById, nodeVars
  <2> QED
    BY <2>3, <2>5, <2>6, <2>7, BeginKept
<1>3. ASSUME NEW r \in Requests, Heartbeats(h, r) \/ GetFuncMsg(h, r)
      PROVE  AloneInv' /\ KeptInv'
  <2>1. work[h] = Idle /\ alone' \subseteq {h} /\ UNCHANGED <<funcVars, work, settled>>
    BY <1>3 DEF Heartbeats, GetFuncMsg, AtOnce, MarkAlone
  <2>2. \A u \in Uuids : node'[u] # None => node[u] # None
    BY <1>3 DEF Heartbeats, GetFuncMsg, nodeVars, AllKept, IdsInv, NodesInv
  <2>3. AloneInv'
    BY <2>1 DEF AloneInv
  <2> QED
    BY <2>1, <2>2, <2>3, KeptStays DEF AllKept
<1> QED
  BY <1>1, <1>2, <1>3 DEF Ask

\* Nodes grow old and are cleared; none comes into the table.
LEMMA TimeKept ==
  ASSUME AllKept, (\E u \in Uuids : Expire(u)) \/ ClearNodeExprie
  PROVE  AloneInv' /\ KeptInv'
<1>1. UNCHANGED <<funcVars, work, alone, settled>>
  BY DEF Expire, ClearNodeExprie, ClearDeletes, ClearTests
<1>2. \A u \in Uuids : node'[u] # None => node[u] # None
  BY DEF Expire, ClearNodeExprie, ClearDeletes, ClearTests, AllKept, IdsInv, NodesInv
<1>3. AloneInv'
  BY <1>1 DEF AllKept, AloneInv, Puts, Serves, funcVars
<1> QED
  BY <1>1, <1>2, <1>3, KeptStays DEF AllKept

-----------------------------------------------------------------------------

\* No step of the watcher takes from a settled node what it registered.
LEMMA NextKept == AllKept /\ [Next]_vars => AllKept'
<1> SUFFICES ASSUME AllKept, [Next]_vars PROVE AloneInv' /\ KeptInv'
  BY NextSound DEF AllKept
<1>1. ASSUME NEW h \in Handlers, PutApi(h) PROVE AloneInv' /\ KeptInv'
  BY <1>1, LookupKept, ScanKept, AppendReadsKept, AppendWritesKept, NumberKept,
     StoreIdsKept, StoreStrKept DEF PutApi
<1>2. ASSUME NEW h \in Handlers, GetApiConn(h) PROVE AloneInv' /\ KeptInv'
  BY <1>2, FindKept, LookNodeKept, WriteConnsKept DEF GetApiConn
<1>3. CASE UNCHANGED vars
  BY <1>3, KeptStays DEF AllKept, AloneInv, Puts, Serves, vars, nodeVars, funcVars
<1> QED
  BY <1>1, <1>2, <1>3, PutNodeKept, AskKept, TimeKept DEF Next, Handle

\* GetApiConn against Registered, for any number of handlers, nodes and requests: a
\* node that registered undisturbed stays listed under every function of that
\* registration for as long as the watcher knows it, though GetApiConn writes back
\* lists it read long before and PutApi of other nodes does the same.
THEOREM KeptHolds == Spec => []KeptWhenAlone
<1>1. Init => AllKept
  BY InitSound DEF AllKept, AloneInv, KeptInv, Init
<1>2. AllKept => KeptWhenAlone
  BY DEF AllKept, KeptInv, KeptWhenAlone, Kept, Known, Serves
<1> QED
  BY <1>1, <1>2, NextKept, PTL DEF Spec
=============================================================================
