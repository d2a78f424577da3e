----------------------------- MODULE Reassembly -----------------------------
(***************************************************************************)
(* The receiving side of one NodeConn: goroutines that take frames off the  *)
(* wire and run ParseResp (network/rpc/conns.go), which puts the frames of  *)
(* a body together in the table list.                                       *)
(*                                                                          *)
(* A client reads a connection with one goroutine, ReadRespTCP/ReadRespUDP. *)
(* A server (tcpAccept, UdpListen) starts a goroutine for every frame:      *)
(* Workers has several members, and ParseResp runs in steps, cut where      *)
(* another goroutine may touch list or the ReadLink the two share.          *)
(***************************************************************************)
EXTENDS Frames, SequencesExt

CONSTANTS
  Bodies,     \* the bodies that peers send on this connection
  Size,       \* the length of each body
  Num, Fid,   \* its serial number and function id
  Sender,     \* the process that numbered it
  Ordinary,   \* the bodies of ordinary calls: the others are of built-in calls and pings
  Failures,   \* the bodies that are error answers
  Workers,    \* the goroutines that may be inside ParseResp at once
  Ordered,    \* TRUE: frames of a body arrive in order (TCP)
  Faults,     \* a subset of {"lose", "dup"} (UDP)
  MaxLost,    \* the bound on the frames that are lost
  MaxCopies,  \* the bound on the copies of one frame ...
  MaxExtra,   \* ... and on the second copies of all frames
  None        \* no link, no frame

ASSUME ReassemblyAssumption ==
  /\ IsFiniteSet(Bodies)
  /\ Size \in [Bodies -> Nat]
  /\ Num \in [Bodies -> 1 .. (Byte * Byte * Byte - 1)]
  /\ Fid \in [Bodies -> 1 .. (Byte * Byte - 1)]
  /\ Failures \subseteq Bodies /\ Ordinary \subseteq Bodies
  /\ Ordered \in BOOLEAN /\ Faults \subseteq {"lose", "dup"}
  /\ MaxLost \in Nat /\ MaxCopies \in Nat \ {0} /\ MaxExtra \in Nat

\* The bytes of a body, and its frames as its sender makes them.
Text(b) == [i \in 1 .. Size[b] |-> <<b, i>>]
Rows    == [b \in Bodies |-> MakeRspBody(Text(b), Num[b], Fid[b], b \in Failures)]

\* A frame that arrives: a row of a body, or another copy of it.
Arrivals ==
  UNION {[body : {b}, pos : DOMAIN Rows[b], copy : 1 .. MaxCopies] : b \in Bodies}
Frame(t)  == parse(Rows[t.body][t.pos])

\* ReadLink.
Link == [funcid : Nat, buck : Nat, recv : Nat, body : Seq(Seq(Bodies \X Nat))]

ASSUME NoneAssumption == None \notin Arrivals \cup Link

VARIABLES
  unsent,   \* the bodies not sent yet
  wire,     \* the frames on their way
  taken,    \* the frames some goroutine has read
  list,     \* NodeConn.list: serial number -> the link of the body
  links,    \* the ReadLinks, each named by the frame it was made for
  work,     \* the goroutines: their step, their frame, the link they found
  out       \* what ParseResp returned, and for which frame

vars == <<unsent, wire, taken, list, links, work, out>>

Idle == [at |-> "idle", frame |-> None, link |-> None]
Dead == [at |-> "dead", frame |-> None, link |-> None]
Numbers == {Num[b] : b \in Bodies}

Init ==
  /\ unsent = Bodies
  /\ wire = {} /\ taken = {}
  /\ list = [n \in Numbers |-> None]
  /\ links = [t \in Arrivals |-> None]
  /\ work = [w \in Workers |-> Idle]
  /\ out = {}

-----------------------------------------------------------------------------
(* The senders and the network.                                             *)

\* The frames of b are under way or in the hands of a goroutine.
InFlight(b) == \/ \E t \in wire : t.body = b
               \/ \E w \in Workers : work[w].at \notin {"idle", "dead"} /\ work[w].frame.body = b

\* A process gives an ordinary call a number that an ordinary call had only when nothing of
\* that is under way: it has counted through all the others meanwhile.  A built-in call and
\* a ping have the number they always have, whoever else has it.
Send(b) ==
  /\ b \in unsent
  /\ \A a \in Ordinary \ {b} :
       b \in Ordinary /\ Sender[a] = Sender[b] /\ Num[a] = Num[b] => ~ InFlight(a)
  /\ unsent' = unsent \ {b}
  /\ wire' = wire \cup {[body |-> b, pos |-> i, copy |-> 1] : i \in DOMAIN Rows[b]}
  /\ UNCHANGED <<taken, list, links, work, out>>

Lose(t) ==
  /\ "lose" \in Faults
  /\ Cardinality({u \in Arrivals : u.copy = 1 /\ u.body \notin unsent} \ (wire \cup taken)) < MaxLost
  /\ wire' = wire \ {t}
  /\ UNCHANGED <<unsent, taken, list, links, work, out>>

Duplicate(t) ==
  /\ "dup" \in Faults /\ t.copy < MaxCopies
  /\ Cardinality({u \in wire \cup taken : u.copy > 1}) < MaxExtra
  /\ [t EXCEPT !.copy = @ + 1] \notin wire \cup taken
  /\ wire' = wire \cup {[t EXCEPT !.copy = @ + 1]}
  /\ UNCHANGED <<unsent, taken, list, links, work, out>>

-----------------------------------------------------------------------------
(* A goroutine reads a frame and parses it.                                 *)

Read(w, t) ==
  /\ work[w].at = "idle" /\ t \in wire
  /\ Ordered => \A u \in wire : u.body = t.body => u.pos >= t.pos
  /\ wire' = wire \ {t} /\ taken' = taken \cup {t}

Result(t, data) == [frame |-> t, uuid |-> Frame(t).Uuid, func |-> Frame(t).Func, data |-> data]

Step(w, to) == work' = [work EXCEPT ![w].at = to]
Return(w)   == work' = [work EXCEPT ![w] = Idle]

\* An error answer, and a frame past the number of frames its header gives.
ReadDropped(w, t) ==
  /\ Read(w, t)
  /\ \/ Failed(Rows[t.body][t.pos])
     \/ Frame(t).Sort > Frame(t).Buck \/ Frame(t).Buck = 0
  /\ UNCHANGED <<unsent, list, links, work, out>>

\* A body of one frame.
ReadWhole(w, t) ==
  /\ Read(w, t)
  /\ ~ Failed(Rows[t.body][t.pos])
  /\ Frame(t).Sort <= Frame(t).Buck /\ Frame(t).Buck = 1
  /\ out' = out \cup {Result(t, Frame(t).Data)}
  /\ UNCHANGED <<unsent, list, links, work>>

ReadPart(w, t) ==
  /\ Read(w, t)
  /\ ~ Failed(Rows[t.body][t.pos])
  /\ Frame(t).Sort <= Frame(t).Buck /\ Frame(t).Buck > 1
  /\ work' = [work EXCEPT ![w] = [at |-> "load", frame |-> t, link |-> None]]
  /\ UNCHANGED <<unsent, list, links, out>>

-----------------------------------------------------------------------------
(* ParseResp, for a part of a body.                                         *)

My(w) == Frame(work[w].frame)

\* The link is for a body of this many frames and this function.
Matches(l, f) == l.buck = f.Buck /\ l.funcid = f.Func

\* tmp, ok := n.list[body.Uuid] under the read lock, found ...
LoadFound(w) ==
  LET a == list[My(w).Uuid] IN
  /\ work[w].at = "load" /\ a # None
  /\ Matches(links[a], My(w))
  /\ work' = [work EXCEPT ![w].at = "test", ![w].link = a]
  /\ UNCHANGED <<unsent, wire, taken, list, links, out>>

\* ... found, of another body ...
LoadMismatched(w) ==
  LET a == list[My(w).Uuid] IN
  /\ work[w].at = "load" /\ a # None
  /\ ~ Matches(links[a], My(w))
  /\ Step(w, "discard")
  /\ UNCHANGED <<unsent, wire, taken, list, links, out>>

\* ... and not found.
LoadMissing(w) ==
  /\ work[w].at = "load" /\ list[My(w).Uuid] = None
  /\ Step(w, IF My(w).Sort = 0 THEN "discard" ELSE "create")
  /\ UNCHANGED <<unsent, wire, taken, list, links, out>>

\* The error paths delete the entry and lose the frame.
Discard(w) ==
  /\ work[w].at = "discard"
  /\ list' = [list EXCEPT ![My(w).Uuid] = None]
  /\ Return(w)
  /\ UNCHANGED <<unsent, wire, taken, links, out>>

\* len(tmp.body[body.Sort-1]) == 0: the place is free.
TestFree(w) ==
  /\ work[w].at = "test" /\ My(w).Sort # 0
  /\ links[work[w].link].body[My(w).Sort] = <<>>
  /\ Step(w, "count")
  /\ UNCHANGED <<unsent, wire, taken, list, links, out>>

TestFilled(w) ==
  /\ work[w].at = "test" /\ My(w).Sort # 0
  /\ links[work[w].link].body[My(w).Sort] # <<>>
  /\ Return(w)
  /\ UNCHANGED <<unsent, wire, taken, list, links, out>>

\* tmp.body[-1], for the place whose number did not fit the header: the process ends.
Panic(w) ==
  /\ work[w].at = "test" /\ My(w).Sort = 0
  /\ work' = [v \in Workers |-> Dead]
  /\ UNCHANGED <<unsent, wire, taken, list, links, out>>

\* atomic.AddUint32(&tmp.recv, 1)
CountFrame(w) ==
  /\ work[w].at = "count"
  /\ links' = [links EXCEPT ![work[w].link].recv = @ + 1]
  /\ Step(w, "store")
  /\ UNCHANGED <<unsent, wire, taken, list, out>>

\* tmp.body[body.Sort-1] = body.Data
Store(w) ==
  /\ work[w].at = "store"
  /\ links' = [links EXCEPT ![work[w].link].body[My(w).Sort] = My(w).Data]
  /\ Step(w, "full")
  /\ UNCHANGED <<unsent, wire, taken, list, out>>

\* Mutants of Complete: an off-by-one, and a count that is trusted too early.
CompleteBeyond(l) == l.recv > l.buck /\ \A i \in 1 .. l.buck : l.body[i] # <<>>
CompleteEarly(l)  == l.recv + 1 >= l.buck

\* int(tmp.recv) >= tmp.buck, and no place is empty.
Complete(l) == l.recv >= l.buck /\ \A i \in 1 .. l.buck : l.body[i] # <<>>

NotFull(w) ==
  /\ work[w].at = "full" /\ ~ Complete(links[work[w].link])
  /\ Return(w)
  /\ UNCHANGED <<unsent, wire, taken, list, links, out>>

Full(w) ==
  /\ work[w].at = "full" /\ Complete(links[work[w].link])
  /\ Step(w, "remove")
  /\ UNCHANGED <<unsent, wire, taken, list, links, out>>

\* A mutant of HandOver: the entry stays.
HandOverOnly(w) ==
  /\ work[w].at = "remove"
  /\ out' = out \cup {Result(work[w].frame, FlattenSeq(links[work[w].link].body))}
  /\ Return(w)
  /\ UNCHANGED <<unsent, wire, taken, list, links>>

\* The entry is deleted and the body returned.
HandOver(w) ==
  /\ work[w].at = "remove"
  /\ list' = [list EXCEPT ![My(w).Uuid] = None]
  /\ out' = out \cup {Result(work[w].frame, FlattenSeq(links[work[w].link].body))}
  /\ Return(w)
  /\ UNCHANGED <<unsent, wire, taken, links>>

\* A mutant of Create: the entry is made before there is a link.
CreateUnstored(w) ==
  /\ work[w].at = "create"
  /\ list' = [list EXCEPT ![My(w).Uuid] = work[w].frame]
  /\ Return(w)
  /\ UNCHANGED <<unsent, wire, taken, links, out>>

\* A new link with this frame replaces what the table holds by now.
Create(w) ==
  LET t == work[w].frame
      f == My(w)
  IN
  /\ work[w].at = "create"
  /\ links' = [links EXCEPT ![t] =
       [funcid |-> f.Func, buck |-> f.Buck, recv |-> 1,
        body |-> [i \in 1 .. f.Buck |-> IF i = f.Sort THEN f.Data ELSE <<>>]]]
  /\ list' = [list EXCEPT ![f.Uuid] = t]
  /\ Return(w)
  /\ UNCHANGED <<unsent, wire, taken, out>>

\* Everything was sent and read, or the process has ended.
Finished ==
  /\ \/ unsent = {} /\ wire = {} /\ \A w \in Workers : work[w] = Idle
     \/ \A w \in Workers : work[w] = Dead
  /\ UNCHANGED vars

-----------------------------------------------------------------------------

ReadFrame(w) == \E t \in wire : ReadDropped(w, t) \/ ReadWhole(w, t) \/ ReadPart(w, t)
ParseResp(w) == \/ LoadFound(w) \/ LoadMismatched(w) \/ LoadMissing(w) \/ Discard(w)
                \/ TestFree(w) \/ TestFilled(w) \/ Panic(w) \/ CountFrame(w) \/ Store(w)
                \/ NotFull(w) \/ Full(w) \/ HandOver(w) \/ Create(w)

Next == \/ \E b \in Bodies : Send(b)
        \/ \E t \in wire : Lose(t) \/ Duplicate(t)
        \/ \E w \in Workers : ReadFrame(w) \/ ParseResp(w)
        \/ Finished

Spec == Init /\ [][Next]_vars
FairSpec == Spec /\ \A w \in Workers : WF_vars(ReadFrame(w) \/ ParseResp(w))

-----------------------------------------------------------------------------

\* The range of every variable; an entry of list, and a goroutine that found one,
\* have a link.
TypeOK ==
  /\ unsent \subseteq Bodies
  /\ wire \subseteq Arrivals /\ taken \subseteq Arrivals
  /\ list \in [Numbers -> Arrivals \cup {None}]
  /\ DOMAIN links = Arrivals /\ \A t \in Arrivals : links[t] = None \/ links[t] \in Link
  /\ \A n \in Numbers : list[n] # None => links[list[n]] \in Link
  /\ \A w \in Workers :
       /\ work[w].at \in {"idle", "dead", "load", "create", "discard", "test", "count",
                          "store", "full", "remove"}
       /\ work[w].at \notin {"idle", "dead"} => work[w].frame \in taken
       /\ work[w].at \in {"test", "count", "store", "full", "remove"} =>
            links[work[w].link] \in Link
  /\ \A d \in out : d.frame \in taken

\* The number of frames of a body fits the two bytes the header has for it.
Fits(b) == Count(Text(b)) < Byte * Byte

\* encode_test.go, "make body not equal parse": what ParseResp returns is, to
\* the byte, a body that was sent, under its number and function id, however the
\* frames of several bodies mix, overtake each other, come twice or not at all.
WholeBodies ==
  \A d \in out : LET b == d.frame.body IN
    Fits(b) => d.uuid = Num[b] /\ d.func = Fid[b] /\ d.data = Text(b)

\* No other body has been sent under the number of b.
Alone(b) == \A a \in Bodies \ unsent : Num[a] = Num[b] => a = b

\* ParseResp: a body of which every frame was read, some perhaps twice, in
\* whatever order, has been returned once ParseResp is done with the frames.
NothingForgotten ==
  \A b \in Bodies \ Failures :
    /\ Fits(b) /\ Alone(b) /\ \A w \in Workers : work[w] = Idle
    /\ \A i \in DOMAIN Rows[b] : \E t \in taken : t.body = b /\ t.pos = i
    => \E d \in out : d.frame.body = b

\* The bodies that go through the table list.
Several(b) == b \in Bodies \ Failures /\ Len(Text(b)) > BodySplit

\* The bodies of several frames with the number of b take turns: it is only ordinary calls
\* that have it.
Turns(b) == \A a \in Bodies : Several(a) /\ Num[a] = Num[b] => a = b \/ {a, b} \subseteq Ordinary

\* Over TCP the connection implements Delivery: each body that fits is handed over exactly
\* once, also when its number was used before, if it is one frame, as a ping is, or its
\* number takes turns.  (Bodies of several frames of two built-in calls of one function
\* may well be mixed.)
Good == {b \in Bodies \ Failures : Fits(b) /\ (Several(b) => Turns(b))}
ExactlyOnce == INSTANCE Delivery WITH
  Bodies <- Good,
  sent   <- Good \ unsent,
  handed <- [b \in Good |-> Cardinality({d \in out : d.frame.body = b})]
Delivered == ExactlyOnce!Spec
=============================================================================
