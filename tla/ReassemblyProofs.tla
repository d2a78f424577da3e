-------------------------- MODULE ReassemblyProofs --------------------------
(***************************************************************************)
(* What holds of Reassembly for any bodies, workers, sizes and faults.      *)
(***************************************************************************)
EXTENDS Reassembly, FramesProofs, FiniteSetTheorems

Bytes == Bodies \X Nat

\* A frame that goes into a link.
Part(t) ==
  /\ t \in Arrivals /\ ~ Failed(Rows[t.body][t.pos])
  /\ Frame(t).Sort <= Frame(t).Buck /\ Frame(t).Buck > 1

Reading == {"load", "create", "discard", "test", "count", "store", "full", "remove"}
Linked  == {"test", "count", "store", "full", "remove"}
WorkSet == [at : Reading \cup {"idle", "dead"}, frame : Arrivals \cup {None}, link : Arrivals \cup {None}]

\* What a goroutine has in hand.
Worked(x) ==
  /\ x \in WorkSet
  /\ x.at \in Reading => x.frame \in taken /\ Part(x.frame)
  /\ x.at \in Linked => x.link \in Arrivals /\ links[x.link] \in Link

\* The ranges, with what they rest on.
TypeInv ==
  /\ unsent \subseteq Bodies /\ wire \subseteq Arrivals /\ taken \subseteq Arrivals
  /\ list \in [Numbers -> Arrivals \cup {None}]
  /\ DOMAIN links = Arrivals /\ \A t \in Arrivals : links[t] = None \/ links[t] \in Link
  /\ \A n \in Numbers : list[n] # None => links[list[n]] \in Link
  /\ DOMAIN work = Workers /\ \A w \in Workers : Worked(work[w])
  /\ \A d \in out : d.frame \in taken

-----------------------------------------------------------------------------
(* The frames.                                                              *)

\* The bytes of a body.
LEMMA Texts ==
  ASSUME NEW b \in Bodies
  PROVE  Text(b) \in Seq(Bytes) /\ Len(Text(b)) = Size[b] /\ Size[b] \in Nat
<1>1. Size[b] \in Nat
  BY ReassemblyAssumption
<1> QED
  BY <1>1 DEF Text, Bytes

\* A frame is a row of a body.
LEMMA Arrived ==
  ASSUME NEW t \in Arrivals
  PROVE  /\ t.body \in Bodies /\ t.pos \in DOMAIN Rows[t.body] /\ t.copy \in 1 .. MaxCopies
         /\ t = [body |-> t.body, pos |-> t.pos, copy |-> t.copy]
  BY DEF Arrivals

\* The numbers fit the header.
LEMMA Numbered ==
  ASSUME NEW b \in Bodies
  PROVE  Num[b] \in 0 .. (Byte * Byte * Byte - 1) /\ Fid[b] \in 0 .. (Byte * Byte - 1) /\ Num[b] \in Numbers
<1>1. PICK m, n : m = Byte * Byte * Byte - 1 /\ n = Byte * Byte - 1
  OBVIOUS
<1>2. Num[b] \in 1 .. m /\ Fid[b] \in 1 .. n
  BY <1>1, ReassemblyAssumption
<1>3. Num[b] \in 0 .. m /\ Fid[b] \in 0 .. n
  BY <1>2
<1> QED
  BY <1>1, <1>3 DEF Numbers

\* An error answer is one frame, that says so.
LEMMA FailedRow ==
  ASSUME NEW b \in Failures
  PROVE  b \in Bodies /\ DOMAIN Rows[b] = {1} /\ Failed(Rows[b][1])
<1>1. b \in Bodies
  BY ReassemblyAssumption
<1>2. Rows[b] = MakeRspBody(Text(b), Num[b], Fid[b], TRUE)
  BY <1>1 DEF Rows
<1> QED
  BY <1>1, <1>2 DEF MakeRspBody, buffPrefix, Failed

\* Another body of up to a frame is one.
LEMMA OneRow ==
  ASSUME NEW b \in Bodies \ Failures, Len(Text(b)) <= BodySplit
  PROVE  /\ DOMAIN Rows[b] = {1} /\ ~ Failed(Rows[b][1])
         /\ parse(Rows[b][1]) =
              [Uuid |-> Num[b], Func |-> Fid[b], Buck |-> 1, Sort |-> 1, Data |-> Text(b)]
<1>1. Rows[b] = MakeReqBody(Text(b), Num[b], Fid[b])
  BY DEF Rows, MakeRspBody
<1>2. Text(b) \in Seq(Bytes)
  BY Texts
<1> QED
  BY <1>1, <1>2, Numbered, OneFrame

\* A longer one is its chunks.
LEMMA ManyRows ==
  ASSUME NEW b \in Bodies \ Failures, Len(Text(b)) > BodySplit
  PROVE  /\ DOMAIN Rows[b] = 1 .. Count(Text(b))
         /\ \A i \in 1 .. Count(Text(b)) :
              /\ ~ Failed(Rows[b][i])
              /\ parse(Rows[b][i]) =
                   [Uuid |-> Num[b], Func |-> Fid[b], Buck |-> Word(Count(Text(b))),
                    Sort |-> Word(i), Data |-> Chunk(Text(b), i)]
<1>1. Rows[b] = MakeReqBody(Text(b), Num[b], Fid[b])
  BY DEF Rows, MakeRspBody
<1>2. Text(b) \in Seq(Bytes)
  BY Texts
<1> QED
  BY <1>1, <1>2, Numbered, ManyFrames

\* A frame that goes into a link is a chunk of a body of several frames.
LEMMA PartFrame ==
  ASSUME NEW t, Part(t)
  PROVE  /\ t.body \in Bodies \ Failures /\ Len(Text(t.body)) > BodySplit
         /\ DOMAIN Rows[t.body] = 1 .. Count(Text(t.body)) /\ t.pos \in 1 .. Count(Text(t.body))
         /\ Frame(t) = [Uuid |-> Num[t.body], Func |-> Fid[t.body], Buck |-> Word(Count(Text(t.body))),
                        Sort |-> Word(t.pos), Data |-> Chunk(Text(t.body), t.pos)]
         /\ Frame(t).Uuid \in Numbers /\ Frame(t).Func \in Nat /\ Frame(t).Buck \in Nat
         /\ Frame(t).Sort \in Nat /\ Frame(t).Data \in Seq(Bytes) /\ Frame(t).Data # <<>>
<1>1. t.body \in Bodies /\ t.pos \in DOMAIN Rows[t.body] /\ Frame(t) = parse(Rows[t.body][t.pos])
  BY Arrived DEF Part, Frame
<1>2. t.body \notin Failures /\ Len(Text(t.body)) > BodySplit
  <2>1. Len(Text(t.body)) \in Nat /\ BodySplit \in Nat
    BY <1>1, Texts, Words
  <2>2. t.body \notin Failures
    BY <1>1, FailedRow DEF Part
  <2>3. ASSUME Len(Text(t.body)) <= BodySplit PROVE FALSE
    <3>1. /\ DOMAIN Rows[t.body] = {1}
          /\ parse(Rows[t.body][1]) = [Uuid |-> Num[t.body], Func |-> Fid[t.body], Buck |-> 1, Sort |-> 1,
                                       Data |-> Text(t.body)]
      BY <1>1, <2>2, <2>3, OneRow
    <3> QED
      BY <1>1, <3>1 DEF Part
  <2> QED
    BY <2>1, <2>2, <2>3
<1>3. /\ DOMAIN Rows[t.body] = 1 .. Count(Text(t.body)) /\ t.pos \in 1 .. Count(Text(t.body))
      /\ Frame(t) = [Uuid |-> Num[t.body], Func |-> Fid[t.body], Buck |-> Word(Count(Text(t.body))),
                     Sort |-> Word(t.pos), Data |-> Chunk(Text(t.body), t.pos)]
  BY <1>1, <1>2, ManyRows
<1>4. Count(Text(t.body)) \in Nat /\ t.pos \in Nat /\ Text(t.body) \in Seq(Bytes) /\ Text(t.body) # <<>>
  BY <1>1, <1>2, <1>3, Texts, Counted, Words
<1>5. Num[t.body] \in Numbers /\ Fid[t.body] \in Nat
  <2>1. \A n \in Nat : 0 .. (n - 1) \subseteq Nat
    OBVIOUS
  <2> QED
    BY <1>1, <2>1, Numbered, Words
<1>6. Chunk(Text(t.body), t.pos) \in Seq(Bytes) /\ Chunk(Text(t.body), t.pos) # <<>>
  BY <1>3, <1>4, Chunks
<1> QED
  BY <1>1, <1>2, <1>3, <1>4, <1>5, <1>6, Words

\* A frame that is a body reads back as that body, unless the number of frames did not fit.
LEMMA WholeFrame ==
  ASSUME NEW t \in Arrivals, ~ Failed(Rows[t.body][t.pos]), Frame(t).Buck = 1, Fits(t.body)
  PROVE  /\ t.body \in Bodies \ Failures /\ DOMAIN Rows[t.body] = {1} /\ t.pos = 1
         /\ Frame(t).Uuid = Num[t.body] /\ Frame(t).Func = Fid[t.body] /\ Frame(t).Data = Text(t.body)
<1>1. t.body \in Bodies /\ t.pos \in DOMAIN Rows[t.body] /\ Frame(t) = parse(Rows[t.body][t.pos])
  BY Arrived DEF Frame
<1>2. t.body \notin Failures
  BY <1>1, FailedRow
<1>3. Len(Text(t.body)) \in Nat /\ BodySplit \in Nat /\ Text(t.body) \in Seq(Bytes)
  BY <1>1, Texts, Words
<1>4. ASSUME Len(Text(t.body)) > BodySplit PROVE FALSE
  <2>1. Frame(t).Buck = Word(Count(Text(t.body)))
    <3>1. DOMAIN Rows[t.body] = 1 .. Count(Text(t.body)) /\ t.body \in Bodies \ Failures
      BY <1>1, <1>2, <1>4, ManyRows
    <3>2. parse(Rows[t.body][t.pos]) =
            [Uuid |-> Num[t.body], Func |-> Fid[t.body], Buck |-> Word(Count(Text(t.body))),
             Sort |-> Word(t.pos), Data |-> Chunk(Text(t.body), t.pos)]
      BY <1>1, <1>4, <3>1, ManyRows
    <3> QED
      BY <1>1, <3>2
  <2>2. Count(Text(t.body)) \in Nat /\ Count(Text(t.body)) > 1
    BY <1>3, <1>4, Counted
  <2>3. PICK n : n = Byte * Byte /\ n \in Nat
    BY Words
  <2>4. Count(Text(t.body)) \in 0 .. (n - 1)
    BY <2>2, <2>3 DEF Fits
  <2>5. Word(Count(Text(t.body))) = Count(Text(t.body))
    BY <2>3, <2>4, Words
  <2> QED
    BY <2>1, <2>2, <2>5
<1>5. Len(Text(t.body)) <= BodySplit
  BY <1>3, <1>4
<1>6. /\ DOMAIN Rows[t.body] = {1}
      /\ parse(Rows[t.body][1]) = [Uuid |-> Num[t.body], Func |-> Fid[t.body], Buck |-> 1, Sort |-> 1,
                                   Data |-> Text(t.body)]
  BY <1>1, <1>2, <1>5, OneRow
<1> QED
  BY <1>1, <1>2, <1>6

-----------------------------------------------------------------------------
(* The ranges.                                                              *)

\* What Step and the other assignments of one field make of a record.
LEMMA StepForm ==
  ASSUME TypeInv, NEW w \in Workers, NEW CONSTANT s
  PROVE  [work EXCEPT ![w].at = s] =
           [work EXCEPT ![w] = [at |-> s, frame |-> work[w].frame, link |-> work[w].link]]
<1>1. PICK x : x = work[w] /\ x \in WorkSet
  BY DEF TypeInv, Worked
<1>2. [x EXCEPT !.at = s] = [at |-> s, frame |-> x.frame, link |-> x.link]
  BY <1>1 DEF WorkSet
<1>3. [work EXCEPT ![w].at = s] = [work EXCEPT ![w] = [x EXCEPT !.at = s]]
  BY <1>1
<1> QED
  BY <1>1, <1>2, <1>3

\* The goroutine that found a link.
LEMMA FoundForm ==
  ASSUME TypeInv, NEW w \in Workers, NEW CONSTANT a
  PROVE  [work EXCEPT ![w].at = "test", ![w].link = a] =
           [work EXCEPT ![w] = [at |-> "test", frame |-> work[w].frame, link |-> a]]
<1>1. PICK x : x = work[w] /\ x \in WorkSet
  BY DEF TypeInv, Worked
<1>2. PICK y : y = [at |-> "test", frame |-> x.frame, link |-> x.link]
  OBVIOUS
<1>3. [work EXCEPT ![w].at = "test"] = [work EXCEPT ![w] = y]
  BY <1>1, <1>2, StepForm
<1>4. PICK g : g = [work EXCEPT ![w] = y]
  OBVIOUS
<1>5. g[w] = y /\ [y EXCEPT !.link = a] = [at |-> "test", frame |-> x.frame, link |-> a]
  BY <1>2, <1>4 DEF TypeInv
<1>6. [g EXCEPT ![w].link = a] = [g EXCEPT ![w] = [at |-> "test", frame |-> x.frame, link |-> a]]
  BY <1>5
<1>7. [work EXCEPT ![w].at = "test", ![w].link = a] = [g EXCEPT ![w].link = a]
  BY <1>3, <1>4
<1> QED
  BY <1>1, <1>4, <1>6, <1>7

\* The frame counted ...
LEMMA CountForm ==
  ASSUME NEW CONSTANT l \in Link
  PROVE  [l EXCEPT !.recv = @ + 1] =
           [funcid |-> l.funcid, buck |-> l.buck, recv |-> l.recv + 1, body |-> l.body]
  BY DEF Link

\* ... and the frame stored.
LEMMA StoreForm ==
  ASSUME NEW CONSTANT l \in Link, NEW CONSTANT i, NEW CONSTANT d
  PROVE  [l EXCEPT !.body[i] = d] =
           [funcid |-> l.funcid, buck |-> l.buck, recv |-> l.recv, body |-> [l.body EXCEPT ![i] = d]]
<1>1. PICK c : c = [l.body EXCEPT ![i] = d]
  OBVIOUS
<1>2. [l EXCEPT !.body = c] = [funcid |-> l.funcid, buck |-> l.buck, recv |-> l.recv, body |-> c]
  BY DEF Link
<1>3. [l EXCEPT !.body[i] = d] = [l EXCEPT !.body = c]
  BY <1>1
<1> QED
  BY <1>1, <1>2, <1>3

\* A sequence with another element is a sequence.
LEMMA Replaced ==
  ASSUME NEW S, NEW q \in Seq(S), NEW CONSTANT i, NEW d \in S
  PROVE  /\ [q EXCEPT ![i] = d] \in Seq(S) /\ Len([q EXCEPT ![i] = d]) = Len(q)
         /\ \A j \in 1 .. Len(q) : [q EXCEPT ![i] = d][j] = IF j = i THEN d ELSE q[j]
<1>1. PICK n : n = Len(q) /\ n \in Nat
  OBVIOUS
<1>2. q \in [1 .. n -> S]
  BY <1>1
<1>3. PICK r : r = [q EXCEPT ![i] = d]
  OBVIOUS
<1>4. r \in [1 .. n -> S] /\ \A j \in 1 .. n : r[j] = IF j = i THEN d ELSE q[j]
  BY <1>2, <1>3
<1>5. r \in Seq(S) /\ Len(r) = n
  BY <1>1, <1>4
<1> QED
  BY <1>1, <1>3, <1>4, <1>5

\* Both are links again.
LEMMA LinkTyped ==
  ASSUME NEW CONSTANT l \in Link, NEW CONSTANT i, NEW CONSTANT d \in Seq(Bytes)
  PROVE  [l EXCEPT !.recv = @ + 1] \in Link /\ [l EXCEPT !.body[i] = d] \in Link
<1>1. l.funcid \in Nat /\ l.buck \in Nat /\ l.recv \in Nat /\ l.body \in Seq(Seq(Bytes))
  BY DEF Link, Bytes
<1>2. [l.body EXCEPT ![i] = d] \in Seq(Seq(Bytes))
  BY <1>1, Replaced
<1>3. [l EXCEPT !.recv = @ + 1] \in Link
  BY <1>1, CountForm DEF Link, Bytes
<1>4. [l EXCEPT !.body[i] = d] \in Link
  BY <1>1, <1>2, StoreForm DEF Link, Bytes
<1> QED
  BY <1>3, <1>4

\* A step of one goroutine, while the links stay links.
LEMMA WorkTyped ==
  ASSUME TypeInv, NEW w \in Workers, NEW CONSTANT x, work' = [work EXCEPT ![w] = x], Worked(x)',
         taken \subseteq taken', \A t \in Arrivals : links[t] \in Link => links'[t] \in Link
  PROVE  DOMAIN work' = Workers /\ \A v \in Workers : Worked(work[v])'
<1>1. DOMAIN work' = Workers /\ \A v \in Workers : work'[v] = IF v = w THEN x ELSE work[v]
  BY DEF TypeInv
<1>2. \A v \in Workers : Worked(work[v])
  BY DEF TypeInv
<1> QED
  BY <1>1, <1>2 DEF Worked

\* The senders and the network.
LEMMA NetTyped ==
  ASSUME TypeInv, \/ \E b \in Bodies : Send(b)
                  \/ \E t \in wire : Lose(t) \/ Duplicate(t)
                  \/ UNCHANGED vars
  PROVE  TypeInv'
<1>1. UNCHANGED <<taken, list, links, work, out>>
  BY DEF Send, Lose, Duplicate, vars
<1>2. unsent' \subseteq Bodies /\ wire' \subseteq Arrivals
  <2>1. CASE \E b \in Bodies : Send(b)
    <3>1. PICK b \in Bodies : Send(b)
      BY <2>1
    <3>2. \A i \in DOMAIN Rows[b] : [body |-> b, pos |-> i, copy |-> 1] \in Arrivals
      BY ReassemblyAssumption DEF Arrivals
    <3> QED
      BY <3>1, <3>2 DEF Send, TypeInv
  <2>2. CASE \E t \in wire : Lose(t)
    BY <2>2 DEF Lose, TypeInv
  <2>3. CASE \E t \in wire : Duplicate(t)
    <3>1. PICK t \in wire : Duplicate(t)
      BY <2>3
    <3>2. t \in Arrivals
      BY DEF TypeInv
    <3>3. PICK u : u = [t EXCEPT !.copy = @ + 1]
      OBVIOUS
    <3>4. u = [body |-> t.body, pos |-> t.pos, copy |-> t.copy + 1]
      BY <3>2, <3>3, Arrived
    <3>5. t.copy + 1 \in 1 .. MaxCopies
      BY <3>1, <3>2, Arrived, ReassemblyAssumption DEF Duplicate
    <3>6. u \in Arrivals
      BY <3>2, <3>4, <3>5, Arrived DEF Arrivals
    <3> QED
      BY <3>1, <3>3, <3>6 DEF Duplicate, TypeInv
  <2>4. CASE UNCHANGED vars
    BY <2>4 DEF vars, TypeInv
  <2> QED
    BY <2>1, <2>2, <2>3, <2>4
<1> QED
  BY <1>1, <1>2 DEF TypeInv, Worked

\* A frame is read.
LEMMA ReadTyped ==
  ASSUME TypeInv, NEW w \in Workers, NEW t \in wire, ReadDropped(w, t) \/ ReadWhole(w, t) \/ ReadPart(w, t)
  PROVE  TypeInv'
<1>1. /\ t \in Arrivals /\ wire' \subseteq Arrivals /\ taken' = taken \cup {t}
      /\ UNCHANGED <<unsent, list, links>>
  BY DEF ReadDropped, ReadWhole, ReadPart, Read, TypeInv
<1>2. \A d \in out' : d.frame \in taken'
  <2>1. out' = out \/ out' = out \cup {Result(t, Frame(t).Data)}
    BY DEF ReadDropped, ReadWhole, ReadPart
  <2>2. Result(t, Frame(t).Data).frame = t
    BY DEF Result
  <2> QED
    BY <1>1, <2>1, <2>2 DEF TypeInv
<1>3. DOMAIN work' = Workers /\ \A v \in Workers : Worked(work[v])'
  <2>1. CASE ReadPart(w, t)
    <3>1. PICK x : x = [at |-> "load", frame |-> t, link |-> None]
      OBVIOUS
    <3>2. work' = [work EXCEPT ![w] = x] /\ Part(t)
      BY <1>1, <2>1, <3>1 DEF ReadPart, Part
    <3>3. Worked(x)'
      BY <1>1, <3>1, <3>2 DEF Worked, WorkSet, Reading, Linked
    <3> QED
      BY <1>1, <3>2, <3>3, WorkTyped
  <2>2. CASE UNCHANGED work
    BY <1>1, <2>2 DEF TypeInv, Worked
  <2> QED
    BY <2>1, <2>2 DEF ReadDropped, ReadWhole
<1> QED
  BY <1>1, <1>2, <1>3 DEF TypeInv

\* What a goroutine at work has in hand.
LEMMA AtWork ==
  ASSUME TypeInv, NEW w \in Workers, work[w].at \in Reading
  PROVE  /\ work[w].frame \in taken /\ Part(work[w].frame) /\ work[w].frame \in Arrivals
         /\ My(w) = Frame(work[w].frame) /\ My(w).Uuid \in Numbers /\ work[w].link \in Arrivals \cup {None}
         /\ work[w].at \in Linked => work[w].link \in Arrivals /\ links[work[w].link] \in Link
<1>1. Worked(work[w])
  BY DEF TypeInv
<1>2. work[w].frame \in taken /\ Part(work[w].frame)
  BY <1>1 DEF Worked
<1> QED
  BY <1>1, <1>2, PartFrame DEF Worked, WorkSet, My, Part

\* The goroutine goes on with what it has, or is done.
LEMMA GoesOn ==
  ASSUME TypeInv, NEW w \in Workers, work[w].at \in Reading, NEW CONSTANT s,
         \/ Return(w)
         \/ Step(w, s) /\ s \in Reading /\ (s \in Linked => work[w].at \in Linked),
         UNCHANGED taken, \A t \in Arrivals : links[t] \in Link => links'[t] \in Link
  PROVE  DOMAIN work' = Workers /\ \A v \in Workers : Worked(work[v])'
<1>1. CASE Return(w)
  <2>1. work' = [work EXCEPT ![w] = Idle]
    BY <1>1 DEF Return
  <2>2. Worked(Idle)'
    BY DEF Idle, Worked, WorkSet, Reading, Linked
  <2> QED
    BY <2>1, <2>2, WorkTyped DEF Idle
<1>2. CASE Step(w, s) /\ s \in Reading /\ (s \in Linked => work[w].at \in Linked)
  <2>1. PICK x : x = [at |-> s, frame |-> work[w].frame, link |-> work[w].link]
    OBVIOUS
  <2>2. work' = [work EXCEPT ![w] = x]
    BY <1>2, <2>1, StepForm DEF Step
  <2>3. /\ work[w].frame \in taken /\ Part(work[w].frame) /\ work[w].frame \in Arrivals
        /\ work[w].link \in Arrivals \cup {None}
        /\ s \in Linked => work[w].link \in Arrivals /\ links[work[w].link] \in Link
    BY <1>2, AtWork
  <2>4. Worked(x)'
    BY <1>2, <2>1, <2>3 DEF Worked, WorkSet
  <2> QED
    BY <2>2, <2>4, WorkTyped
<1> QED
  BY <1>1, <1>2

\* The steps of ParseResp that only look.
LEMMA LooksTyped ==
  ASSUME TypeInv, NEW w \in Workers,
         \/ LoadFound(w) \/ LoadMismatched(w) \/ LoadMissing(w) \/ TestFree(w) \/ TestFilled(w)
         \/ Panic(w) \/ NotFull(w) \/ Full(w)
  PROVE  TypeInv'
<1>1. UNCHANGED <<unsent, wire, taken, list, links, out>> /\ work[w].at \in Reading
  BY DEF LoadFound, LoadMismatched, LoadMissing, TestFree, TestFilled, Panic, NotFull, Full, Reading
<1>2. DOMAIN work' = Workers /\ \A v \in Workers : Worked(work[v])'
  <2>1. CASE LoadFound(w)
    <3>1. PICK a : a = list[My(w).Uuid]
      OBVIOUS
    <3>2. a \in Arrivals /\ links[a] \in Link
      BY <1>1, <2>1, <3>1, AtWork DEF LoadFound, TypeInv
    <3>3. PICK x : x = [at |-> "test", frame |-> work[w].frame, link |-> a]
      OBVIOUS
    <3>4. work' = [work EXCEPT ![w] = x]
      BY <2>1, <3>1, <3>3, FoundForm DEF LoadFound
    <3>5. Worked(x)'
      BY <1>1, <3>2, <3>3, AtWork DEF Worked, WorkSet, Reading, Linked
    <3> QED
      BY <1>1, <3>4, <3>5, WorkTyped
  <2>2. CASE Panic(w)
    <3>1. work' = [v \in Workers |-> Dead]
      BY <2>2 DEF Panic
    <3>2. Worked(Dead)'
      BY DEF Dead, Worked, WorkSet, Reading, Linked
    <3> QED
      BY <3>1, <3>2
  <2>3. CASE LoadMismatched(w) \/ LoadMissing(w)
    <3>1. Step(w, "discard") \/ Step(w, "create")
      BY <2>3 DEF LoadMismatched, LoadMissing
    <3>2. {"discard", "create"} \subseteq Reading \ Linked
      BY DEF Reading, Linked
    <3> QED
      BY <1>1, <3>1, <3>2, GoesOn
  <2>4. CASE TestFree(w) \/ TestFilled(w) \/ NotFull(w) \/ Full(w)
    <3>1. Return(w) \/ Step(w, "count") \/ Step(w, "remove")
      BY <2>4 DEF TestFree, TestFilled, NotFull, Full
    <3>2. {"count", "remove"} \subseteq Reading /\ work[w].at \in Linked
      BY <2>4 DEF Reading, Linked, TestFree, TestFilled, NotFull, Full
    <3> QED
      BY <1>1, <3>1, <3>2, GoesOn
  <2> QED
    BY <2>1, <2>2, <2>3, <2>4
<1> QED
  BY <1>1, <1>2 DEF TypeInv

\* The steps that take the entry off the table.
LEMMA TakesOff ==
  ASSUME TypeInv, NEW w \in Workers, Discard(w) \/ HandOver(w)
  PROVE  TypeInv'
<1>1. /\ UNCHANGED <<unsent, wire, taken, links>> /\ work[w].at \in Reading /\ Return(w)
      /\ list' = [list EXCEPT ![My(w).Uuid] = None]
  BY DEF Discard, HandOver, Reading
<1>2. DOMAIN work' = Workers /\ \A v \in Workers : Worked(work[v])'
  BY <1>1, GoesOn
<1>3. /\ list' \in [Numbers -> Arrivals \cup {None}]
      /\ \A n \in Numbers : list'[n] # None => list'[n] = list[n]
  BY <1>1 DEF TypeInv
<1>4. \A d \in out' : d.frame \in taken
  <2>1. \/ out' = out
        \/ out' = out \cup {Result(work[w].frame, FlattenSeq(links[work[w].link].body))}
    BY DEF Discard, HandOver
  <2>2. \A data : Result(work[w].frame, data).frame = work[w].frame
    BY DEF Result
  <2>3. work[w].frame \in taken
    BY <1>1, AtWork
  <2> QED
    BY <2>1, <2>2, <2>3 DEF TypeInv
<1> QED
  BY <1>1, <1>2, <1>3, <1>4 DEF TypeInv

\* The steps that change a link.
LEMMA FillsTyped ==
  ASSUME TypeInv, NEW w \in Workers, CountFrame(w) \/ Store(w)
  PROVE  TypeInv'
<1>1. /\ UNCHANGED <<unsent, wire, taken, list, out>> /\ work[w].at \in Reading /\ work[w].at \in Linked
      /\ Step(w, "store") \/ Step(w, "full")
  BY DEF CountFrame, Store, Reading, Linked
<1>2. PICK a, l : a = work[w].link /\ l = links[a] /\ a \in Arrivals /\ l \in Link
  BY <1>1, AtWork
<1>3. My(w).Data \in Seq(Bytes)
  BY <1>1, AtWork, PartFrame
<1>4. PICK m : m \in Link /\ links' = [links EXCEPT ![a] = m]
  <2>1. CASE CountFrame(w)
    <3>1. links' = [links EXCEPT ![a] = [l EXCEPT !.recv = @ + 1]]
      BY <1>2, <2>1 DEF CountFrame
    <3>2. PICK m : m = [l EXCEPT !.recv = @ + 1]
      OBVIOUS
    <3>3. m \in Link
      BY <1>2, <1>3, <3>2, LinkTyped
    <3> QED
      BY <3>1, <3>2, <3>3
  <2>2. CASE Store(w)
    <3>1. PICK i, d : i = My(w).Sort /\ d = My(w).Data /\ d \in Seq(Bytes)
      BY <1>3
    <3>2. links' = [links EXCEPT ![a] = [l EXCEPT !.body[i] = d]]
      BY <1>2, <2>2, <3>1 DEF Store
    <3> QED
      BY <1>2, <3>1, <3>2, LinkTyped
  <2> QED
    BY <2>1, <2>2
<1>5. /\ DOMAIN links' = Arrivals /\ \A t \in Arrivals : links'[t] = IF t = a THEN m ELSE links[t]
  BY <1>2, <1>4 DEF TypeInv
<1>6. {"store", "full"} \subseteq Reading
  BY DEF Reading
<1>7. DOMAIN work' = Workers /\ \A v \in Workers : Worked(work[v])'
  BY <1>1, <1>4, <1>5, <1>6, GoesOn
<1>8. \A n \in Numbers : list'[n] # None => links'[list'[n]] \in Link
  BY <1>1, <1>4, <1>5 DEF TypeInv
<1> QED
  BY <1>1, <1>4, <1>5, <1>7, <1>8 DEF TypeInv

\* The new link.
NewLink(t) ==
  [funcid |-> Frame(t).Func, buck |-> Frame(t).Buck, recv |-> 1,
   body |-> [i \in 1 .. Frame(t).Buck |-> IF i = Frame(t).Sort THEN Frame(t).Data ELSE <<>>]]

\* It is a link.
LEMMA NewTyped == ASSUME NEW t, Part(t) PROVE NewLink(t) \in Link
<1>1. /\ Frame(t).Func \in Nat /\ Frame(t).Buck \in Nat /\ Frame(t).Sort \in Nat
      /\ Frame(t).Data \in Seq(Bytes)
  BY PartFrame
<1>2. <<>> \in Seq(Bytes)
  OBVIOUS
<1>3. \A n, s \in Nat, d \in Seq(Bytes) :
        [i \in 1 .. n |-> IF i = s THEN d ELSE <<>>] \in Seq(Seq(Bytes))
  <2> TAKE n, s \in Nat, d \in Seq(Bytes)
  <2>1. [i \in 1 .. n |-> IF i = s THEN d ELSE <<>>] \in [1 .. n -> Seq(Bytes)]
    BY <1>2
  <2> QED
    BY <2>1
<1> QED
  BY <1>1, <1>3 DEF NewLink, Link, Bytes

\* A link is made and entered.
LEMMA CreateTyped ==
  ASSUME TypeInv, NEW w \in Workers, Create(w)
  PROVE  TypeInv'
<1>1. /\ UNCHANGED <<unsent, wire, taken, out>> /\ work[w].at \in Reading /\ Return(w)
  BY DEF Create, Reading
<1>2. PICK t : t = work[w].frame /\ Part(t) /\ t \in Arrivals /\ My(w) = Frame(t) /\ Frame(t).Uuid \in Numbers
  BY <1>1, AtWork
<1>3. links' = [links EXCEPT ![t] = NewLink(t)] /\ list' = [list EXCEPT ![Frame(t).Uuid] = t]
  BY <1>2 DEF Create, NewLink
<1>4. NewLink(t) \in Link
  BY <1>2, NewTyped
<1>5. /\ DOMAIN links' = Arrivals /\ \A u \in Arrivals : links'[u] = IF u = t THEN NewLink(t) ELSE links[u]
  BY <1>2, <1>3 DEF TypeInv
<1>6. DOMAIN work' = Workers /\ \A v \in Workers : Worked(work[v])'
  BY <1>1, <1>4, <1>5, GoesOn
<1>7. /\ list' \in [Numbers -> Arrivals \cup {None}]
      /\ \A n \in Numbers : list'[n] = IF n = Frame(t).Uuid THEN t ELSE list[n]
  BY <1>2, <1>3 DEF TypeInv
<1>8. \A n \in Numbers : list'[n] # None => links'[list'[n]] \in Link
  BY <1>2, <1>4, <1>5, <1>7 DEF TypeInv
<1> QED
  BY <1>1, <1>4, <1>5, <1>6, <1>7, <1>8 DEF TypeInv

\* Nothing is there yet.
LEMMA InitTyped == Init => TypeInv
  BY DEF Init, TypeInv, Idle, Worked, WorkSet, Reading, Linked

\* Every step keeps the ranges.
LEMMA NextTyped == ASSUME TypeInv, [Next]_vars PROVE TypeInv'
  BY NetTyped, ReadTyped, LooksTyped, TakesOff, FillsTyped, CreateTyped
     DEF Next, ReadFrame, ParseResp, Finished

\* Every variable stays in its range, whatever is lost, duplicated and reordered and however
\* many goroutines put frames together: an entry of the table always has a link.
THEOREM TypesHold == Spec => []TypeOK
<1>1. TypeInv => TypeOK
  BY DEF TypeInv, TypeOK, Worked, WorkSet, Reading, Linked
<1> QED
  BY InitTyped, NextTyped, <1>1, PTL DEF Spec

-----------------------------------------------------------------------------
(* A frame is read once, and is behind an entry, a link or a result only     *)
(* when the goroutine that read it is done with it.                         *)

Behind(t) ==
  \/ \E n \in Numbers : list[n] = t
  \/ \E v \in Workers : work[v].at \in Linked /\ work[v].link = t
  \/ \E d \in out : d.frame = t

FreshInv ==
  /\ \A t \in wire \cup taken : t.body \notin unsent
  /\ wire \cap taken = {}
  /\ \A t \in Arrivals : Behind(t) => t \in taken
  /\ \A w \in Workers : work[w].at \in Reading => ~ Behind(work[w].frame)
  /\ \A v, w \in Workers : work[v].at \in Reading /\ work[w].at \in Reading /\ v # w =>
                             work[v].frame # work[w].frame

\* What a step of ParseResp may do, but for the link it changes.
Shape(w, x) ==
  /\ UNCHANGED <<unsent, wire, taken>> /\ work' = [work EXCEPT ![w] = x]
  /\ \/ x = Idle
     \/ x.at \in Reading /\ x.frame = work[w].frame /\ UNCHANGED <<list, out>>
  /\ x.at \in Linked => \/ work[w].at \in Linked /\ x.link = work[w].link
                        \/ x.link = list[My(w).Uuid] /\ x.link # None
  /\ \A n \in Numbers : list'[n] \in {list[n], None} \/ list'[n] = work[w].frame
  /\ \A d \in out' : d \in out \/ d.frame = work[w].frame

\* Every step of ParseResp has that shape, or ends the process.
LEMMA Shapes ==
  ASSUME TypeInv, NEW w \in Workers, ParseResp(w)
  PROVE  work[w].at \in Reading /\ (Panic(w) \/ \E x : Shape(w, x))
<1>1. CASE Panic(w)
  BY <1>1 DEF Panic, Reading
<1>2. CASE LoadFound(w)
  <2>1. PICK a, x : a = list[My(w).Uuid] /\ x = [at |-> "test", frame |-> work[w].frame, link |-> a]
    OBVIOUS
  <2>2. work' = [work EXCEPT ![w] = x]
    BY <1>2, <2>1, FoundForm DEF LoadFound
  <2> QED
    BY <1>2, <2>1, <2>2 DEF LoadFound, Shape, Reading
<1>3. ASSUME NEW CONSTANT s, Step(w, s), s \in Reading, s \in Linked => work[w].at \in Linked,
             work[w].at \in Reading, UNCHANGED <<unsent, wire, taken, list, out>>
      PROVE  \E x : Shape(w, x)
  <2>1. PICK x : x = [at |-> s, frame |-> work[w].frame, link |-> work[w].link]
    OBVIOUS
  <2>2. work' = [work EXCEPT ![w] = x]
    BY <1>3, <2>1, StepForm DEF Step
  <2>3. Shape(w, x)
    BY <1>3, <2>1, <2>2 DEF Shape
  <2> QED
    BY <2>3
<1>4. CASE LoadMismatched(w) \/ LoadMissing(w)
  <2>1. Step(w, "discard") \/ Step(w, "create")
    BY <1>4 DEF LoadMismatched, LoadMissing
  <2>2. UNCHANGED <<unsent, wire, taken, list, out>> /\ work[w].at \in Reading
    BY <1>4 DEF LoadMismatched, LoadMissing, Reading
  <2>3. {"discard", "create"} \subseteq Reading \ Linked
    BY DEF Reading, Linked
  <2> QED
    BY <1>3, <2>1, <2>2, <2>3
<1>5. CASE TestFree(w) \/ CountFrame(w) \/ Store(w) \/ Full(w)
  <2>1. Step(w, "count") \/ Step(w, "store") \/ Step(w, "full") \/ Step(w, "remove")
    BY <1>5 DEF TestFree, CountFrame, Store, Full
  <2>2. UNCHANGED <<unsent, wire, taken, list, out>> /\ work[w].at \in Reading \cap Linked
    BY <1>5 DEF TestFree, CountFrame, Store, Full, Reading, Linked
  <2>3. {"count", "store", "full", "remove"} \subseteq Reading
    BY DEF Reading
  <2> QED
    BY <1>3, <2>1, <2>2, <2>3
<1>6. CASE Discard(w) \/ HandOver(w) \/ Create(w) \/ TestFilled(w) \/ NotFull(w)
  <2>1. work' = [work EXCEPT ![w] = Idle] /\ UNCHANGED <<unsent, wire, taken>> /\ work[w].at \in Reading
    BY <1>6 DEF Discard, HandOver, Create, TestFilled, NotFull, Return, Reading
  <2>2. \A n \in Numbers : list'[n] \in {list[n], None} \/ list'[n] = work[w].frame
    BY <1>6 DEF Discard, HandOver, Create, TestFilled, NotFull, TypeInv
  <2>3. \A d \in out' : d \in out \/ d.frame = work[w].frame
    <3>1. \/ out' = out
          \/ out' = out \cup {Result(work[w].frame, FlattenSeq(links[work[w].link].body))}
      BY <1>6 DEF Discard, HandOver, Create, TestFilled, NotFull
    <3>2. \A data : Result(work[w].frame, data).frame = work[w].frame
      BY DEF Result
    <3> QED
      BY <3>1, <3>2
  <2>4. Idle.at \notin Linked
    BY DEF Idle, Linked
  <2>5. Shape(w, Idle)
    BY <2>1, <2>2, <2>3, <2>4 DEF Shape
  <2> QED
    BY <2>1, <2>5
<1> QED
  BY <1>1, <1>2, <1>4, <1>5, <1>6 DEF ParseResp

\* ParseResp: an entry, a link or a result has its frame from the goroutine, which is done with it.
LEMMA ParseFresh ==
  ASSUME TypeInv, FreshInv, NEW w \in Workers, ParseResp(w)
  PROVE  FreshInv'
<1>1. work[w].at \in Reading /\ work[w].frame \in taken
  BY Shapes, AtWork
<1>2. CASE Panic(w)
  <2>1. UNCHANGED <<unsent, wire, taken, list, out>> /\ work' = [v \in Workers |-> Dead]
    BY <1>2 DEF Panic
  <2>2. \A v \in Workers : work'[v].at \notin Reading /\ work'[v].at \notin Linked
    BY <2>1 DEF Dead, Reading, Linked
  <2>3. \A t : Behind(t)' => Behind(t)
    BY <2>1, <2>2 DEF Behind
  <2> QED
    BY <2>1, <2>2, <2>3 DEF FreshInv
<1>3. CASE \E x : Shape(w, x)
  <2>1. PICK x : Shape(w, x)
    BY <1>3
  <2>2. /\ UNCHANGED <<unsent, wire, taken>>
        /\ \A v \in Workers : work'[v] = IF v = w THEN x ELSE work[v]
    BY <2>1 DEF Shape, TypeInv
  <2>3. ASSUME NEW t \in Arrivals, Behind(t)' PROVE Behind(t) \/ (t = work[w].frame /\ x = Idle)
    <3>1. CASE \E n \in Numbers : list'[n] = t
      <4>1. PICK n \in Numbers : list'[n] = t
        BY <3>1
      <4>2. list[n] = t \/ (t = work[w].frame /\ x = Idle)
        BY <2>1, <4>1, NoneAssumption DEF Shape
      <4> QED
        BY <4>2 DEF Behind
    <3>2. CASE \E v \in Workers : work'[v].at \in Linked /\ work'[v].link = t
      <4>1. PICK v \in Workers : work'[v].at \in Linked /\ work'[v].link = t
        BY <3>2
      <4>2. CASE v = w
        <5>1. x.at \in Linked /\ x.link = t
          BY <2>2, <4>1, <4>2
        <5>2. (work[w].at \in Linked /\ t = work[w].link) \/ t = list[My(w).Uuid]
          BY <2>1, <5>1 DEF Shape
        <5> QED
          BY <1>1, <5>2, AtWork DEF Behind
      <4>3. CASE v # w
        BY <2>2, <4>1, <4>3 DEF Behind
      <4> QED
        BY <4>2, <4>3
    <3>3. CASE \E d \in out' : d.frame = t
      <4>1. PICK d \in out' : d.frame = t
        BY <3>3
      <4>2. d \in out \/ (t = work[w].frame /\ x = Idle)
        BY <2>1, <4>1 DEF Shape
      <4> QED
        BY <4>1, <4>2 DEF Behind
    <3> QED
      BY <2>3, <3>1, <3>2, <3>3 DEF Behind
  <2>4. ASSUME NEW v \in Workers, work'[v].at \in Reading
        PROVE  /\ work[v].at \in Reading /\ work'[v].frame = work[v].frame /\ work[v].frame \in Arrivals
               /\ v = w => x # Idle
    <3>1. Idle.at \notin Reading
      BY DEF Idle, Reading
    <3>2. work[v].at \in Reading /\ work'[v].frame = work[v].frame /\ (v = w => x # Idle)
      BY <1>1, <2>1, <2>2, <2>4, <3>1 DEF Shape
    <3> QED
      BY <3>2, AtWork
  <2>5. \A t \in Arrivals : Behind(t)' => t \in taken
    BY <1>1, <2>3 DEF FreshInv
  <2>6. \A v \in Workers : work'[v].at \in Reading => ~ Behind(work[v].frame)'
    BY <1>1, <2>3, <2>4 DEF FreshInv
  <2>7. \A u, v \in Workers : work'[u].at \in Reading /\ work'[v].at \in Reading /\ u # v =>
                                work'[u].frame # work'[v].frame
    BY <2>4 DEF FreshInv
  <2> QED
    BY <2>2, <2>4, <2>5, <2>6, <2>7 DEF FreshInv
<1> QED
  BY <1>2, <1>3, Shapes

\* Sending, losing and duplicating: what was read stays what was read.
LEMMA NetFresh ==
  ASSUME TypeInv, FreshInv, \/ \E b \in Bodies : Send(b)
                            \/ \E t \in wire : Lose(t) \/ Duplicate(t)
                            \/ UNCHANGED vars
  PROVE  FreshInv'
<1>1. UNCHANGED <<taken, list, work, out>>
  BY DEF Send, Lose, Duplicate, vars
<1>2. \A t : Behind(t)' <=> Behind(t)
  BY <1>1 DEF Behind
<1>3. (\A t \in wire' \cup taken : t.body \notin unsent') /\ wire' \cap taken = {}
  <2>1. CASE \E b \in Bodies : Send(b)
    <3>1. PICK b \in Bodies : Send(b)
      BY <2>1
    <3>2. b \in unsent /\ unsent' = unsent \ {b} /\ \A t \in wire' : t \in wire \/ t.body = b
      BY <3>1 DEF Send
    <3> QED
      BY <3>2 DEF FreshInv
  <2>2. CASE \E t \in wire : Lose(t)
    BY <2>2 DEF Lose, FreshInv
  <2>3. CASE \E t \in wire : Duplicate(t)
    <3>1. PICK t \in wire : Duplicate(t)
      BY <2>3
    <3>2. PICK u : u = [t EXCEPT !.copy = @ + 1]
      OBVIOUS
    <3>3. t \in Arrivals
      BY DEF TypeInv
    <3>4. u.body = t.body
      BY <3>2, <3>3, Arrived
    <3>5. UNCHANGED unsent /\ wire' = wire \cup {u} /\ u \notin taken
      BY <3>1, <3>2 DEF Duplicate
    <3> QED
      BY <3>4, <3>5 DEF FreshInv
  <2>4. CASE UNCHANGED vars
    BY <2>4 DEF vars, FreshInv
  <2> QED
    BY <2>1, <2>2, <2>3, <2>4
<1> QED
  BY <1>1, <1>2, <1>3 DEF FreshInv

\* Reading: the frame was read by nobody.
LEMMA ReadFresh ==
  ASSUME TypeInv, FreshInv, NEW w \in Workers, NEW t \in wire,
         ReadDropped(w, t) \/ ReadWhole(w, t) \/ ReadPart(w, t)
  PROVE  FreshInv'
<1>1. /\ t \in Arrivals /\ t \notin taken /\ wire' = wire \ {t} /\ taken' = taken \cup {t}
      /\ UNCHANGED <<unsent, list>> /\ work[w].at = "idle"
  BY DEF ReadDropped, ReadWhole, ReadPart, Read, TypeInv, FreshInv
<1>2. \/ UNCHANGED <<work, out>>
      \/ UNCHANGED work /\ out' = out \cup {Result(t, Frame(t).Data)}
      \/ UNCHANGED out /\ work' = [work EXCEPT ![w] = [at |-> "load", frame |-> t, link |-> None]]
  BY DEF ReadDropped, ReadWhole, ReadPart
<1>3. ASSUME NEW v \in Workers, work'[v].at \in Reading
      PROVE  \/ work'[v] = work[v] /\ work[v].at \in Reading /\ work[v].frame \in taken
             \/ v = w /\ work'[v].frame = t /\ work'[v].at = "load" /\ UNCHANGED out
  <2>1. work'[v] = work[v] \/ (v = w /\ work'[v] = [at |-> "load", frame |-> t, link |-> None] /\ UNCHANGED out)
    BY <1>2 DEF TypeInv
  <2> QED
    BY <1>3, <2>1, AtWork
<1>4. ASSUME NEW u \in Arrivals, Behind(u)' PROVE Behind(u) \/ (u = t /\ UNCHANGED work)
  <2>1. CASE \E n \in Numbers : list'[n] = u
    BY <1>1, <2>1 DEF Behind
  <2>2. CASE \E v \in Workers : work'[v].at \in Linked /\ work'[v].link = u
    <3>1. PICK v \in Workers : work'[v].at \in Linked /\ work'[v].link = u
      BY <2>2
    <3>2. work'[v] = work[v]
      BY <1>3, <3>1 DEF Linked, Reading
    <3> QED
      BY <3>1, <3>2 DEF Behind
  <2>3. CASE \E d \in out' : d.frame = u
    <3>1. Result(t, Frame(t).Data).frame = t
      BY DEF Result
    <3> QED
      BY <1>2, <2>3, <3>1 DEF Behind
  <2> QED
    BY <1>4, <2>1, <2>2, <2>3 DEF Behind
<1>5. ~ Behind(t)
  BY <1>1 DEF FreshInv
<1>6. \A u \in Arrivals : Behind(u)' => u \in taken'
  BY <1>1, <1>4 DEF FreshInv
<1>7. ASSUME NEW v \in Workers, work'[v].at \in Reading PROVE ~ Behind(work[v].frame)'
  <2>1. CASE work'[v] = work[v] /\ work[v].at \in Reading /\ work[v].frame \in taken
    <3>1. work[v].frame \in Arrivals /\ work[v].frame # t
      BY <1>1, <2>1 DEF TypeInv
    <3> QED
      BY <1>4, <2>1, <3>1 DEF FreshInv
  <2>2. CASE v = w /\ work'[v].frame = t /\ work'[v].at = "load" /\ UNCHANGED out
    <3>1. ASSUME Behind(t)' PROVE FALSE
      <4>1. UNCHANGED work
        BY <1>1, <1>4, <1>5, <3>1
      <4> QED
        BY <1>1, <2>2, <4>1
    <3> QED
      BY <2>2, <3>1
  <2> QED
    BY <1>3, <1>7, <2>1, <2>2
<1>8. \A u, v \in Workers : work'[u].at \in Reading /\ work'[v].at \in Reading /\ u # v =>
                              work'[u].frame # work'[v].frame
  BY <1>1, <1>3 DEF FreshInv
<1>9. (\A u \in wire' \cup taken' : u.body \notin unsent') /\ wire' \cap taken' = {}
  BY <1>1 DEF FreshInv
<1> QED
  BY <1>6, <1>7, <1>8, <1>9 DEF FreshInv

\* Nothing was sent or read yet.
LEMMA InitFresh == Init => FreshInv
<1>1. \A t \in Arrivals : t # None
  BY NoneAssumption
<1> QED
  BY <1>1 DEF Init, FreshInv, Behind, Idle, Reading, Linked

\* Every step keeps it.
LEMMA NextFresh == ASSUME TypeInv, FreshInv, [Next]_vars PROVE FreshInv'
  BY NetFresh, ReadFresh, ParseFresh DEF Next, ReadFrame, Finished

-----------------------------------------------------------------------------
(* The bodies are whole.                                                    *)

\* No two bodies of several frames look alike to ParseResp: it goes by the number, the
\* function and the number of frames.
Distinct ==
  \A a, b \in Bodies \ Failures :
    /\ Num[a] = Num[b] /\ Fid[a] = Fid[b]
    /\ Word(Count(Text(a))) = Word(Count(Text(b))) /\ Word(Count(Text(a))) > 1
    => a = b

\* A link for b.
Made(l, b) == l.funcid = Fid[b] /\ l.buck = Word(Count(Text(b))) /\ Len(l.body) = l.buck

\* A link for b, every place of which is empty or holds that part of b.
Holds(l, b) ==
  /\ Made(l, b)
  /\ Fits(b) => \A i \in 1 .. Count(Text(b)) : l.body[i] \in {<<>>, Chunk(Text(b), i)}

\* Each link is for the body it was made for, and is found under that body's number.
LinkInv ==
  /\ \A t \in Arrivals : links[t] # None => Part(t) /\ Made(links[t], t.body)
  /\ \A n \in Numbers : list[n] # None => Num[list[n].body] = n

\* A link holds parts of its body only, is found by the frames of that body, and stays
\* complete once it is.
WholeInv ==
  /\ \A t \in Arrivals : links[t] # None => Part(t) /\ Holds(links[t], t.body)
  /\ \A w \in Workers : work[w].at \in Linked => work[w].link.body = work[w].frame.body
  /\ \A w \in Workers : work[w].at = "remove" => Complete(links[work[w].link])
  /\ WholeBodies

\* The place of a frame and the number of frames, of a body that fits.
LEMMA Fitted ==
  ASSUME NEW t, Part(t), Fits(t.body)
  PROVE  /\ Frame(t).Sort = t.pos /\ Frame(t).Buck = Count(Text(t.body))
         /\ t.pos \in 1 .. Count(Text(t.body)) /\ Count(Text(t.body)) \in Nat
<1>1. /\ Frame(t).Sort = Word(t.pos) /\ Frame(t).Buck = Word(Count(Text(t.body)))
      /\ t.pos \in 1 .. Count(Text(t.body)) /\ t.body \in Bodies
  BY PartFrame
<1>2. Text(t.body) \in Seq(Bytes)
  BY <1>1, Texts
<1>3. Count(Text(t.body)) \in Nat
  BY <1>2, Counted
<1>4. PICK n : n = Byte * Byte /\ n \in Nat
  BY Words
<1>5. Count(Text(t.body)) \in 0 .. (n - 1) /\ t.pos \in 0 .. (n - 1)
  BY <1>1, <1>3, <1>4 DEF Fits
<1>6. \A x \in 0 .. (n - 1) : Word(x) = x
  BY <1>4, Words
<1> QED
  BY <1>1, <1>3, <1>5, <1>6

\* A new link holds the first frame found of its body ...
LEMMA NewHolds == ASSUME NEW t, Part(t) PROVE Holds(NewLink(t), t.body)
<1>1. PICK f : f = Frame(t)
  OBVIOUS
<1>2. /\ f.Func = Fid[t.body] /\ f.Buck = Word(Count(Text(t.body))) /\ f.Buck \in Nat
      /\ f.Data = Chunk(Text(t.body), t.pos)
  BY <1>1, PartFrame
<1>3. PICK q : q = [i \in 1 .. f.Buck |-> IF i = f.Sort THEN f.Data ELSE <<>>]
  OBVIOUS
<1>4. NewLink(t) = [funcid |-> f.Func, buck |-> f.Buck, recv |-> 1, body |-> q]
  BY <1>1, <1>3 DEF NewLink
<1>5. Len(q) = f.Buck
  BY <1>2, <1>3
<1>6. ASSUME Fits(t.body), NEW i \in 1 .. Count(Text(t.body))
      PROVE  q[i] \in {<<>>, Chunk(Text(t.body), i)}
  BY <1>1, <1>2, <1>3, <1>6, Fitted
<1> QED
  BY <1>2, <1>4, <1>5, <1>6 DEF Holds, Made

\* ... counting changes nothing of that ...
LEMMA CountHolds ==
  ASSUME NEW CONSTANT l \in Link, NEW b, Holds(l, b)
  PROVE  Holds([l EXCEPT !.recv = @ + 1], b)
<1>1. PICK m : m = [l EXCEPT !.recv = @ + 1]
  OBVIOUS
<1>2. m.funcid = l.funcid /\ m.buck = l.buck /\ m.body = l.body
  BY <1>1, CountForm
<1> QED
  BY <1>1, <1>2 DEF Holds, Made

\* ... and a frame is stored at its place.
LEMMA StoreHolds ==
  ASSUME NEW CONSTANT l \in Link, NEW CONSTANT t, Part(t), Holds(l, t.body)
  PROVE  Holds([l EXCEPT !.body[Frame(t).Sort] = Frame(t).Data], t.body)
<1>1. PICK i, d, m : i = Frame(t).Sort /\ d = Frame(t).Data /\ m = [l EXCEPT !.body[i] = d]
  OBVIOUS
<1>2. PICK q : q = l.body /\ q \in Seq(Seq(Bytes))
  BY DEF Link, Bytes
<1>3. d \in Seq(Bytes) /\ d = Chunk(Text(t.body), t.pos)
  BY <1>1, PartFrame
<1>4. m.funcid = l.funcid /\ m.buck = l.buck /\ m.body = [q EXCEPT ![i] = d]
  BY <1>1, <1>2, StoreForm
<1>5. Len([q EXCEPT ![i] = d]) = Len(q) /\ \A j \in 1 .. Len(q) : [q EXCEPT ![i] = d][j] = IF j = i THEN d ELSE q[j]
  BY <1>2, <1>3, Replaced
<1>6. ASSUME Fits(t.body), NEW j \in 1 .. Count(Text(t.body))
      PROVE  [q EXCEPT ![i] = d][j] \in {<<>>, Chunk(Text(t.body), j)}
  <2>1. Len(q) = Count(Text(t.body)) /\ i = t.pos
    BY <1>1, <1>2, <1>6, Fitted, PartFrame DEF Holds, Made
  <2>2. q[j] \in {<<>>, Chunk(Text(t.body), j)}
    BY <1>2, <1>6 DEF Holds, Made
  <2> QED
    BY <1>3, <1>5, <2>1, <2>2
<1> QED
  BY <1>1, <1>2, <1>4, <1>5, <1>6 DEF Holds, Made

\* A complete link stays complete, counted or stored into once more.
LEMMA StaysComplete ==
  ASSUME NEW CONSTANT l \in Link, Complete(l), Len(l.body) = l.buck,
         NEW CONSTANT i, NEW CONSTANT d \in Seq(Bytes), d # <<>>
  PROVE  Complete([l EXCEPT !.recv = @ + 1]) /\ Complete([l EXCEPT !.body[i] = d])
<1>1. l.buck \in Nat /\ l.recv \in Nat /\ l.body \in Seq(Seq(Bytes))
  BY DEF Link, Bytes
<1>2. Complete([l EXCEPT !.recv = @ + 1])
  BY <1>1, CountForm DEF Complete
<1>3. PICK m : m = [l EXCEPT !.body[i] = d]
  OBVIOUS
<1>4. m.buck = l.buck /\ m.recv = l.recv /\ m.body = [l.body EXCEPT ![i] = d]
  BY <1>3, StoreForm
<1>5. \A j \in 1 .. l.buck : m.body[j] # <<>>
  BY <1>1, <1>4, Replaced DEF Complete
<1>6. Complete(m)
  BY <1>4, <1>5 DEF Complete
<1> QED
  BY <1>2, <1>3, <1>6

\* What a step of ParseResp does to a link.
LEMMA LinkSteps ==
  ASSUME TypeInv, NEW w \in Workers, ParseResp(w), NEW a \in Arrivals
  PROVE  \/ links'[a] = links[a]
         \/ Create(w) /\ a = work[w].frame /\ links'[a] = NewLink(a)
         \/ CountFrame(w) /\ a = work[w].link /\ links'[a] = [links[a] EXCEPT !.recv = @ + 1]
         \/ Store(w) /\ a = work[w].link
              /\ links'[a] = [links[a] EXCEPT !.body[My(w).Sort] = My(w).Data]
<1>1. CASE Create(w)
  BY <1>1 DEF Create, NewLink, My, TypeInv
<1>2. CASE CountFrame(w)
  BY <1>2 DEF CountFrame, TypeInv
<1>3. CASE Store(w)
  BY <1>3 DEF Store, TypeInv
<1>4. CASE UNCHANGED links
  BY <1>4
<1> QED
  BY <1>1, <1>2, <1>3, <1>4
     DEF ParseResp, LoadFound, LoadMismatched, LoadMissing, Discard, TestFree, TestFilled, Panic,
         NotFull, Full, HandOver

\* What it does to an entry of the table.
LEMMA EntrySteps ==
  ASSUME TypeInv, NEW w \in Workers, ParseResp(w), NEW n \in Numbers, list'[n] # None
  PROVE  \/ list'[n] = list[n]
         \/ Create(w) /\ n = My(w).Uuid /\ list'[n] = work[w].frame
<1>1. CASE Create(w)
  BY <1>1 DEF Create, TypeInv
<1>2. CASE Discard(w) \/ HandOver(w)
  BY <1>2 DEF Discard, HandOver, TypeInv
<1>3. CASE UNCHANGED list
  BY <1>3
<1> QED
  BY <1>1, <1>2, <1>3
     DEF ParseResp, LoadFound, LoadMismatched, LoadMissing, TestFree, TestFilled, Panic,
         CountFrame, Store, NotFull, Full

\* How a goroutine comes to have a link.
LEMMA LinkedSteps ==
  ASSUME TypeInv, NEW w \in Workers, ParseResp(w), NEW v \in Workers, work'[v].at \in Linked
  PROVE  \/ /\ work[v].at \in Linked /\ work'[v].link = work[v].link /\ work'[v].frame = work[v].frame
            /\ work'[v].at = "remove" => work[v].at = "remove" \/ (v = w /\ Full(w))
         \/ /\ v = w /\ LoadFound(w) /\ work'[v].link = list[My(w).Uuid] /\ work'[v].frame = work[v].frame
            /\ work'[v].at = "test"
<1>1. CASE LoadFound(w)
  <2>1. PICK a, x : a = list[My(w).Uuid] /\ x = [at |-> "test", frame |-> work[w].frame, link |-> a]
    OBVIOUS
  <2>2. work' = [work EXCEPT ![w] = x]
    BY <1>1, <2>1, FoundForm DEF LoadFound
  <2> QED
    BY <1>1, <2>1, <2>2 DEF TypeInv
<1>2. ASSUME NEW CONSTANT s, Step(w, s), s \in Linked => work[w].at \in Linked, s = "remove" => Full(w)
      PROVE  /\ work[v].at \in Linked /\ work'[v].link = work[v].link /\ work'[v].frame = work[v].frame
             /\ work'[v].at = "remove" => work[v].at = "remove" \/ (v = w /\ Full(w))
  <2>1. PICK x : x = [at |-> s, frame |-> work[w].frame, link |-> work[w].link]
    OBVIOUS
  <2>2. work' = [work EXCEPT ![w] = x]
    BY <1>2, <2>1, StepForm DEF Step
  <2> QED
    BY <1>2, <2>1, <2>2 DEF TypeInv
<1>3. CASE LoadMismatched(w) \/ LoadMissing(w)
  <2>1. Step(w, "discard") \/ Step(w, "create")
    BY <1>3 DEF LoadMismatched, LoadMissing
  <2> QED
    BY <1>2, <2>1 DEF Linked
<1>4. CASE TestFree(w) \/ CountFrame(w) \/ Store(w) \/ Full(w)
  <2>1. Step(w, "count") \/ Step(w, "store") \/ Step(w, "full") \/ (Step(w, "remove") /\ Full(w))
    BY <1>4 DEF TestFree, CountFrame, Store, Full
  <2>2. work[w].at \in Linked
    BY <1>4 DEF TestFree, CountFrame, Store, Full, Linked
  <2> QED
    BY <1>2, <2>1, <2>2
<1>5. CASE Discard(w) \/ HandOver(w) \/ Create(w) \/ TestFilled(w) \/ NotFull(w)
  <2>1. work' = [work EXCEPT ![w] = Idle]
    BY <1>5 DEF Discard, HandOver, Create, TestFilled, NotFull, Return
  <2>2. Idle.at \notin Linked
    BY DEF Idle, Linked
  <2> QED
    BY <2>1, <2>2 DEF TypeInv
<1>6. CASE Panic(w)
  <2>1. work' = [u \in Workers |-> Dead]
    BY <1>6 DEF Panic
  <2>2. Dead.at \notin Linked
    BY DEF Dead, Linked
  <2> QED
    BY <2>1, <2>2
<1> QED
  BY <1>1, <1>3, <1>4, <1>5, <1>6 DEF ParseResp

\* ParseResp keeps each link for its body.
LEMMA ParseLinks ==
  ASSUME TypeInv, LinkInv, NEW w \in Workers, ParseResp(w)
  PROVE  LinkInv'
<1>1. PICK t : t = work[w].frame /\ Part(t) /\ My(w) = Frame(t) /\ t \in Arrivals
  BY Shapes, AtWork
<1>2. ASSUME NEW a \in Arrivals, links[a] # None
      PROVE  Part(a) /\ Made(links[a], a.body) /\ links[a] \in Link
  BY <1>2 DEF TypeInv, LinkInv
<1>3. CountFrame(w) \/ Store(w) => links[work[w].link] # None
  <2>1. CountFrame(w) \/ Store(w) => work[w].at \in Reading /\ work[w].at \in Linked
    BY DEF CountFrame, Store, Reading, Linked
  <2> QED
    BY <2>1, AtWork, NoneAssumption
<1>4. ASSUME NEW a \in Arrivals, links'[a] # None PROVE Part(a) /\ Made(links'[a], a.body)
  <2>1. CASE links'[a] = links[a]
    BY <1>2, <1>4, <2>1
  <2>2. CASE Create(w) /\ a = work[w].frame /\ links'[a] = NewLink(a)
    BY <1>1, <2>2, NewHolds DEF Holds
  <2>3. CASE CountFrame(w) /\ a = work[w].link /\ links'[a] = [links[a] EXCEPT !.recv = @ + 1]
    BY <1>2, <1>3, <2>3, CountForm DEF Made
  <2>4. CASE /\ Store(w) /\ a = work[w].link
             /\ links'[a] = [links[a] EXCEPT !.body[My(w).Sort] = My(w).Data]
    <3>1. PICK l, i, d : l = links[a] /\ i = My(w).Sort /\ d = My(w).Data
      OBVIOUS
    <3>2. l \in Link /\ Part(a) /\ Made(l, a.body) /\ d \in Seq(Bytes)
      BY <1>1, <1>2, <1>3, <2>4, <3>1, PartFrame
    <3>3. links'[a] = [funcid |-> l.funcid, buck |-> l.buck, recv |-> l.recv,
                       body |-> [l.body EXCEPT ![i] = d]]
      <4>1. links'[a] = [l EXCEPT !.body[i] = d]
        BY <2>4, <3>1
      <4> QED
        BY <3>2, <4>1, StoreForm
    <3>4. Len([l.body EXCEPT ![i] = d]) = Len(l.body)
      BY <3>2, Replaced DEF Link, Bytes
    <3> QED
      BY <3>2, <3>3, <3>4 DEF Made
  <2> QED
    BY <2>1, <2>2, <2>3, <2>4, LinkSteps
<1>5. ASSUME NEW n \in Numbers, list'[n] # None PROVE Num[list'[n].body] = n
  <2>1. CASE list'[n] = list[n]
    BY <1>5, <2>1 DEF LinkInv
  <2>2. CASE Create(w) /\ n = My(w).Uuid /\ list'[n] = work[w].frame
    BY <1>1, <2>2, PartFrame
  <2> QED
    BY <1>5, <2>1, <2>2, EntrySteps
<1> QED
  BY <1>4, <1>5 DEF LinkInv

\* No link was made yet.
LEMMA InitLinks == Init => LinkInv
  BY DEF Init, LinkInv

\* The other steps leave the links alone.
LEMMA NextLinks == ASSUME TypeInv, LinkInv, [Next]_vars PROVE LinkInv'
<1>1. CASE \E w \in Workers : ParseResp(w)
  BY <1>1, ParseLinks
<1>2. CASE UNCHANGED <<list, links>>
  BY <1>2 DEF LinkInv
<1> QED
  BY <1>1, <1>2 DEF Next, Send, Lose, Duplicate, ReadFrame, ReadDropped, ReadWhole, ReadPart, Finished, vars

\* The link a goroutine finds is of the body of its frame.
OwnFound(w) == list[My(w).Uuid].body = work[w].frame.body

\* That is so when no other link matches the frame.
LEMMA FoundOwn ==
  ASSUME Distinct, TypeInv, LinkInv, WholeInv, NEW w \in Workers, LoadFound(w)
  PROVE  OwnFound(w)
<1>1. PICK t, a : t = work[w].frame /\ a = list[My(w).Uuid]
  OBVIOUS
<1>2. work[w].at \in Reading /\ a # None /\ Matches(links[a], My(w))
  BY <1>1 DEF LoadFound, Reading
<1>3. Part(t) /\ My(w) = Frame(t) /\ My(w).Uuid \in Numbers
  BY <1>1, <1>2, AtWork
<1>4. a \in Arrivals /\ links[a] # None /\ Num[a.body] = Frame(t).Uuid
  BY <1>1, <1>2, <1>3, NoneAssumption DEF TypeInv, LinkInv
<1>5. Part(a) /\ Holds(links[a], a.body)
  BY <1>4 DEF WholeInv
<1>6. /\ a.body \in Bodies \ Failures /\ t.body \in Bodies \ Failures
      /\ Frame(t).Uuid = Num[t.body] /\ Frame(t).Func = Fid[t.body]
      /\ Frame(t).Buck = Word(Count(Text(t.body)))
  BY <1>3, <1>5, PartFrame
<1>7. Frame(t).Buck > 1 /\ Fid[a.body] = Fid[t.body]
      /\ Word(Count(Text(a.body))) = Word(Count(Text(t.body)))
  BY <1>2, <1>3, <1>5, <1>6 DEF Part, Matches, Holds, Made
<1> QED
  BY <1>1, <1>4, <1>6, <1>7 DEF Distinct, OwnFound

\* A complete link of a body that fits is that body.
LEMMA HandsWhole ==
  ASSUME NEW t, Part(t), Fits(t.body), NEW l \in Link, Holds(l, t.body), Complete(l)
  PROVE  FlattenSeq(l.body) = Text(t.body)
<1>1. PICK n, s : n = Count(Text(t.body)) /\ s = Text(t.body)
  OBVIOUS
<1>2. s \in Seq(Bytes) /\ s # <<>> /\ n \in Nat
  <2>1. t.body \in Bodies /\ Len(s) > BodySplit
    BY <1>1, PartFrame
  <2>2. s \in Seq(Bytes)
    BY <1>1, <2>1, Texts
  <2>3. n \in Nat /\ Len(<<>>) = 0
    BY <1>1, Fitted
  <2> QED
    BY <2>1, <2>2, <2>3, Words
<1>3. l.buck = n /\ Len(l.body) = n /\ l.body \in Seq(Seq(Bytes))
  BY <1>1, PartFrame, Fitted DEF Holds, Made, Link, Bytes
<1>4. \A i \in 1 .. n : l.body[i] = Chunk(s, i)
  BY <1>1, <1>3 DEF Holds, Made, Complete
<1>5. l.body = [i \in 1 .. n |-> Chunk(s, i)]
  <2>1. PICK q : q = l.body /\ q \in [1 .. n -> Seq(Bytes)]
    BY <1>3
  <2>2. q = [i \in 1 .. n |-> q[i]]
    BY <2>1
  <2> QED
    BY <1>4, <2>1, <2>2
<1> QED
  BY <1>1, <1>2, <1>5, Restored

\* The links.
LEMMA LinksWhole ==
  ASSUME TypeInv, FreshInv, WholeInv, NEW w \in Workers, ParseResp(w)
  PROVE  /\ \A a \in Arrivals : links'[a] # None => Part(a) /\ Holds(links'[a], a.body)
         /\ \A a \in Arrivals : links[a] # None /\ Complete(links[a]) /\ a # work[w].frame =>
                                  Complete(links'[a])
<1>1. work[w].at \in Reading
  BY Shapes
<1>2. PICK t : t = work[w].frame /\ Part(t) /\ My(w) = Frame(t)
  BY <1>1, AtWork
<1>3. ASSUME NEW a \in Arrivals, links[a] # None
      PROVE  Part(a) /\ Holds(links[a], a.body) /\ links[a] \in Link
  BY <1>3 DEF TypeInv, WholeInv
<1>4. ASSUME CountFrame(w) \/ Store(w)
      PROVE  work[w].link \in Arrivals /\ links[work[w].link] # None /\ work[w].link.body = t.body
  <2>1. work[w].at \in Linked
    BY <1>4 DEF CountFrame, Store, Linked
  <2> QED
    BY <1>1, <1>2, <2>1, AtWork, NoneAssumption DEF WholeInv
<1>5. ASSUME NEW a \in Arrivals, links'[a] # None PROVE Part(a) /\ Holds(links'[a], a.body)
  <2>1. CASE links'[a] = links[a]
    BY <1>3, <1>5, <2>1
  <2>2. CASE Create(w) /\ a = work[w].frame /\ links'[a] = NewLink(a)
    BY <1>2, <2>2, NewHolds
  <2>3. CASE CountFrame(w) /\ a = work[w].link /\ links'[a] = [links[a] EXCEPT !.recv = @ + 1]
    BY <1>3, <1>4, <2>3, CountHolds
  <2>4. CASE /\ Store(w) /\ a = work[w].link
             /\ links'[a] = [links[a] EXCEPT !.body[My(w).Sort] = My(w).Data]
    <3>1. PICK l : l = links[a]
      OBVIOUS
    <3>2. l \in Link /\ Part(a) /\ Holds(l, t.body) /\ a.body = t.body
      BY <1>3, <1>4, <2>4, <3>1
    <3>3. links'[a] = [l EXCEPT !.body[Frame(t).Sort] = Frame(t).Data]
      BY <1>2, <2>4, <3>1
    <3> QED
      BY <1>2, <3>2, <3>3, StoreHolds
  <2> QED
    BY <2>1, <2>2, <2>3, <2>4, LinkSteps
<1>6. ASSUME NEW a \in Arrivals, links[a] # None, Complete(links[a]), a # work[w].frame
      PROVE  Complete(links'[a])
  <2>1. PICK l : l = links[a] /\ l \in Link /\ Len(l.body) = l.buck /\ Complete(l)
    BY <1>3, <1>6 DEF Holds, Made
  <2>2. Frame(t).Data \in Seq(Bytes) /\ Frame(t).Data # <<>>
    BY <1>2, PartFrame
  <2>3. PICK i, d : i = Frame(t).Sort /\ d = Frame(t).Data
    OBVIOUS
  <2>4. Complete([l EXCEPT !.recv = @ + 1]) /\ Complete([l EXCEPT !.body[i] = d])
    BY <2>1, <2>2, <2>3, StaysComplete
  <2>5. \/ links'[a] = l
        \/ links'[a] = [l EXCEPT !.recv = @ + 1]
        \/ links'[a] = [l EXCEPT !.body[i] = d]
    BY <1>2, <1>6, <2>1, <2>3, LinkSteps
  <2> QED
    BY <2>1, <2>4, <2>5
<1> QED
  BY <1>5, <1>6

\* What ParseResp hands over is whole.
LEMMA HandOverWhole ==
  ASSUME TypeInv, WholeInv, NEW w \in Workers, HandOver(w)
  PROVE  WholeBodies'
<1>1. work[w].at \in Reading /\ work[w].at \in Linked /\ work[w].at = "remove"
  BY DEF HandOver, Reading, Linked
<1>2. PICK t, a : /\ t = work[w].frame /\ Part(t) /\ a = work[w].link /\ a \in Arrivals /\ links[a] \in Link
  BY <1>1, AtWork
<1>3. links[a] # None /\ a.body = t.body /\ Complete(links[a])
  BY <1>1, <1>2, NoneAssumption DEF WholeInv
<1>4. Part(a) /\ Holds(links[a], t.body)
  BY <1>2, <1>3 DEF WholeInv
<1>5. PICK r : r = Result(t, FlattenSeq(links[a].body)) /\ out' = out \cup {r}
  BY <1>2 DEF HandOver
<1>6. Fits(t.body) => FlattenSeq(links[a].body) = Text(t.body)
  BY <1>2, <1>3, <1>4, HandsWhole
<1>7. Frame(t).Uuid = Num[t.body] /\ Frame(t).Func = Fid[t.body]
  BY <1>2, PartFrame
<1>8. r.frame = t /\ (Fits(t.body) => r.uuid = Num[t.body] /\ r.func = Fid[t.body] /\ r.data = Text(t.body))
  BY <1>5, <1>6, <1>7 DEF Result
<1> QED
  BY <1>5, <1>8 DEF WholeInv, WholeBodies, Fits

\* A step of ParseResp.
LEMMA ParseWhole ==
  ASSUME TypeInv, FreshInv, LinkInv, WholeInv, NEW w \in Workers, ParseResp(w), LoadFound(w) => OwnFound(w)
  PROVE  WholeInv'
<1>1. work[w].at \in Reading
  BY Shapes
<1>2. \A a \in Arrivals : links'[a] # None => Part(a) /\ Holds(links'[a], a.body)
  BY LinksWhole
<1>4. ASSUME NEW v \in Workers, work'[v].at \in Linked PROVE work'[v].link.body = work'[v].frame.body
  <2>1. CASE work[v].at \in Linked /\ work'[v].link = work[v].link /\ work'[v].frame = work[v].frame
    BY <2>1 DEF WholeInv
  <2>2. CASE /\ v = w /\ LoadFound(w) /\ work'[v].link = list[My(w).Uuid]
             /\ work'[v].frame = work[v].frame
    BY <2>2 DEF OwnFound
  <2> QED
    BY <1>4, <2>1, <2>2, LinkedSteps
<1>5. ASSUME NEW v \in Workers, work'[v].at = "remove" PROVE Complete(links'[work'[v].link])
  <2>1. work'[v].at \in Linked
    BY <1>5 DEF Linked
  <2>2. /\ work[v].at \in Linked /\ work'[v].link = work[v].link
        /\ work[v].at = "remove" \/ (v = w /\ Full(w))
    BY <1>5, <2>1, LinkedSteps
  <2>3. PICK a : a = work[v].link /\ a \in Arrivals /\ links[a] # None /\ Behind(a)
    <3>1. work[v].at \in Reading
      BY <2>2 DEF Linked, Reading
    <3> QED
      BY <2>2, <3>1, AtWork, NoneAssumption DEF Behind
  <2>4. Complete(links[a])
    BY <2>2, <2>3 DEF WholeInv, Full
  <2>5. a # work[w].frame
    BY <1>1, <2>3 DEF FreshInv
  <2>6. Complete(links'[a])
    BY <2>3, <2>4, <2>5, LinksWhole
  <2> QED
    BY <2>2, <2>3, <2>6
<1>6. WholeBodies'
  <2>1. CASE HandOver(w)
    BY <2>1, HandOverWhole
  <2>2. CASE out' = out
    BY <2>2 DEF WholeBodies, WholeInv
  <2> QED
    BY <2>1, <2>2 DEF ParseResp, LoadFound, LoadMismatched, LoadMissing, Discard, TestFree, TestFilled,
                      Panic, CountFrame, Store, NotFull, Full, Create
<1> QED
  BY <1>2, <1>4, <1>5, <1>6 DEF WholeInv

\* A frame is read: it is a body of one frame, or the start of ParseResp.
LEMMA ReadKeepsWhole ==
  ASSUME TypeInv, WholeInv, NEW w \in Workers, NEW t \in wire,
         ReadDropped(w, t) \/ ReadWhole(w, t) \/ ReadPart(w, t)
  PROVE  WholeInv'
<1>1. UNCHANGED <<list, links>> /\ t \in Arrivals
  BY DEF ReadDropped, ReadWhole, ReadPart, TypeInv
<1>2. \A v \in Workers : work'[v] = work[v] \/ work'[v].at = "load"
  BY DEF ReadDropped, ReadWhole, ReadPart, TypeInv
<1>3. WholeBodies'
  <2>1. CASE ReadWhole(w, t)
    <3>1. PICK r : r = Result(t, Frame(t).Data) /\ out' = out \cup {r}
      BY <2>1 DEF ReadWhole
    <3>2. ~ Failed(Rows[t.body][t.pos]) /\ Frame(t).Buck = 1
      BY <2>1 DEF ReadWhole
    <3>3. Fits(t.body) =>
            Frame(t).Uuid = Num[t.body] /\ Frame(t).Func = Fid[t.body] /\ Frame(t).Data = Text(t.body)
      BY <1>1, <3>2, WholeFrame
    <3>4. r.frame = t /\ (Fits(t.body) => r.uuid = Num[t.body] /\ r.func = Fid[t.body] /\ r.data = Text(t.body))
      BY <3>1, <3>3 DEF Result
    <3> QED
      BY <3>1, <3>4 DEF WholeInv, WholeBodies, Fits
  <2>2. CASE UNCHANGED out
    BY <2>2 DEF WholeBodies, WholeInv
  <2> QED
    BY <2>1, <2>2 DEF ReadDropped, ReadPart
<1>4. "load" \notin Linked /\ "load" # "remove"
  BY DEF Linked
<1> QED
  BY <1>1, <1>2, <1>3, <1>4 DEF WholeInv

\* The senders and the network touch nothing of it.
LEMMA NetWhole ==
  ASSUME WholeInv, \/ \E b \in Bodies : Send(b)
                   \/ \E t \in wire : Lose(t) \/ Duplicate(t)
                   \/ UNCHANGED vars
  PROVE  WholeInv'
<1>1. UNCHANGED <<list, links, work, out>>
  BY DEF Send, Lose, Duplicate, vars
<1> QED
  BY <1>1 DEF WholeInv, WholeBodies

\* Nothing was found or returned yet.
LEMMA InitWhole == Init => WholeInv
  BY DEF Init, WholeInv, WholeBodies, Idle, Linked

\* Every step keeps it.
LEMMA NextWhole ==
  ASSUME TypeInv, FreshInv, LinkInv, WholeInv, [Next]_vars,
         \A w \in Workers : LoadFound(w) => OwnFound(w)
  PROVE  WholeInv'
  BY NetWhole, ReadKeepsWhole, ParseWhole DEF Next, ReadFrame, Finished

\* encode_test.go, "make body not equal parse": whatever is lost, duplicated and reordered, however
\* many goroutines put frames together, and with numbers that are in use for several functions:
\* what ParseResp returns is a body that was sent, unless it has more frames than its header can
\* say or two bodies look alike.
THEOREM WholeHolds == ASSUME Distinct PROVE Spec => []WholeBodies
<1>1. Init => TypeInv /\ FreshInv /\ LinkInv /\ WholeInv
  BY InitTyped, InitFresh, InitLinks, InitWhole
<1>2. TypeInv /\ FreshInv /\ LinkInv /\ WholeInv /\ [Next]_vars => (TypeInv /\ FreshInv /\ LinkInv /\ WholeInv)'
  BY NextTyped, NextFresh, NextLinks, FoundOwn, NextWhole
<1>3. TypeInv /\ FreshInv /\ LinkInv /\ WholeInv => WholeBodies
  BY DEF WholeInv
<1> QED
  BY <1>1, <1>2, <1>3, PTL DEF Spec

-----------------------------------------------------------------------------
(* With one goroutine nothing is forgotten.                                 *)

\* What the goroutine knows of the table and its link still holds.
SoloInv(w) ==
  /\ work[w].at \in Linked => work[w].link = list[My(w).Uuid]
  /\ work[w].at = "create" => list[My(w).Uuid] = None
  /\ work[w].at = "remove" => Complete(links[work[w].link])

\* A body of several frames, that ParseResp must not forget.
Parts(b) == b \in Bodies \ Failures /\ Fits(b) /\ Len(Text(b)) > BodySplit

\* The goroutine has a frame of b, and is at one of these steps.
Has(w, b, steps) == work[w].at \in steps /\ work[w].frame.body = b
Returned(b)  == \E d \in out : d.frame.body = b
Filled(l)    == {i \in 1 .. l.buck : l.body[i] # <<>>}

\* Every frame read of b is in its link, but for the one in the goroutine's hands, and nothing else;
\* the link counts at least the places filled; and one place is empty, until the last is stored.
KeptLink(w, b, l) ==
  /\ \A i \in 1 .. l.buck : l.body[i] # <<>> => \E t \in taken : t.body = b /\ t.pos = i
  /\ \A t \in taken : t.body = b => l.body[t.pos] # <<>> \/ (Has(w, b, Reading) /\ t = work[w].frame)
  /\ Cardinality(Filled(l)) + (IF Has(w, b, {"store"}) THEN 1 ELSE 0) <= l.recv
  /\ Filled(l) = 1 .. l.buck => Has(w, b, {"full", "remove"})
  /\ Has(w, b, {"count", "store"}) => l.body[work[w].frame.pos] = <<>>
  /\ Has(w, b, {"full", "remove"}) => l.body[work[w].frame.pos] # <<>>

KeptBody(w, b) ==
  /\ ~ Has(w, b, {"discard"})
  /\ list[Num[b]] = None =>
       \A t \in taken : t.body = b => Has(w, b, Reading) /\ t = work[w].frame
  /\ list[Num[b]] # None => list[Num[b]].body = b /\ KeptLink(w, b, links[list[Num[b]]])

\* A body of one frame is returned as it is read; one of several frames is kept until it is.
KeptInv(w) ==
  /\ \A t \in taken : t.body \notin Failures /\ Len(Text(t.body)) <= BodySplit => Returned(t.body)
  /\ work[w] # Dead => \A b \in Bodies : Parts(b) /\ Alone(b) => Returned(b) \/ KeptBody(w, b)

\* Where a step of the goroutine leads.
LEMMA Goes ==
  ASSUME TypeInv, NEW w \in Workers
  PROVE  /\ \A s \in Reading :
              Step(w, s) => work'[w] = [at |-> s, frame |-> work[w].frame, link |-> work[w].link]
         /\ Return(w) => work'[w] = Idle
         /\ LoadFound(w) => work'[w] = [at |-> "test", frame |-> work[w].frame, link |-> list[My(w).Uuid]]
<1>1. ASSUME NEW s \in Reading, Step(w, s)
      PROVE  work'[w] = [at |-> s, frame |-> work[w].frame, link |-> work[w].link]
  <2>1. PICK x : x = [at |-> s, frame |-> work[w].frame, link |-> work[w].link]
    OBVIOUS
  <2>2. work' = [work EXCEPT ![w] = x]
    BY <1>1, <2>1, StepForm DEF Step
  <2> QED
    BY <2>1, <2>2 DEF TypeInv
<1>2. PICK a, y : a = list[My(w).Uuid] /\ y = [at |-> "test", frame |-> work[w].frame, link |-> a]
  OBVIOUS
<1>3. LoadFound(w) => work' = [work EXCEPT ![w] = y]
  BY <1>2, FoundForm DEF LoadFound
<1> QED
  BY <1>1, <1>2, <1>3 DEF TypeInv, Return

\* The steps that only the goroutine takes do not make its knowledge stale.
LEMMA NextSolo ==
  ASSUME NEW CONSTANT w, Workers = {w}, TypeInv, SoloInv(w), [Next]_vars
  PROVE  SoloInv(w)'
<1>1. CASE ParseResp(w)
  <2>1. CASE LoadFound(w)
    <3>1. work'[w] = [at |-> "test", frame |-> work[w].frame, link |-> list[My(w).Uuid]] /\ UNCHANGED list
      BY <2>1, Goes DEF LoadFound
    <3> QED
      BY <3>1 DEF SoloInv, My
  <2>2. CASE LoadMismatched(w) \/ LoadMissing(w)
    <3>1. /\ Step(w, "discard") \/ (Step(w, "create") /\ list[My(w).Uuid] = None)
          /\ UNCHANGED list
      BY <2>2 DEF LoadMismatched, LoadMissing
    <3>2. work'[w].frame = work[w].frame /\ (work'[w].at = "discard" \/ (work'[w].at = "create" /\ list[My(w).Uuid] = None))
      BY <3>1, Goes DEF Reading
    <3> QED
      BY <3>1, <3>2 DEF SoloInv, My, Linked
  <2>3. CASE TestFree(w) \/ CountFrame(w) \/ Store(w) \/ Full(w)
    <3>1. /\ \/ Step(w, "count") \/ Step(w, "store") \/ Step(w, "full")
             \/ Step(w, "remove") /\ Complete(links[work[w].link]) /\ UNCHANGED links
          /\ work[w].at \in Linked /\ UNCHANGED list
      BY <2>3 DEF TestFree, CountFrame, Store, Full, Linked
    <3>2. /\ work'[w].frame = work[w].frame /\ work'[w].link = work[w].link /\ work'[w].at # "create"
          /\ work'[w].at = "remove" => Complete(links[work[w].link]) /\ UNCHANGED links
      BY <3>1, Goes DEF Reading
    <3> QED
      BY <3>1, <3>2 DEF SoloInv, My
  <2>4. CASE Discard(w) \/ HandOver(w) \/ Create(w) \/ TestFilled(w) \/ NotFull(w) \/ Panic(w)
    <3>1. work'[w] = Idle \/ work'[w] = Dead
      BY <2>4, Goes DEF Discard, HandOver, Create, TestFilled, NotFull, Panic
    <3> QED
      BY <3>1 DEF SoloInv, Idle, Dead, Linked
  <2> QED
    BY <1>1, <2>1, <2>2, <2>3, <2>4 DEF ParseResp
<1>2. CASE UNCHANGED <<list, links, work>>
  BY <1>2 DEF SoloInv, My
<1>3. ASSUME NEW t \in wire, ReadPart(w, t) PROVE SoloInv(w)'
  <2>1. work'[w].at = "load"
    BY <1>3 DEF ReadPart, TypeInv
  <2> QED
    BY <2>1 DEF SoloInv, Linked
<1> QED
  BY <1>1, <1>2, <1>3 DEF Next, Send, Lose, Duplicate, ReadFrame, ReadDropped, ReadWhole, Finished, vars

\* The link of such a body.
LEMMA OwnLink ==
  ASSUME TypeInv, LinkInv, NEW w, NEW b, Parts(b), KeptBody(w, b), list[Num[b]] # None
  PROVE  /\ list[Num[b]] \in Arrivals /\ list[Num[b]].body = b
         /\ links[list[Num[b]]] \in Link /\ Made(links[list[Num[b]]], b)
<1>1. b \in Bodies /\ Num[b] \in Numbers
  BY Numbered DEF Parts
<1>2. list[Num[b]] \in Arrivals /\ links[list[Num[b]]] \in Link /\ links[list[Num[b]]] # None
  BY <1>1, NoneAssumption DEF TypeInv, LinkInv
<1>3. list[Num[b]].body = b
  BY DEF KeptBody
<1> QED
  BY <1>1, <1>2, <1>3 DEF LinkInv

\* A frame of such a body, in the goroutine's hands.
LEMMA OwnFrame ==
  ASSUME TypeInv, NEW w \in Workers, NEW b, Parts(b), Has(w, b, Reading)
  PROVE  /\ Part(work[w].frame) /\ work[w].frame \in taken /\ work[w].frame.body = b
         /\ My(w) = Frame(work[w].frame)
         /\ My(w).Uuid = Num[b] /\ Num[b] \in Numbers /\ My(w).Sort = work[w].frame.pos
         /\ My(w).Func = Fid[b] /\ My(w).Buck = Word(Count(Text(b))) /\ My(w).Buck \in Nat /\ My(w).Buck > 1
         /\ work[w].frame.pos \in 1 .. My(w).Buck
         /\ My(w).Data \in Seq(Bytes) /\ My(w).Data # <<>>
<1>1. PICK t : /\ t = work[w].frame /\ t \in taken /\ Part(t) /\ My(w) = Frame(t) /\ t.body = b
  BY AtWork DEF Has
<1>2. /\ Frame(t).Sort = t.pos /\ Frame(t).Buck = Count(Text(b)) /\ t.pos \in 1 .. Count(Text(b))
      /\ Count(Text(b)) \in Nat
  BY <1>1, Fitted DEF Parts
<1>3. Num[b] \in Numbers
  BY Numbered DEF Parts
<1> QED
  BY <1>1, <1>2, <1>3, PartFrame DEF Part

\* The goroutine works for another body, or not at all: its steps are of no concern to b.
LEMMA OtherKept ==
  ASSUME NEW CONSTANT w, Workers = {w}, TypeInv, FreshInv, LinkInv, SoloInv(w),
         NEW b, Parts(b), KeptBody(w, b), ParseResp(w), Num[work[w].frame.body] # Num[b]
  PROVE  KeptBody(w, b)' /\ list'[Num[b]] = list[Num[b]]
<1>1. PICK t : t = work[w].frame /\ Part(t) /\ My(w) = Frame(t) /\ work[w].at \in Reading /\ t.body # b
  BY Shapes, AtWork
<1>2. Num[t.body] # Num[b] /\ My(w).Uuid = Num[t.body] /\ Num[b] \in Numbers /\ Num[t.body] \in Numbers
  BY <1>1, PartFrame, Numbered DEF Parts
<1>3. ~ Has(w, b, Reading)'
  <2>1. \/ work'[w] \in {Idle, Dead}
        \/ work'[w].frame = t
    <3>1. CASE Panic(w)
      BY <3>1 DEF Panic
    <3>2. CASE \E x : Shape(w, x)
      BY <1>1, <3>2 DEF Shape, TypeInv
    <3> QED
      BY <3>1, <3>2, Shapes
  <2> QED
    BY <1>1, <2>1 DEF Has, Idle, Dead, Reading
<1>4. list'[Num[b]] = list[Num[b]] /\ taken' = taken
  <2>1. list' = list \/ (\E v : list' = [list EXCEPT ![Num[t.body]] = v])
    BY <1>2 DEF ParseResp, LoadFound, LoadMismatched, LoadMissing, Discard, TestFree, TestFilled, Panic,
                CountFrame, Store, NotFull, Full, HandOver, Create
  <2>2. taken' = taken
    BY DEF ParseResp, LoadFound, LoadMismatched, LoadMissing, Discard, TestFree, TestFilled, Panic,
           CountFrame, Store, NotFull, Full, HandOver, Create
  <2> QED
    BY <1>2, <2>1, <2>2 DEF TypeInv
<1>5. list[Num[b]] # None => links'[list[Num[b]]] = links[list[Num[b]]]
  <2>1. SUFFICES ASSUME list[Num[b]] # None PROVE links'[list[Num[b]]] = links[list[Num[b]]]
    OBVIOUS
  <2>2. PICK a : a = list[Num[b]] /\ a \in Arrivals /\ a.body = b /\ Behind(a)
    BY <1>2, <2>1, OwnLink DEF Behind
  <2>3. a # t
    BY <1>1, <2>2
  <2>4. CountFrame(w) \/ Store(w) => a # work[w].link
    <3>1. SUFFICES ASSUME CountFrame(w) \/ Store(w), a = work[w].link PROVE FALSE
      OBVIOUS
    <3>2. work[w].at \in Linked
      BY <3>1 DEF CountFrame, Store, Linked
    <3>3. a = list[Num[t.body]]
      BY <1>2, <3>1, <3>2 DEF SoloInv
    <3>4. Num[a.body] = Num[t.body]
      BY <1>2, <2>1, <2>2, <3>3 DEF LinkInv
    <3> QED
      BY <1>2, <2>2, <3>4
  <2> QED
    BY <1>1, <2>2, <2>3, <2>4, LinkSteps
<1>6. \A s \in SUBSET Reading : ~ Has(w, b, s) /\ ~ Has(w, b, s)'
  BY <1>1, <1>3 DEF Has
<1>7. {"discard"} \subseteq Reading /\ {"store"} \subseteq Reading /\ {"full", "remove"} \subseteq Reading
      /\ {"count", "store"} \subseteq Reading
  BY DEF Reading
<1>8. list[Num[b]] = None => \A u \in taken : u.body # b
  BY <1>6 DEF KeptBody
<1>9. list[Num[b]] # None => KeptLink(w, b, links[list[Num[b]]])'
  <2>1. SUFFICES ASSUME list[Num[b]] # None PROVE KeptLink(w, b, links[list[Num[b]]])'
    OBVIOUS
  <2>2. PICK l : l = links[list[Num[b]]] /\ l = links'[list'[Num[b]]] /\ KeptLink(w, b, l)
    BY <1>4, <1>5, <2>1 DEF KeptBody
  <2>3. /\ \A u \in taken : u.body = b => l.body[u.pos] # <<>>
        /\ Cardinality(Filled(l)) + 0 <= l.recv /\ Filled(l) # 1 .. l.buck
        /\ \A i \in 1 .. l.buck : l.body[i] # <<>> => \E u \in taken : u.body = b /\ u.pos = i
    BY <1>6, <1>7, <2>2 DEF KeptLink
  <2>4. KeptLink(w, b, l)'
    BY <1>4, <1>6, <1>7, <2>2, <2>3 DEF KeptLink, Filled
  <2> QED
    BY <2>2, <2>4
<1> QED
  BY <1>4, <1>6, <1>7, <1>8, <1>9 DEF KeptBody

\* The places of a link are finitely many, and one more filled is one more.
LEMMA FilledMore ==
  ASSUME NEW l \in Link, NEW i \in 1 .. l.buck
  PROVE  /\ Filled(l) \subseteq 1 .. l.buck /\ IsFiniteSet(Filled(l)) /\ Cardinality(Filled(l)) \in Nat
         /\ i \notin Filled(l) => Cardinality(Filled(l) \cup {i}) = Cardinality(Filled(l)) + 1
         /\ Filled(l) = 1 .. l.buck => Cardinality(Filled(l)) = l.buck
<1>1. l.buck \in Nat
  BY DEF Link
<1>2. IsFiniteSet(1 .. l.buck) /\ Cardinality(1 .. l.buck) = l.buck
  <2>1. PICK n : n = l.buck /\ n \in Nat
    BY <1>1
  <2>2. \A j, k \in Int :
          IsFiniteSet(j .. k) /\ Cardinality(j .. k) = IF j > k THEN 0 ELSE k - j + 1
    BY FS_Interval
  <2>3. 1 \in Int /\ n \in Int /\ (1 > n => n = 0) /\ n - 1 + 1 = n
    BY <2>1
  <2> QED
    BY <2>1, <2>2, <2>3
<1>3. Filled(l) \subseteq 1 .. l.buck
  BY DEF Filled
<1>4. IsFiniteSet(Filled(l))
  BY <1>2, <1>3, FS_Subset
<1> QED
  BY <1>2, <1>3, <1>4, FS_CardinalityType, FS_AddElement

\* The goroutine looks its body up in the table.
LEMMA LookKept ==
  ASSUME NEW CONSTANT w, Workers = {w}, TypeInv, LinkInv, SoloInv(w),
         NEW b, Parts(b), KeptBody(w, b), Has(w, b, Reading),
         LoadFound(w) \/ LoadMismatched(w) \/ LoadMissing(w) \/ TestFree(w) \/ Full(w)
  PROVE  KeptBody(w, b)'
<1>1. PICK t, a, l : t = work[w].frame /\ a = list[Num[b]] /\ l = links[a]
  OBVIOUS
<1>2. /\ My(w).Uuid = Num[b] /\ My(w).Sort = t.pos /\ t.body = b /\ My(w).Sort # 0
      /\ My(w).Func = Fid[b] /\ My(w).Buck = Word(Count(Text(b)))
  BY <1>1, OwnFrame
<1>3. UNCHANGED <<taken, list, links>>
  BY DEF LoadFound, LoadMismatched, LoadMissing, TestFree, Full
<1>4. ~ LoadMismatched(w)
  BY <1>2, OwnLink DEF LoadMismatched, Matches, Made
<1>5. PICK s : /\ s \in {"test", "create", "count", "remove"}
               /\ work'[w].at = s /\ work'[w].frame = t
               /\ s = "create" => a = None
               /\ s = "count" => l.body[t.pos] = <<>>
               /\ s = "remove" <=> work[w].at = "full"
  <2>1. CASE LoadFound(w)
    BY <1>1, <2>1, Goes DEF LoadFound
  <2>2. CASE LoadMissing(w)
    <3>1. Step(w, "create") /\ a = None /\ work[w].at = "load"
      BY <1>1, <1>2, <2>2 DEF LoadMissing
    <3> QED
      BY <1>1, <3>1, Goes DEF Reading
  <2>3. CASE TestFree(w)
    <3>1. Step(w, "count") /\ l.body[t.pos] = <<>> /\ work[w].at = "test"
      BY <1>1, <1>2, <2>3 DEF TestFree, SoloInv, Linked
    <3> QED
      BY <1>1, <3>1, Goes DEF Reading
  <2>4. CASE Full(w)
    <3>1. Step(w, "remove") /\ work[w].at = "full"
      BY <2>4 DEF Full
    <3> QED
      BY <1>1, <3>1, Goes DEF Reading
  <2> QED
    BY <1>4, <2>1, <2>2, <2>3, <2>4
<1>6. work[w].at \in {"load", "test", "full"}
  BY <1>4 DEF LoadFound, LoadMissing, TestFree, Full
<1>7. Has(w, b, Reading)' /\ ~ Has(w, b, {"discard"})'
  BY <1>2, <1>5 DEF Has, Reading
<1>8. ASSUME a # None PROVE KeptLink(w, b, l)'
  <2>1. KeptLink(w, b, l)
    BY <1>1, <1>8 DEF KeptBody
  <2>2. /\ \A u \in taken : u.body = b => l.body[u.pos] # <<>> \/ u = t
        /\ \A i \in 1 .. l.buck : l.body[i] # <<>> => \E u \in taken : u.body = b /\ u.pos = i
    BY <1>1, <2>1 DEF KeptLink
  <2>3. ~ Has(w, b, {"store"}) /\ ~ Has(w, b, {"store"})'
    BY <1>5, <1>6 DEF Has
  <2>4. Has(w, b, {"full", "remove"}) => Has(w, b, {"full", "remove"})'
    BY <1>2, <1>5, <1>6 DEF Has
  <2>5. Has(w, b, {"count", "store"})' => l.body[t.pos] = <<>>
    BY <1>5 DEF Has
  <2>6. Has(w, b, {"full", "remove"})' => l.body[t.pos] # <<>>
    BY <1>1, <1>2, <1>5, <2>1 DEF Has, KeptLink
  <2> QED
    BY <1>1, <1>3, <1>5, <1>7, <2>1, <2>2, <2>3, <2>4, <2>5, <2>6 DEF KeptLink, Filled
<1>9. a = None => \A u \in taken : u.body = b => u = t
  BY <1>1 DEF KeptBody
<1> QED
  BY <1>1, <1>3, <1>5, <1>7, <1>8, <1>9 DEF KeptBody

\* The goroutine is done with its frame: it is in the link already, or now.
LEMMA DoneKept ==
  ASSUME NEW CONSTANT w, Workers = {w}, TypeInv, LinkInv, SoloInv(w),
         NEW b, Parts(b), KeptBody(w, b), Has(w, b, Reading), TestFilled(w) \/ NotFull(w)
  PROVE  KeptBody(w, b)'
<1>1. PICK t, a, l : t = work[w].frame /\ a = list[Num[b]] /\ l = links[a]
  OBVIOUS
<1>2. My(w).Uuid = Num[b] /\ My(w).Sort = t.pos /\ t.body = b /\ t.pos \in 1 .. My(w).Buck /\ t \in taken
      /\ My(w).Buck = Word(Count(Text(b))) /\ Num[b] \in Numbers
  BY <1>1, OwnFrame
<1>3. UNCHANGED <<taken, list, links>> /\ work[w].at \in {"test", "full"} /\ work'[w] = Idle
  BY Goes DEF TestFilled, NotFull
<1>4. a = work[w].link /\ a # None
  <2>1. work[w].at \in Reading /\ work[w].at \in Linked
    BY <1>3 DEF Reading, Linked
  <2> QED
    BY <1>1, <1>2, <2>1, AtWork, NoneAssumption DEF SoloInv
<1>5. KeptLink(w, b, l) /\ l \in Link /\ l.buck = Word(Count(Text(b)))
  BY <1>1, <1>4, OwnLink DEF KeptBody, Made
<1>6. l.body[t.pos] # <<>>
  <2>1. CASE TestFilled(w)
    BY <1>1, <1>2, <1>4, <2>1 DEF TestFilled
  <2>2. CASE NotFull(w)
    <3>1. Has(w, b, {"full", "remove"})
      BY <1>1, <1>2, <2>2 DEF Has, NotFull
    <3> QED
      BY <1>1, <1>5, <3>1 DEF KeptLink
  <2> QED
    BY <2>1, <2>2
<1>7. Filled(l) # 1 .. l.buck
  <2>1. CASE work[w].at = "test"
    BY <1>5, <2>1 DEF KeptLink, Has
  <2>2. CASE NotFull(w)
    <3>1. SUFFICES ASSUME Filled(l) = 1 .. l.buck PROVE FALSE
      OBVIOUS
    <3>2. Cardinality(Filled(l)) = l.buck
      BY <1>2, <1>5, <3>1, FilledMore
    <3>3. ~ Has(w, b, {"store"}) /\ l.recv \in Nat /\ l.buck \in Nat
      BY <1>5, <2>2 DEF Has, NotFull, Link
    <3>4. l.recv >= l.buck
      BY <1>5, <3>2, <3>3 DEF KeptLink
    <3>5. \A i \in 1 .. l.buck : l.body[i] # <<>>
      BY <3>1 DEF Filled
    <3> QED
      BY <1>1, <1>4, <2>2, <3>4, <3>5 DEF NotFull, Complete
  <2> QED
    BY <2>1, <2>2 DEF TestFilled
<1>8. \A s \in SUBSET Reading : ~ Has(w, b, s)'
  BY <1>3 DEF Has, Idle, Reading
<1>9. {"discard"} \subseteq Reading /\ {"store"} \subseteq Reading /\ {"full", "remove"} \subseteq Reading
      /\ {"count", "store"} \subseteq Reading
  BY DEF Reading
<1>10. /\ \A u \in taken : u.body = b => l.body[u.pos] # <<>>
       /\ \A i \in 1 .. l.buck : l.body[i] # <<>> => \E u \in taken : u.body = b /\ u.pos = i
  BY <1>1, <1>5, <1>6 DEF KeptLink
<1>11. Cardinality(Filled(l)) + 0 <= l.recv
  <2>1. ~ Has(w, b, {"store"})
    BY <1>3 DEF Has
  <2> QED
    BY <1>5, <2>1 DEF KeptLink
<1>12. KeptLink(w, b, l)'
  BY <1>1, <1>3, <1>7, <1>8, <1>9, <1>10, <1>11 DEF KeptLink, Filled
<1> QED
  BY <1>1, <1>3, <1>4, <1>8, <1>9, <1>12 DEF KeptBody

\* The frame is counted ...
LEMMA CountKept ==
  ASSUME NEW CONSTANT w, Workers = {w}, TypeInv, LinkInv, SoloInv(w),
         NEW b, Parts(b), KeptBody(w, b), Has(w, b, Reading), CountFrame(w)
  PROVE  KeptBody(w, b)'
<1>1. PICK t, a, l, m : t = work[w].frame /\ a = list[Num[b]] /\ l = links[a] /\ m = links'[a]
  OBVIOUS
<1>2. My(w).Uuid = Num[b] /\ t.body = b /\ Num[b] \in Numbers
  BY <1>1, OwnFrame
<1>3. UNCHANGED <<taken, list>> /\ work[w].at = "count" /\ work'[w].at = "store" /\ work'[w].frame = t
  BY <1>1, Goes DEF CountFrame, Reading
<1>4. a = work[w].link /\ a # None
  <2>1. work[w].at \in Reading /\ work[w].at \in Linked
    BY <1>3 DEF Reading, Linked
  <2> QED
    BY <1>1, <1>2, <2>1, AtWork, NoneAssumption DEF SoloInv
<1>5. KeptLink(w, b, l) /\ l \in Link /\ a \in Arrivals
  BY <1>1, <1>4, OwnLink DEF KeptBody
<1>6. m = [funcid |-> l.funcid, buck |-> l.buck, recv |-> l.recv + 1, body |-> l.body]
  <2>1. m = [l EXCEPT !.recv = @ + 1]
    BY <1>1, <1>4, <1>5 DEF CountFrame, TypeInv
  <2> QED
    BY <1>5, <2>1, CountForm
<1>7. Filled(m) = Filled(l) /\ m.buck = l.buck /\ m.body = l.body
  BY <1>6 DEF Filled
<1>8. Cardinality(Filled(l)) + 1 <= m.recv
  <2>1. ~ Has(w, b, {"store"}) /\ l.recv \in Nat
    BY <1>3, <1>5 DEF Has, Link
  <2>2. Cardinality(Filled(l)) \in Nat
    <3>1. t.pos \in 1 .. My(w).Buck /\ My(w).Buck = Word(Count(Text(b)))
      BY <1>1, OwnFrame
    <3>2. l.buck = Word(Count(Text(b)))
      <4>1. Made(l, b)
        BY <1>1, <1>4, OwnLink
      <4> QED
        BY ONLY <4>1 DEF Made
    <3>3. t.pos \in 1 .. l.buck
      BY <3>1, <3>2
    <3> QED
      BY <1>5, <3>3, FilledMore
  <2> QED
    BY <1>5, <1>6, <2>1, <2>2 DEF KeptLink
<1>9. Has(w, b, Reading)' /\ ~ Has(w, b, {"discard"})' /\ Has(w, b, {"store"})' /\ ~ Has(w, b, {"full", "remove"})'
      /\ ~ Has(w, b, {"full", "remove"}) /\ Has(w, b, {"count", "store"})
  BY <1>1, <1>2, <1>3 DEF Has, Reading
<1>10. /\ \A u \in taken : u.body = b => l.body[u.pos] # <<>> \/ u = t
       /\ \A i \in 1 .. l.buck : l.body[i] # <<>> => \E u \in taken : u.body = b /\ u.pos = i
       /\ Filled(l) # 1 .. l.buck /\ l.body[t.pos] = <<>>
  BY <1>1, <1>5, <1>9 DEF KeptLink
<1>11. KeptLink(w, b, m)'
  <2>1. \A i \in 1 .. m.buck : m.body[i] # <<>> => \E u \in taken' : u.body = b /\ u.pos = i
    BY ONLY <1>3, <1>7, <1>10
  <2>2. \A u \in taken' : u.body = b => m.body[u.pos] # <<>> \/ (Has(w, b, Reading)' /\ u = work'[w].frame)
    BY ONLY <1>3, <1>7, <1>9, <1>10
  <2>3. Filled(m) # 1 .. m.buck /\ m.body[work'[w].frame.pos] = <<>>
    BY ONLY <1>3, <1>7, <1>10
  <2>4. Filled(m)' = Filled(m) /\ Cardinality(Filled(m)) + 1 <= m.recv
    BY <1>7, <1>8 DEF Filled
  <2> QED
    BY <1>9, <2>1, <2>2, <2>3, <2>4 DEF KeptLink
<1> QED
  BY <1>1, <1>3, <1>4, <1>9, <1>11 DEF KeptBody

\* ... and stored, in a place that was empty.
LEMMA StoreKept ==
  ASSUME NEW CONSTANT w, Workers = {w}, TypeInv, LinkInv, SoloInv(w),
         NEW b, Parts(b), KeptBody(w, b), Has(w, b, Reading), Store(w)
  PROVE  KeptBody(w, b)'
<1>1. PICK t, a, l, m : t = work[w].frame /\ a = list[Num[b]] /\ l = links[a] /\ m = links'[a]
  OBVIOUS
<1>2. /\ My(w).Uuid = Num[b] /\ t.body = b /\ Num[b] \in Numbers /\ My(w).Sort = t.pos
      /\ t.pos \in 1 .. My(w).Buck /\ My(w).Buck = Word(Count(Text(b)))
  BY <1>1, OwnFrame
<1>3. UNCHANGED <<taken, list>> /\ work[w].at = "store" /\ work'[w].at = "full" /\ work'[w].frame = t
  BY <1>1, Goes DEF Store, Reading
<1>4. a = work[w].link /\ a # None
  <2>1. work[w].at \in Reading /\ work[w].at \in Linked
    BY <1>3 DEF Reading, Linked
  <2> QED
    BY <1>1, <1>2, <2>1, AtWork, NoneAssumption DEF SoloInv
<1>5. KeptLink(w, b, l) /\ l \in Link /\ a \in Arrivals /\ t.pos \in 1 .. l.buck /\ Len(l.body) = l.buck
  <2>1. KeptLink(w, b, l)
    BY <1>1, <1>4 DEF KeptBody
  <2>2. l \in Link /\ a \in Arrivals /\ Made(l, b)
    BY <1>1, <1>4, OwnLink
  <2>3. t.pos \in 1 .. l.buck
    BY <1>2, <2>2 DEF Made
  <2> QED
    BY <2>1, <2>2, <2>3 DEF Made
<1>6. PICK d : d = My(w).Data /\ d \in Seq(Bytes) /\ d # <<>>
  BY OwnFrame
<1>7. m = [funcid |-> l.funcid, buck |-> l.buck, recv |-> l.recv, body |-> [l.body EXCEPT ![t.pos] = d]]
  <2>1. m = [l EXCEPT !.body[t.pos] = d]
    BY <1>1, <1>2, <1>4, <1>5, <1>6 DEF Store, TypeInv
  <2> QED
    BY <1>5, <1>6, <2>1, StoreForm
<1>8. /\ m.buck = l.buck /\ m.recv = l.recv
      /\ \A j \in 1 .. l.buck : m.body[j] = IF j = t.pos THEN d ELSE l.body[j]
  BY <1>5, <1>6, <1>7, Replaced DEF Link, Bytes
<1>9. Has(w, b, {"store"}) /\ Has(w, b, {"count", "store"}) /\ Has(w, b, {"full", "remove"})'
      /\ ~ Has(w, b, {"discard"})' /\ ~ Has(w, b, {"store"})' /\ ~ Has(w, b, {"count", "store"})'
  BY <1>1, <1>2, <1>3 DEF Has
<1>10. /\ \A u \in taken : u.body = b => l.body[u.pos] # <<>> \/ u = t
       /\ l.body[t.pos] = <<>> /\ Cardinality(Filled(l)) + 1 <= l.recv
  BY <1>1, <1>5, <1>9 DEF KeptLink
<1>11. Filled(m) = Filled(l) \cup {t.pos} /\ t.pos \notin Filled(l)
  BY <1>5, <1>6, <1>8, <1>10 DEF Filled
<1>12. Cardinality(Filled(m)) + 0 <= m.recv
  BY <1>5, <1>8, <1>10, <1>11, FilledMore
<1>13. \A u \in taken : u.body = b => m.body[u.pos] # <<>>
  <2>1. ASSUME NEW u \in taken, u.body = b PROVE u.pos \in 1 .. l.buck
    <3>1. u \in Arrivals /\ DOMAIN Rows[b] = 1 .. Count(Text(b))
      BY ManyRows DEF TypeInv, Parts
    <3>2. Word(Count(Text(b))) = Count(Text(b))
      BY <1>1, <1>2, Fitted, OwnFrame DEF Parts
    <3>3. l.buck = Count(Text(b))
      <4>1. Made(l, b)
        BY <1>1, <1>4, OwnLink
      <4> QED
        BY ONLY <3>2, <4>1 DEF Made
    <3>4. u.pos \in DOMAIN Rows[b]
      BY <2>1, <3>1, Arrived
    <3> QED
      BY <3>1, <3>3, <3>4
  <2> QED
    BY <1>6, <1>8, <1>10, <2>1
<1>14. \A i \in 1 .. m.buck : m.body[i] # <<>> => \E u \in taken : u.body = b /\ u.pos = i
  <2>1. t \in taken
    BY <1>1, OwnFrame
  <2> QED
    BY <1>2, <1>5, <1>8, <2>1 DEF KeptLink
<1>15. KeptLink(w, b, m)'
  BY <1>3, <1>5, <1>6, <1>8, <1>9, <1>12, <1>13, <1>14 DEF KeptLink, Filled
<1> QED
  BY <1>1, <1>3, <1>4, <1>9, <1>15 DEF KeptBody

\* The first frame found of a body makes its link.
LEMMA CreateKept ==
  ASSUME NEW CONSTANT w, Workers = {w}, TypeInv, LinkInv, SoloInv(w),
         NEW b, Parts(b), KeptBody(w, b), Has(w, b, Reading), Create(w)
  PROVE  KeptBody(w, b)'
<1>1. PICK t : /\ t = work[w].frame /\ t.body = b /\ Part(t) /\ My(w) = Frame(t) /\ t \in Arrivals
  BY OwnFrame DEF Part
<1>2. PICK f : f = Frame(t) /\ f.Uuid = Num[b] /\ f.Sort = t.pos /\ f.Buck \in Nat /\ f.Buck > 1
               /\ t.pos \in 1 .. f.Buck /\ f.Data # <<>> /\ Num[b] \in Numbers
  BY <1>1, OwnFrame
<1>3. /\ UNCHANGED taken /\ work[w].at = "create" /\ work'[w] = Idle
      /\ list'[Num[b]] = t /\ links'[t] = NewLink(t)
  BY <1>1, <1>2, Goes DEF Create, NewLink, TypeInv
<1>4. PICK l : l = NewLink(t) /\ l \in Link
  BY <1>1, NewTyped
<1>5. l.buck = f.Buck /\ l.recv = 1 /\ l.body = [i \in 1 .. f.Buck |-> IF i = t.pos THEN f.Data ELSE <<>>]
  BY <1>2, <1>4 DEF NewLink
<1>6. Filled(l) = {t.pos}
  BY <1>2, <1>5 DEF Filled
<1>7. Filled(l) # 1 .. l.buck
  <2>1. 1 \in 1 .. l.buck /\ 2 \in 1 .. l.buck
    BY <1>2, <1>5
  <2> QED
    BY <1>6, <2>1
<1>8. Cardinality(Filled(l)) + 0 <= l.recv
  <2>1. Cardinality(Filled(l)) = 1
    BY <1>6, FS_Singleton
  <2> QED
    BY <1>5, <2>1
<1>9. \A u \in taken : u.body = b => l.body[u.pos] # <<>>
  <2>1. list[Num[b]] = None
    BY <1>1, <1>2, <1>3 DEF SoloInv
  <2>2. \A u \in taken : u.body = b => u = t
    BY <1>1, <2>1 DEF KeptBody
  <2> QED
    BY <1>2, <1>5, <2>2
<1>10. \A s \in SUBSET Reading : ~ Has(w, b, s)'
  BY <1>3 DEF Has, Idle, Reading
<1>11. {"discard"} \subseteq Reading /\ {"store"} \subseteq Reading /\ {"full", "remove"} \subseteq Reading
      /\ {"count", "store"} \subseteq Reading
  BY DEF Reading
<1>12. \A i \in 1 .. l.buck : l.body[i] # <<>> => \E u \in taken : u.body = b /\ u.pos = i
  <2>1. t \in taken
    BY <1>1, OwnFrame
  <2> QED
    BY <1>1, <1>2, <1>5, <2>1
<1>13. KeptLink(w, b, l)'
  BY <1>3, <1>7, <1>8, <1>9, <1>10, <1>11, <1>12 DEF KeptLink, Filled
<1> QED
  BY <1>1, <1>3, <1>4, <1>10, <1>11, <1>13, NoneAssumption DEF KeptBody

\* ParseResp with a frame of b: at the end b is returned, or kept.
LEMMA OwnKept ==
  ASSUME NEW CONSTANT w, Workers = {w}, TypeInv, LinkInv, SoloInv(w),
         NEW b, Parts(b), KeptBody(w, b), Has(w, b, Reading), ParseResp(w)
  PROVE  (HandOver(w) /\ Returned(b)') \/ (Panic(w) /\ work'[w] = Dead) \/ KeptBody(w, b)'
<1>1. CASE HandOver(w)
  <2>1. PICK r : r = Result(work[w].frame, FlattenSeq(links[work[w].link].body)) /\ r \in out'
    BY <1>1 DEF HandOver
  <2>2. r.frame.body = b
    BY <2>1 DEF Result, Has
  <2> QED
    BY <1>1, <2>1, <2>2 DEF Returned
<1>2. CASE Panic(w)
  BY <1>2 DEF Panic
<1>3. ~ Discard(w)
  BY DEF Discard, KeptBody, Has
<1> QED
  BY <1>1, <1>2, <1>3, LookKept, DoneKept, CountKept, StoreKept, CreateKept DEF ParseResp

\* A frame of another body is read.
LEMMA ReadOther ==
  ASSUME NEW CONSTANT w, Workers = {w}, TypeInv, NEW b, Parts(b), KeptBody(w, b),
         NEW t \in wire, t.body # b, ReadDropped(w, t) \/ ReadWhole(w, t) \/ ReadPart(w, t)
  PROVE  KeptBody(w, b)'
<1>1. work[w].at = "idle" /\ UNCHANGED <<list, links>> /\ taken' = taken \cup {t}
  BY DEF ReadDropped, ReadWhole, ReadPart, Read
<1>2. work'[w] = work[w] \/ work'[w].frame = t
  BY DEF ReadDropped, ReadWhole, ReadPart, TypeInv
<1>3. \A s \in SUBSET Reading : ~ Has(w, b, s) /\ ~ Has(w, b, s)'
  BY <1>1, <1>2 DEF Has, Reading
<1>4. /\ Reading \subseteq Reading /\ {"discard"} \subseteq Reading /\ {"store"} \subseteq Reading
      /\ {"full", "remove"} \subseteq Reading /\ {"count", "store"} \subseteq Reading
  BY DEF Reading
<1>5. list[Num[b]] = None => \A u \in taken' : u.body # b
  BY <1>1, <1>3, <1>4 DEF KeptBody
<1>6. ASSUME list[Num[b]] # None PROVE KeptLink(w, b, links[list[Num[b]]])'
  <2>1. PICK l : l = links[list[Num[b]]] /\ l = links'[list'[Num[b]]] /\ KeptLink(w, b, l)
    BY <1>1, <1>6 DEF KeptBody
  <2>2. /\ \A u \in taken' : u.body = b => l.body[u.pos] # <<>>
        /\ \A i \in 1 .. l.buck : l.body[i] # <<>> => \E u \in taken' : u.body = b /\ u.pos = i
        /\ Cardinality(Filled(l)) + 0 <= l.recv /\ Filled(l) # 1 .. l.buck
    BY <1>1, <1>3, <1>4, <2>1 DEF KeptLink
  <2>3. KeptLink(w, b, l)'
    BY <1>3, <1>4, <2>1, <2>2 DEF KeptLink, Filled
  <2> QED
    BY <2>1, <2>3
<1> QED
  BY <1>1, <1>3, <1>4, <1>5, <1>6 DEF KeptBody

\* A frame of a body of several frames goes into ParseResp.
LEMMA ReadsPart ==
  ASSUME NEW b, Parts(b), NEW w \in Workers, NEW t \in Arrivals, t.body = b,
         ReadDropped(w, t) \/ ReadWhole(w, t) \/ ReadPart(w, t)
  PROVE  ReadPart(w, t)
<1>1. PICK c, i : c = Count(Text(b)) /\ i = t.pos
  OBVIOUS
<1>2. b \in Bodies \ Failures /\ Len(Text(b)) > BodySplit /\ Text(b) \in Seq(Bytes)
  BY Texts DEF Parts
<1>3. c \in Nat /\ c > 1
  BY <1>1, <1>2, Counted
<1>4. DOMAIN Rows[b] = 1 .. c /\ i \in DOMAIN Rows[b]
  BY <1>1, <1>2, ManyRows, Arrived
<1>5. ~ Failed(Rows[b][i]) /\ Frame(t).Buck = Word(c) /\ Frame(t).Sort = Word(i)
  <2>1. /\ ~ Failed(Rows[b][i])
        /\ parse(Rows[b][i]) = [Uuid |-> Num[b], Func |-> Fid[b], Buck |-> Word(c), Sort |-> Word(i),
                                Data |-> Chunk(Text(b), i)]
    BY <1>1, <1>2, <1>4, ManyRows
  <2>2. Frame(t) = parse(Rows[b][i])
    BY <1>1 DEF Frame
  <2> QED
    BY <2>1, <2>2
<1>6. PICK n : n = Byte * Byte /\ n \in Nat
  BY Words
<1>7. c \in 0 .. (n - 1) /\ i \in 0 .. (n - 1) /\ i <= c
  BY <1>1, <1>3, <1>4, <1>6 DEF Parts, Fits
<1>8. Word(c) = c /\ Word(i) = i
  BY <1>6, <1>7, Words
<1>9. /\ ~ Failed(Rows[t.body][t.pos]) /\ ~ (Frame(t).Sort > Frame(t).Buck) /\ Frame(t).Buck # 0
      /\ Frame(t).Buck # 1
  BY <1>1, <1>3, <1>5, <1>7, <1>8
<1> QED
  BY <1>9 DEF ReadDropped, ReadWhole

\* A frame of b is read.
LEMMA ReadOwn ==
  ASSUME NEW CONSTANT w, Workers = {w}, TypeInv, NEW b, Parts(b), KeptBody(w, b),
         NEW t \in wire, t.body = b, ReadDropped(w, t) \/ ReadWhole(w, t) \/ ReadPart(w, t)
  PROVE  KeptBody(w, b)'
<1>1. work[w].at = "idle" /\ UNCHANGED <<list, links>> /\ taken' = taken \cup {t} /\ t \in Arrivals
  BY DEF ReadDropped, ReadWhole, ReadPart, Read, TypeInv
<1>2. ReadPart(w, t)
  BY <1>1, ReadsPart
<1>3. work'[w] = [at |-> "load", frame |-> t, link |-> None]
  BY <1>2 DEF ReadPart, TypeInv
<1>4. /\ ~ Has(w, b, {"store"}) /\ ~ Has(w, b, {"full", "remove"}) /\ ~ Has(w, b, Reading)
      /\ ~ Has(w, b, {"store"})' /\ ~ Has(w, b, {"full", "remove"})' /\ ~ Has(w, b, {"discard"})'
      /\ ~ Has(w, b, {"count", "store"})' /\ Has(w, b, Reading)' /\ work'[w].frame = t
  BY <1>1, <1>3 DEF Has, Reading
<1>5. list[Num[b]] = None => \A u \in taken' : u.body = b => u = t
  BY <1>1, <1>4 DEF KeptBody
<1>6. ASSUME list[Num[b]] # None PROVE KeptLink(w, b, links[list[Num[b]]])'
  <2>1. PICK l : l = links[list[Num[b]]] /\ l = links'[list'[Num[b]]] /\ KeptLink(w, b, l)
    BY <1>1, <1>6 DEF KeptBody
  <2>2. /\ \A u \in taken' : u.body = b => l.body[u.pos] # <<>> \/ u = t
        /\ \A i \in 1 .. l.buck : l.body[i] # <<>> => \E u \in taken' : u.body = b /\ u.pos = i
        /\ Cardinality(Filled(l)) + 0 <= l.recv /\ Filled(l) # 1 .. l.buck
    BY <1>1, <1>4, <2>1 DEF KeptLink
  <2>3. KeptLink(w, b, l)'
    BY <1>4, <2>1, <2>2 DEF KeptLink, Filled
  <2> QED
    BY <2>1, <2>3
<1> QED
  BY <1>1, <1>4, <1>5, <1>6 DEF KeptBody

\* A body of one frame is returned as it is read.
LEMMA ReadReturns ==
  ASSUME NEW w \in Workers, NEW t \in wire, t \in Arrivals, t.body \notin Failures, Len(Text(t.body)) <= BodySplit,
         ReadDropped(w, t) \/ ReadWhole(w, t) \/ ReadPart(w, t)
  PROVE  Returned(t.body)'
<1>1. t.body \in Bodies \ Failures /\ t.pos \in DOMAIN Rows[t.body]
  BY Arrived
<1>2. t.pos = 1 /\ ~ Failed(Rows[t.body][1]) /\ Frame(t).Buck = 1 /\ Frame(t).Sort = 1
  <2>1. /\ DOMAIN Rows[t.body] = {1} /\ ~ Failed(Rows[t.body][1])
        /\ parse(Rows[t.body][1]) = [Uuid |-> Num[t.body], Func |-> Fid[t.body], Buck |-> 1, Sort |-> 1,
                                     Data |-> Text(t.body)]
    BY <1>1, OneRow
  <2>2. t.pos = 1 /\ Frame(t) = parse(Rows[t.body][1])
    BY <1>1, <2>1 DEF Frame
  <2> QED
    BY <2>1, <2>2
<1>3. ReadWhole(w, t)
  BY <1>2 DEF ReadDropped, ReadPart
<1>4. PICK r : r = Result(t, Frame(t).Data) /\ r \in out'
  BY <1>3 DEF ReadWhole
<1> QED
  BY <1>4 DEF Returned, Result

\* Nothing was read yet.
LEMMA InitKept == ASSUME NEW CONSTANT w, Workers = {w} PROVE Init => SoloInv(w) /\ KeptInv(w)
<1>1. ASSUME Init, NEW b, Parts(b) PROVE list[Num[b]] = None
  BY <1>1, Numbered DEF Init, Parts
<1> QED
  BY <1>1 DEF Init, SoloInv, KeptInv, KeptBody, Has, Idle, Linked

\* What nothing changes is kept.
LEMMA SameKept ==
  ASSUME NEW w, NEW b, UNCHANGED <<taken, list, links, work>>
  PROVE  KeptBody(w, b)' <=> KeptBody(w, b)
<1>1. \A s : Has(w, b, s)' <=> Has(w, b, s)
  BY DEF Has
<1>2. \A l : KeptLink(w, b, l)' <=> KeptLink(w, b, l)
  <2> TAKE l
  <2>1. Filled(l)' = Filled(l)
    BY DEF Filled
  <2> QED
    BY <1>1, <2>1 DEF KeptLink
<1> QED
  BY <1>1, <1>2 DEF KeptBody

\* Every step keeps it.
LEMMA NextKept ==
  ASSUME NEW CONSTANT w, Workers = {w}, TypeInv, FreshInv, LinkInv, SoloInv(w), KeptInv(w), [Next]_vars
  PROVE  KeptInv(w)'
<1>1. \A b : Returned(b) => Returned(b)'
  <2>1. out \subseteq out'
    BY DEF Next, Send, Lose, Duplicate, ReadFrame, ReadDropped, ReadWhole, ReadPart, ParseResp, LoadFound,
           LoadMismatched, LoadMissing, Discard, TestFree, TestFilled, Panic, CountFrame, Store, NotFull,
           Full, HandOver, Create, Finished, vars
  <2> QED
    BY <2>1 DEF Returned
<1>2. \A b : Alone(b)' => Alone(b)
  <2>1. unsent' \subseteq unsent
    BY DEF Next, Send, Lose, Duplicate, ReadFrame, ReadDropped, ReadWhole, ReadPart, ParseResp, LoadFound,
           LoadMismatched, LoadMissing, Discard, TestFree, TestFilled, Panic, CountFrame, Store, NotFull,
           Full, HandOver, Create, Finished, vars
  <2> QED
    BY <2>1 DEF Alone
<1>3. CASE UNCHANGED <<taken, list, links, work, out>>
  BY <1>1, <1>3, <1>2, SameKept DEF KeptInv
<1>4. CASE ParseResp(w)
  <2>1. taken' = taken /\ work[w].at \in Reading
    BY <1>4, Shapes DEF ParseResp, LoadFound, LoadMismatched, LoadMissing, Discard, TestFree, TestFilled, Panic,
                        CountFrame, Store, NotFull, Full, HandOver, Create
  <2>2. work[w] # Dead
    BY <2>1 DEF Dead, Reading
  <2>3. ASSUME NEW b \in Bodies, Parts(b), Alone(b), work'[w] # Dead
        PROVE  Returned(b)' \/ KeptBody(w, b)'
    <3>1. CASE Returned(b)
      BY <1>1, <3>1
    <3>2. CASE KeptBody(w, b)
      <4>1. work[w].frame.body \in Bodies \ unsent
        BY <2>1, AtWork, PartFrame DEF FreshInv
      <4>2. Has(w, b, Reading) \/ Num[work[w].frame.body] # Num[b]
        BY <2>1, <2>3, <4>1 DEF Has, Alone
      <4> QED
        BY <1>4, <2>3, <3>2, <4>2, OwnKept, OtherKept
    <3> QED
      BY <2>2, <2>3, <3>1, <3>2 DEF KeptInv
  <2> QED
    BY <1>1, <1>2, <2>1, <2>3 DEF KeptInv
<1>5. ASSUME NEW t \in wire, ReadDropped(w, t) \/ ReadWhole(w, t) \/ ReadPart(w, t) PROVE KeptInv(w)'
  <2>1. taken' = taken \cup {t} /\ t \in Arrivals /\ work[w].at = "idle"
    BY <1>5 DEF ReadDropped, ReadWhole, ReadPart, Read, TypeInv
  <2>2. work[w] # Dead
    BY <2>1 DEF Dead
  <2>3. ASSUME NEW b \in Bodies, Parts(b), Alone(b) PROVE Returned(b)' \/ KeptBody(w, b)'
    <3>1. CASE Returned(b)
      BY <1>1, <3>1
    <3>2. CASE KeptBody(w, b)
      BY <1>5, <2>3, <3>2, ReadOwn, ReadOther
    <3> QED
      BY <2>2, <2>3, <3>1, <3>2 DEF KeptInv
  <2>4. ASSUME NEW u \in taken', u.body \notin Failures, Len(Text(u.body)) <= BodySplit PROVE Returned(u.body)'
    <3>1. CASE u \in taken
      BY <1>1, <2>4, <3>1 DEF KeptInv
    <3>2. CASE u = t
      BY <1>5, <2>1, <2>4, <3>2, ReadReturns
    <3> QED
      BY <2>1, <2>4, <3>1, <3>2
  <2> QED
    BY <1>2, <2>3, <2>4 DEF KeptInv
<1> QED
  BY <1>3, <1>4, <1>5 DEF Next, Send, Lose, Duplicate, ReadFrame, Finished, vars

\* When all frames of a body were read and the goroutine rests, nothing of it is kept: it was returned.
LEMMA AllRead ==
  \A w, b : /\ Workers = {w} /\ TypeInv /\ LinkInv
            /\ Parts(b) /\ KeptBody(w, b) /\ ~ Has(w, b, Reading)
    => \E i \in DOMAIN Rows[b] : \A t \in taken : ~ (t.body = b /\ t.pos = i)
<1> SUFFICES ASSUME NEW w, NEW b, Workers = {w}, TypeInv, LinkInv, Parts(b), KeptBody(w, b), ~ Has(w, b, Reading),
                    \A i \in DOMAIN Rows[b] : \E t \in taken : t.body = b /\ t.pos = i
             PROVE  FALSE
  OBVIOUS
<1>1. DOMAIN Rows[b] = 1 .. Count(Text(b)) /\ Count(Text(b)) \in Nat /\ Count(Text(b)) > 1
  <2>1. Text(b) \in Seq(Bytes)
    BY Texts DEF Parts
  <2> QED
    BY <2>1, Counted, ManyRows DEF Parts
<1>2. PICK t \in taken : t.body = b /\ t.pos = 1
  BY <1>1
<1>3. ~ Has(w, b, {"full", "remove"})
  BY DEF Has, Reading
<1>4. list[Num[b]] # None
  BY <1>2 DEF KeptBody
<1>5. PICK l : l = links[list[Num[b]]] /\ KeptLink(w, b, l) /\ l.buck = Word(Count(Text(b)))
  BY <1>4, OwnLink DEF KeptBody, Made
<1>6. l.buck = Count(Text(b))
  <2>1. PICK n : n = Byte * Byte /\ n \in Nat
    BY Words
  <2>2. Count(Text(b)) \in 0 .. (n - 1)
    BY <1>1, <2>1 DEF Parts, Fits
  <2> QED
    BY <1>5, <2>1, <2>2, Words
<1>7. \A i \in 1 .. l.buck : l.body[i] # <<>>
  BY <1>1, <1>5, <1>6 DEF KeptLink
<1>8. Filled(l) = 1 .. l.buck
  BY <1>7 DEF Filled
<1> QED
  BY <1>3, <1>5, <1>8 DEF KeptLink

\* The same after a step.
LEMMA AllReadNext ==
  (\A w, b : /\ Workers = {w} /\ TypeInv /\ LinkInv
             /\ Parts(b) /\ KeptBody(w, b) /\ ~ Has(w, b, Reading)
     => \E i \in DOMAIN Rows[b] : \A t \in taken : ~ (t.body = b /\ t.pos = i))'
  BY AllRead, PTL

\* When the goroutine rests, a body of which every frame was read is returned.
LEMMA KeptReturns ==
  ASSUME NEW CONSTANT w, Workers = {w}, TypeInv, LinkInv, KeptInv(w) PROVE NothingForgotten
<1> SUFFICES ASSUME NEW b \in Bodies \ Failures, Fits(b), Alone(b), \A v \in Workers : work[v] = Idle,
                    \A i \in DOMAIN Rows[b] : \E t \in taken : t.body = b /\ t.pos = i
             PROVE  Returned(b)
  BY DEF NothingForgotten, Returned
<1>1. work[w].at = "idle" /\ work[w] # Dead
  BY DEF Idle, Dead
<1>2. Len(Text(b)) \in Nat /\ BodySplit \in Nat
  BY Texts, Words
<1>3. CASE Len(Text(b)) <= BodySplit
  <2>1. PICK t \in taken : t.body = b
    BY <1>3, OneRow
  <2> QED
    BY <1>3, <2>1 DEF KeptInv
<1>4. CASE Len(Text(b)) > BodySplit
  <2>1. SUFFICES ASSUME ~ Returned(b) PROVE FALSE
    OBVIOUS
  <2>2. Parts(b) /\ KeptBody(w, b)
    BY <1>1, <1>4, <2>1 DEF KeptInv, Parts
  <2>3. ~ Has(w, b, Reading)
    BY <1>1 DEF Has, Reading
  <2> QED
    BY <2>2, <2>3, AllRead
<1> QED
  BY <1>2, <1>3, <1>4

\* With one goroutine ParseResp forgets nothing: a body of which every frame was read, in whatever
\* order and however often, is returned once the goroutine rests, if no other body has been sent
\* under its number by then.  (With two goroutines this fails: see Reassembly_server.)
THEOREM ForgottenNone == ASSUME NEW CONSTANT w, Workers = {w} PROVE Spec => []NothingForgotten
<1>1. Init => TypeInv /\ FreshInv /\ LinkInv /\ SoloInv(w) /\ KeptInv(w)
  BY InitTyped, InitFresh, InitLinks, InitKept
<1>2. TypeInv /\ FreshInv /\ LinkInv /\ SoloInv(w) /\ KeptInv(w) /\ [Next]_vars
        => (TypeInv /\ FreshInv /\ LinkInv /\ SoloInv(w) /\ KeptInv(w))'
  BY NextTyped, NextFresh, NextLinks, NextSolo, NextKept
<1>3. TypeInv /\ FreshInv /\ LinkInv /\ SoloInv(w) /\ KeptInv(w) => NothingForgotten
  BY KeptReturns
<1> QED
  BY <1>1, <1>2, <1>3, PTL DEF Spec

-----------------------------------------------------------------------------
(* Over a reliable connection every body is handed over once.               *)

\* Nothing is lost or duplicated, a number belongs to one process, and a body whose number of
\* frames does not fit its header has its number alone.
Reliable ==
  /\ Faults = {}
  /\ \A a, b \in Bodies : Num[a] = Num[b] => Sender[a] = Sender[b]
  /\ \A b \in Bodies \ Failures : Fits(b) \/ \A a \in Bodies : Num[a] = Num[b] => a = b

\* Every frame that was sent is on its way or was read, once.
NetInv ==
  /\ \A t \in wire \cup taken : t.copy = 1
  /\ \A b \in Bodies \ unsent : \A i \in DOMAIN Rows[b] : \E t \in wire \cup taken : t.body = b /\ t.pos = i

\* Bodies of ordinary calls take turns with a number: one is in flight at a time, the table holds an
\* entry for none but that one, and a body that was returned is not in flight and was returned once.
TurnInv(w) ==
  /\ work[w] # Dead =>
       /\ \A a, b \in Ordinary : a # b /\ Num[a] = Num[b] => ~ (InFlight(a) /\ InFlight(b))
       /\ \A b \in Bodies : Parts(b) /\ Turns(b) =>
            /\ InFlight(b) => KeptBody(w, b)
            /\ list[Num[b]] # None /\ list[Num[b]].body = b => InFlight(b)
       /\ \A d \in out : d.frame.body \in Good => ~ InFlight(d.frame.body)
  /\ \A c, d \in out : c.frame.body = d.frame.body /\ c.frame.body \in Good => c = d

\* The body that has the number of one that takes turns takes turns.
LEMMA TurnsAlike ==
  ASSUME NEW b \in Bodies, NEW c \in Bodies, Turns(b), Several(c), Num[c] = Num[b]
  PROVE  Turns(c) /\ (c # b => {b, c} \subseteq Ordinary)
  BY DEF Turns

\* Who has a frame of b.
LEMMA Flying ==
  \A w : Workers = {w} /\ TypeInv =>
    \A b : InFlight(b) <=> (\E t \in wire : t.body = b) \/ Has(w, b, Reading)
<1> SUFFICES ASSUME NEW w, Workers = {w}, TypeInv, NEW b
             PROVE  InFlight(b) <=> (\E t \in wire : t.body = b) \/ Has(w, b, Reading)
  OBVIOUS
<1>1. work[w].at \in Reading \cup {"idle", "dead"}
  BY DEF TypeInv, Worked, WorkSet
<1>2. {"idle", "dead"} \cap Reading = {}
  BY DEF Reading
<1> QED
  BY <1>1, <1>2 DEF InFlight, Has

\* The same after a step.
LEMMA FlyingNext ==
  (\A w : Workers = {w} /\ TypeInv =>
     \A b : InFlight(b) <=> (\E t \in wire : t.body = b) \/ Has(w, b, Reading))'
  BY Flying, PTL

\* The network is reliable.
LEMMA NextNet ==
  ASSUME Reliable, TypeInv, NetInv, [Next]_vars PROVE NetInv'
<1>1. CASE \E b \in Bodies : Send(b)
  <2>1. PICK b \in Bodies : Send(b)
    BY <1>1
  <2>2. /\ unsent' = unsent \ {b} /\ taken' = taken
        /\ wire' = wire \cup {[body |-> b, pos |-> i, copy |-> 1] : i \in DOMAIN Rows[b]}
    BY <2>1 DEF Send
  <2>3. \A t \in wire' \cup taken' : t.copy = 1
    BY <2>2 DEF NetInv
  <2>4. ASSUME NEW i \in DOMAIN Rows[b] PROVE \E t \in wire' \cup taken' : t.body = b /\ t.pos = i
    <3>1. PICK t : t = [body |-> b, pos |-> i, copy |-> 1]
      OBVIOUS
    <3> QED
      BY <2>2, <3>1
  <2>5. \A a \in Bodies \ unsent' : a = b \/ a \in Bodies \ unsent
    BY <2>2
  <2>6. wire \cup taken \subseteq wire' \cup taken'
    BY <2>2
  <2> QED
    BY <2>3, <2>4, <2>5, <2>6 DEF NetInv
<1>2. CASE wire' \cup taken' = wire \cup taken /\ unsent' = unsent
  BY <1>2 DEF NetInv
<1>3. ~ \E t \in wire : Lose(t) \/ Duplicate(t)
  BY DEF Lose, Duplicate, Reliable
<1>4. \A w \in Workers : ReadFrame(w) => wire' \cup taken' = wire \cup taken /\ unsent' = unsent
  BY DEF ReadFrame, ReadDropped, ReadWhole, ReadPart, Read
<1>5. \A w \in Workers : ParseResp(w) => UNCHANGED <<unsent, wire, taken>>
  BY DEF ParseResp, LoadFound, LoadMismatched, LoadMissing, Discard, TestFree, TestFilled, Panic,
         CountFrame, Store, NotFull, Full, HandOver, Create
<1> QED
  BY <1>1, <1>2, <1>3, <1>4, <1>5 DEF Next, Finished, vars

\* A body is sent: nothing of its number is in flight or in the table.
LEMMA SendTurn ==
  ASSUME NEW CONSTANT w, Workers = {w}, Reliable, TypeInv, FreshInv, LinkInv, TurnInv(w),
         NEW b \in Bodies, Send(b)
  PROVE  TurnInv(w)'
<1>1. /\ UNCHANGED <<taken, list, links, work, out>> /\ b \in unsent
      /\ wire' = wire \cup {[body |-> b, pos |-> i, copy |-> 1] : i \in DOMAIN Rows[b]}
  BY DEF Send
<1>2. \A a : (InFlight(a) => InFlight(a)') /\ (InFlight(a)' => InFlight(a) \/ a = b)
  BY <1>1 DEF InFlight
<1>3. \A t \in taken : t.body # b
  BY <1>1 DEF FreshInv
<1>4. ~ InFlight(b) /\ ~ Has(w, b, Reading)
  <2>1. ~ Has(w, b, Reading)
    BY <1>3, AtWork DEF Has
  <2>2. \A t \in wire : t.body # b
    BY <1>1 DEF FreshInv
  <2> QED
    BY <2>1, <2>2, Flying
<1>5. \A a \in Ordinary : b \in Ordinary /\ a # b /\ Num[a] = Num[b] => ~ InFlight(a)
  BY ReassemblyAssumption DEF Send, Reliable
<1>6. \A d \in out : d.frame.body # b
  BY <1>3 DEF TypeInv
<1>7. ASSUME Parts(b), Turns(b), work[w] # Dead PROVE KeptBody(w, b)
  <2>1. list[Num[b]] = None
    <3>1. SUFFICES ASSUME list[Num[b]] # None PROVE FALSE
      OBVIOUS
    <3>2. PICK a, c : a = list[Num[b]] /\ c = a.body
      OBVIOUS
    <3>3. a \in Arrivals /\ links[a] # None /\ Num[c] = Num[b]
      BY <3>1, <3>2, Numbered, NoneAssumption DEF TypeInv, LinkInv
    <3>4. c \in Bodies \ Failures /\ Len(Text(c)) > BodySplit
      BY <3>2, <3>3, PartFrame DEF LinkInv
    <3>5. Fits(c)
      BY <1>7, <3>3, <3>4 DEF Reliable, Parts
    <3>6. Turns(c) /\ (c # b => {b, c} \subseteq Ordinary)
      BY <1>7, <3>3, <3>4, TurnsAlike DEF Several
    <3>7. InFlight(c)
      BY <1>7, <3>1, <3>2, <3>3, <3>4, <3>5, <3>6 DEF TurnInv, Parts
    <3> QED
      BY <1>4, <1>5, <3>3, <3>6, <3>7
  <2>2. ~ Has(w, b, {"discard"})
    BY <1>4 DEF Has, Reading
  <2> QED
    BY <1>3, <2>1, <2>2 DEF KeptBody
<1>8. ASSUME work[w] # Dead, NEW a \in Ordinary, NEW c \in Ordinary, a # c, Num[a] = Num[c], InFlight(a)', InFlight(c)'
      PROVE  FALSE
  BY <1>2, <1>5, <1>8 DEF TurnInv
<1>9. ASSUME work[w] # Dead, NEW a \in Bodies, Parts(a), Turns(a)
      PROVE  /\ InFlight(a)' => KeptBody(w, a)'
             /\ list[Num[a]] # None /\ list[Num[a]].body = a => InFlight(a)'
  BY <1>1, <1>2, <1>7, <1>9, SameKept DEF TurnInv
<1>10. ASSUME work[w] # Dead, NEW d \in out, d.frame.body \in Good PROVE ~ InFlight(d.frame.body)'
  BY <1>2, <1>6, <1>10 DEF TurnInv
<1> QED
  BY <1>1, <1>8, <1>9, <1>10 DEF TurnInv

\* A body that is one frame is returned once.
LEMMA ReadOnce ==
  ASSUME NEW CONSTANT w, Workers = {w}, TypeInv, NetInv, TurnInv(w), TypeInv', NEW t \in wire, t \in Arrivals,
         ReadWhole(w, t), t.body \in Good
  PROVE  /\ ~ InFlight(t.body)'
         /\ \A c, d \in out' : c.frame.body = t.body /\ d.frame.body = t.body => c = d
<1>1. /\ work[w].at = "idle" /\ UNCHANGED work /\ wire' = wire \ {t}
      /\ ~ Failed(Rows[t.body][t.pos]) /\ Frame(t).Buck = 1
      /\ out' = out \cup {Result(t, Frame(t).Data)}
  BY DEF ReadWhole, Read
<1>2. DOMAIN Rows[t.body] = {1} /\ t.pos = 1
  BY <1>1, WholeFrame DEF Good
<1>3. \A u \in wire : u.body = t.body => u = t
  <2>1. \A u \in wire : u \in Arrivals /\ u.copy = 1
    BY DEF TypeInv, NetInv
  <2>2. \A u \in Arrivals : u.pos \in DOMAIN Rows[u.body] /\ u = [body |-> u.body, pos |-> u.pos, copy |-> u.copy]
    BY Arrived
  <2> QED
    BY <1>2, <2>1, <2>2
<1>4. ~ Has(w, t.body, Reading)'
  BY <1>1 DEF Has, Reading
<1>5. ~ InFlight(t.body)'
  BY <1>1, <1>3, <1>4, FlyingNext
<1>6. InFlight(t.body) /\ work[w] # Dead
  BY <1>1 DEF InFlight, Dead
<1>7. \A d \in out : d.frame.body # t.body
  BY <1>6 DEF TurnInv
<1> QED
  BY <1>1, <1>5, <1>7

\* A frame is read.
LEMMA ReadTurn ==
  ASSUME NEW CONSTANT w, Workers = {w}, TypeInv, NetInv, TurnInv(w), TypeInv', NEW t \in wire,
         ReadDropped(w, t) \/ ReadWhole(w, t) \/ ReadPart(w, t)
  PROVE  TurnInv(w)'
<1>1. /\ t \in Arrivals /\ work[w].at = "idle" /\ UNCHANGED <<list, links>> /\ wire' = wire \ {t}
      /\ taken' = taken \cup {t} /\ work[w] # Dead
  BY DEF ReadDropped, ReadWhole, ReadPart, Read, TypeInv, Dead
<1>2. \A x : InFlight(x) <=> \E u \in wire : u.body = x
  <2>1. \A x : ~ Has(w, x, Reading)
    BY <1>1 DEF Has, Reading
  <2> QED
    BY <2>1, Flying
<1>3. \A x : InFlight(x)' => InFlight(x)
  <2>1. \A x : Has(w, x, Reading)' => t.body = x
    <3>1. CASE UNCHANGED work
      BY <1>1, <3>1 DEF Has, Reading
    <3>2. CASE ReadPart(w, t)
      <4>1. work'[w].frame = t
        BY <3>2 DEF ReadPart, TypeInv
      <4> QED
        BY <4>1 DEF Has
    <3> QED
      BY <3>1, <3>2 DEF ReadDropped, ReadWhole
  <2> QED
    BY <1>1, <1>2, <2>1, FlyingNext
<1>4. ASSUME NEW x, ReadPart(w, t) \/ t.body # x, InFlight(x) PROVE InFlight(x)'
  <2>1. CASE ReadPart(w, t) /\ t.body = x
    <3>1. work'[w].at = "load" /\ work'[w].frame = t
      BY <2>1 DEF ReadPart, TypeInv
    <3> QED
      BY <2>1, <3>1, FlyingNext DEF Has, Reading
  <2>2. CASE t.body # x
    BY <1>1, <1>2, <1>4, <2>2, FlyingNext
  <2> QED
    BY <1>4, <2>1, <2>2
<1>5. ASSUME NEW b \in Bodies, Parts(b), Turns(b)
      PROVE  /\ InFlight(b)' => KeptBody(w, b)'
             /\ list'[Num[b]] # None /\ list'[Num[b]].body = b => InFlight(b)'
  <2>1. ASSUME InFlight(b)' PROVE KeptBody(w, b)'
    <3>1. KeptBody(w, b)
      BY <1>1, <1>3, <1>5, <2>1 DEF TurnInv
    <3> QED
      BY <1>5, <3>1, ReadOwn, ReadOther
  <2>2. ASSUME list[Num[b]] # None, list[Num[b]].body = b PROVE InFlight(b)'
    <3>1. InFlight(b)
      BY <1>1, <1>5, <2>2 DEF TurnInv
    <3>2. t.body = b => ReadPart(w, t)
      BY <1>1, <1>5, ReadsPart
    <3> QED
      BY <1>4, <3>1, <3>2
  <2> QED
    BY <1>1, <2>1, <2>2
<1>6. out' = out \/ (ReadWhole(w, t) /\ out' = out \cup {Result(t, Frame(t).Data)})
  BY DEF ReadDropped, ReadWhole, ReadPart
<1>7. Result(t, Frame(t).Data).frame = t
  BY DEF Result
<1>8. \A d \in out' : d.frame.body \in Good => ~ InFlight(d.frame.body)'
  BY <1>1, <1>3, <1>6, <1>7, ReadOnce DEF TurnInv
<1>9. \A c, d \in out' : c.frame.body = d.frame.body /\ c.frame.body \in Good => c = d
  BY <1>1, <1>6, <1>7, ReadOnce DEF TurnInv
<1>10. \A a, b \in Ordinary : a # b /\ Num[a] = Num[b] => ~ (InFlight(a)' /\ InFlight(b)')
  BY <1>1, <1>3 DEF TurnInv
<1> QED
  BY <1>5, <1>8, <1>9, <1>10 DEF TurnInv

\* A body is handed over with its last frame: none of it is left on its way.
LEMMA LastFrame ==
  ASSUME NEW CONSTANT w, Workers = {w}, TypeInv, FreshInv, LinkInv, NetInv, SoloInv(w), TypeInv',
         NEW b, Parts(b), KeptBody(w, b), work[w].frame.body = b, HandOver(w)
  PROVE  ~ InFlight(b)' /\ list'[Num[b]] = None
<1>1. /\ Has(w, b, Reading) /\ work[w].at \in Linked /\ work[w].at = "remove" /\ work[w].at \in Reading
      /\ UNCHANGED <<wire, taken>> /\ work'[w] = Idle
  BY Goes DEF HandOver, Has, Reading, Linked
<1>2. My(w).Uuid = Num[b] /\ Num[b] \in Numbers
  BY <1>1, OwnFrame
<1>3. list'[Num[b]] = None
  BY <1>2 DEF HandOver, TypeInv
<1>4. PICK a, l : /\ a = list[Num[b]] /\ a # None /\ l = links[a] /\ Complete(l) /\ KeptLink(w, b, l)
                  /\ l.buck = Word(Count(Text(b)))
  <2>1. work[w].link = list[Num[b]] /\ Complete(links[work[w].link])
    BY <1>1, <1>2 DEF SoloInv
  <2>2. list[Num[b]] # None
    BY <1>1, <2>1, AtWork, NoneAssumption
  <2> QED
    BY <2>1, <2>2, OwnLink DEF KeptBody, Made
<1>5. /\ DOMAIN Rows[b] = 1 .. l.buck
  <2>1. DOMAIN Rows[b] = 1 .. Count(Text(b))
    BY ManyRows DEF Parts
  <2>2. Word(Count(Text(b))) = Count(Text(b))
    <3>1. Part(work[w].frame) /\ work[w].frame.body = b
      BY <1>1, OwnFrame
    <3>2. Frame(work[w].frame).Buck = Count(Text(b)) /\ Frame(work[w].frame).Buck = Word(Count(Text(b)))
      BY <3>1, Fitted, PartFrame DEF Parts
    <3> QED
      BY <3>2
  <2> QED
    BY <1>4, <2>1, <2>2
<1>6. ASSUME NEW u \in wire, u.body = b PROVE FALSE
  <2>1. u \in Arrivals /\ u.copy = 1 /\ u.pos \in DOMAIN Rows[b] /\ u = [body |-> u.body, pos |-> u.pos, copy |-> u.copy]
    BY <1>6, Arrived DEF TypeInv, NetInv
  <2>2. PICK t \in taken : t.body = b /\ t.pos = u.pos
    BY <1>4, <1>5, <2>1 DEF KeptLink, Complete
  <2>3. t \in Arrivals /\ t.copy = 1 /\ t = [body |-> t.body, pos |-> t.pos, copy |-> t.copy]
    BY Arrived DEF TypeInv, NetInv
  <2>4. t = u
    BY <1>6, <2>1, <2>2, <2>3
  <2> QED
    BY <2>2, <2>4 DEF FreshInv
<1>7. ~ Has(w, b, Reading)'
  BY <1>1 DEF Has, Idle, Reading
<1> QED
  BY <1>1, <1>3, <1>6, <1>7, FlyingNext

\* A step of ParseResp.
LEMMA ParseTurn ==
  ASSUME NEW CONSTANT w, Workers = {w}, TypeInv, FreshInv, LinkInv, NetInv, SoloInv(w), TurnInv(w),
         TypeInv', LinkInv', ParseResp(w)
  PROVE  TurnInv(w)'
<1>1. PICK f, b : /\ f = work[w].frame /\ b = f.body /\ f \in taken /\ Part(f) /\ work[w].at \in Reading
  BY Shapes, AtWork
<1>2. /\ UNCHANGED <<unsent, wire, taken>> /\ work[w] # Dead /\ b \in Bodies \ Failures
      /\ Len(Text(b)) > BodySplit /\ Has(w, b, Reading) /\ InFlight(b) /\ b \notin unsent
  <2>1. UNCHANGED <<unsent, wire, taken>>
    BY DEF ParseResp, LoadFound, LoadMismatched, LoadMissing, Discard, TestFree, TestFilled, Panic,
           CountFrame, Store, NotFull, Full, HandOver, Create
  <2>2. work[w] # Dead /\ Has(w, b, Reading)
    BY <1>1 DEF Dead, Has, Reading
  <2>3. InFlight(b)
    BY <2>2, Flying
  <2>4. b \notin unsent
    BY <1>1 DEF FreshInv
  <2> QED
    BY <1>1, <2>1, <2>2, <2>3, <2>4, PartFrame
<1>3. \A x : Has(w, x, Reading)' => x = b
  <2>1. CASE Panic(w)
    <3>1. work'[w] = Dead
      BY <2>1 DEF Panic
    <3> QED
      BY <3>1 DEF Has, Dead, Reading
  <2>2. CASE \E x : Shape(w, x)
    <3>1. work'[w] = Idle \/ work'[w].frame = f
      BY <1>1, <2>2 DEF Shape, TypeInv
    <3> QED
      BY <1>1, <3>1 DEF Has, Idle, Reading
  <2> QED
    BY <2>1, <2>2, Shapes
<1>4. \A x : (InFlight(x)' => InFlight(x)) /\ (InFlight(x) /\ x # b => InFlight(x)')
  <2>1. \A x : Has(w, x, Reading) => x = b
    BY <1>1 DEF Has
  <2>2. \A x : InFlight(x) <=> (\E u \in wire : u.body = x) \/ Has(w, x, Reading)
    BY Flying
  <2>3. \A x : InFlight(x)' <=> (\E u \in wire : u.body = x) \/ Has(w, x, Reading)'
    BY <1>2, FlyingNext
  <2> QED
    BY <1>2, <1>3, <2>1, <2>2, <2>3
<1>5. ASSUME NEW x \in Bodies, Turns(x), x # b, InFlight(x) PROVE Num[b] # Num[x]
  BY <1>2, <1>5, TurnsAlike DEF TurnInv, Several
<1>6. ASSUME NEW x \in Bodies, Parts(x), Turns(x), x # b
      PROVE  /\ InFlight(x)' => KeptBody(w, x)'
             /\ list'[Num[x]] # None /\ list'[Num[x]].body = x => InFlight(x)'
  <2>1. ASSUME InFlight(x)' PROVE KeptBody(w, x)'
    <3>1. InFlight(x) /\ Num[work[w].frame.body] # Num[x]
      BY <1>1, <1>4, <1>5, <1>6, <2>1
    <3>2. KeptBody(w, x)
      BY <1>2, <1>6, <3>1 DEF TurnInv
    <3> QED
      BY <1>6, <3>1, <3>2, OtherKept
  <2>2. ASSUME list'[Num[x]] # None, list'[Num[x]].body = x PROVE InFlight(x)'
    <3>1. list'[Num[x]] = list[Num[x]]
      BY <1>1, <1>6, <2>2, EntrySteps, Numbered
    <3>2. InFlight(x)
      BY <1>2, <1>6, <2>2, <3>1 DEF TurnInv
    <3> QED
      BY <1>4, <1>6, <3>2
  <2> QED
    BY <2>1, <2>2
<1>7. ASSUME Parts(b), Turns(b), work'[w] # Dead
      PROVE  /\ InFlight(b)' => KeptBody(w, b)'
             /\ list'[Num[b]] # None /\ list'[Num[b]].body = b => InFlight(b)'
             /\ HandOver(w) => ~ InFlight(b)'
  <2>1. KeptBody(w, b)
    BY <1>2, <1>7 DEF TurnInv
  <2>2. CASE HandOver(w)
    BY <1>1, <1>7, <2>1, <2>2, LastFrame
  <2>3. CASE KeptBody(w, b)' /\ ~ HandOver(w)
    <3>1. ASSUME ~ InFlight(b)' PROVE FALSE
      <4>1. ~ Has(w, b, Reading)' /\ \A u \in wire : u.body # b
        BY <1>2, <3>1, FlyingNext
      <4>2. \A i \in DOMAIN Rows[b] : \E t \in taken' : t.body = b /\ t.pos = i
        BY <1>2, <4>1 DEF NetInv
      <4> QED
        BY <1>7, <2>3, <4>1, <4>2, AllReadNext
    <3> QED
      BY <2>3, <3>1
  <2> QED
    BY <1>2, <1>7, <2>1, <2>2, <2>3, OwnKept
<1>8. out' = out \/ (HandOver(w) /\ \E r : r.frame = f /\ out' = out \cup {r})
  <2>1. CASE HandOver(w)
    <3>1. PICK r : r = Result(f, FlattenSeq(links[work[w].link].body)) /\ out' = out \cup {r}
      BY <1>1, <2>1 DEF HandOver
    <3> QED
      BY <2>1, <3>1 DEF Result
  <2> QED
    BY <2>1 DEF ParseResp, LoadFound, LoadMismatched, LoadMissing, Discard, TestFree, TestFilled,
                Panic, CountFrame, Store, NotFull, Full, Create
<1>9. HandOver(w) => work'[w] # Dead
  BY Goes DEF HandOver, Idle, Dead
<1>10. b \in Good => Parts(b) /\ Turns(b)
  BY <1>2 DEF Good, Parts, Several
<1>11. \A d \in out : d.frame.body \in Good => d.frame.body # b
  BY <1>2 DEF TurnInv
<1>12. work'[w] # Dead => \A d \in out' : d.frame.body \in Good => ~ InFlight(d.frame.body)'
  BY <1>1, <1>2, <1>4, <1>7, <1>8, <1>10 DEF TurnInv
<1>13. \A c, d \in out' : c.frame.body = d.frame.body /\ c.frame.body \in Good => c = d
  BY <1>1, <1>8, <1>11 DEF TurnInv
<1>14. \A a, x \in Ordinary : a # x /\ Num[a] = Num[x] => ~ (InFlight(a)' /\ InFlight(x)')
  BY <1>2, <1>4 DEF TurnInv
<1> QED
  BY <1>6, <1>7, <1>12, <1>13, <1>14 DEF TurnInv

\* Nothing is sent yet.
LEMMA InitTurn == ASSUME NEW CONSTANT w, Workers = {w} PROVE Init => NetInv /\ TurnInv(w)
<1> SUFFICES ASSUME Init PROVE NetInv /\ TurnInv(w)
  OBVIOUS
<1>1. \A b : ~ InFlight(b)
  BY DEF Init, InFlight, Idle
<1>2. \A b \in Bodies : list[Num[b]] = None
  BY Numbered DEF Init
<1> QED
  BY <1>1, <1>2 DEF Init, NetInv, TurnInv

\* Every step keeps it.
LEMMA NextTurn ==
  ASSUME NEW CONSTANT w, Workers = {w}, Reliable, TypeInv, FreshInv, LinkInv, NetInv, SoloInv(w), TurnInv(w), [Next]_vars
  PROVE  NetInv' /\ TurnInv(w)'
<1>1. NetInv' /\ TypeInv' /\ LinkInv'
  BY NextNet, NextTyped, NextLinks
<1>2. CASE \E b \in Bodies : Send(b)
  BY <1>1, <1>2, SendTurn
<1>3. CASE ReadFrame(w)
  BY <1>1, <1>3, ReadTurn DEF ReadFrame
<1>4. CASE ParseResp(w)
  BY <1>1, <1>4, ParseTurn
<1>5. CASE UNCHANGED vars
  <2>1. \A b : (InFlight(b)' <=> InFlight(b)) /\ (KeptBody(w, b)' <=> KeptBody(w, b))
    BY <1>5, SameKept DEF vars, InFlight
  <2> QED
    BY <1>1, <1>5, <2>1 DEF vars, TurnInv
<1>6. ~ \E t \in wire : Lose(t) \/ Duplicate(t)
  BY DEF Lose, Duplicate, Reliable
<1> QED
  BY <1>1, <1>2, <1>3, <1>4, <1>5, <1>6 DEF Next, Finished

\* A goroutine finds a link of its own body: the body has its number to itself while it is in flight.
LEMMA TurnFound ==
  ASSUME NEW CONSTANT w, Workers = {w}, Reliable, \A b \in Bodies : Several(b) => Turns(b),
         TypeInv, LinkInv, TurnInv(w), LoadFound(w)
  PROVE  OwnFound(w)
<1>1. PICK f, a, b, c : f = work[w].frame /\ a = list[My(w).Uuid] /\ b = f.body /\ c = a.body
  OBVIOUS
<1>2. work[w].at \in Reading /\ a # None /\ work[w] # Dead
  BY <1>1 DEF LoadFound, Reading, Dead
<1>3. /\ Part(f) /\ My(w).Uuid = Num[b] /\ Num[b] \in Numbers /\ b \in Bodies
  BY <1>1, <1>2, AtWork, PartFrame
<1>4. InFlight(b)
  BY <1>1, <1>2, Flying DEF Has
<1>5. a \in Arrivals /\ links[a] # None /\ Num[c] = Num[b]
  BY <1>1, <1>2, <1>3, NoneAssumption DEF TypeInv, LinkInv
<1>6. c \in Bodies \ Failures /\ Len(Text(c)) > BodySplit
  BY <1>1, <1>5, PartFrame DEF LinkInv
<1>7. ASSUME c # b PROVE FALSE
  <2>1. Fits(c)
    BY <1>3, <1>5, <1>6, <1>7 DEF Reliable
  <2>2. Several(b) /\ Several(c)
    BY <1>1, <1>3, <1>6, PartFrame DEF Several
  <2>3. Turns(c) /\ {b, c} \subseteq Ordinary
    BY <1>3, <1>5, <1>7, <2>2, TurnsAlike DEF Several
  <2>4. InFlight(c)
    BY <1>1, <1>2, <1>3, <1>5, <1>6, <2>1, <2>3 DEF TurnInv, Parts
  <2> QED
    BY <1>2, <1>3, <1>4, <1>5, <1>6, <1>7, <2>3, <2>4 DEF TurnInv
<1> QED
  BY <1>1, <1>7 DEF OwnFound

\* What the invariants of a reliable connection say of Delivery's variables: each step hands over one
\* body, that was sent and not handed over, or none.
LEMMA TurnStep ==
  ASSUME NEW CONSTANT w, Workers = {w}, TypeInv, FreshInv, TurnInv(w), TurnInv(w)', TypeInv', FreshInv', [Next]_vars
  PROVE  [ExactlyOnce!Next]_ExactlyOnce!vars
<1> DEFINE of(b)   == {d \in out : d.frame.body = b}
           sent    == Good \ unsent
           handed  == [b \in Good |-> Cardinality(of(b))]
<1>1. CASE \E b \in Bodies : Send(b)
  <2>1. PICK b \in Bodies : Send(b)
    BY <1>1
  <2>2. b \in unsent /\ unsent' = unsent \ {b} /\ out' = out
    BY <2>1 DEF Send
  <2>3. CASE b \in Good
    <3>1. b \notin sent /\ sent' = sent \cup {b} /\ handed' = handed
      BY <2>2, <2>3
    <3> QED
      BY <2>3, <3>1 DEF ExactlyOnce!Next, ExactlyOnce!Send
  <2>4. CASE b \notin Good
    <3>1. sent' = sent /\ handed' = handed
      BY <2>2, <2>4
    <3> QED
      BY <3>1 DEF ExactlyOnce!vars
  <2> QED
    BY <2>3, <2>4
<1>2. CASE UNCHANGED <<unsent, out>>
  BY <1>2 DEF ExactlyOnce!vars
<1>3. CASE unsent' = unsent /\ \E r : out' = out \cup {r} /\ r \notin out
  <2>1. PICK r : out' = out \cup {r} /\ r \notin out /\ unsent' = unsent
    BY <1>3
  <2>2. PICK b : b = r.frame.body
    OBVIOUS
  <2>3. CASE b \notin Good
    <3>1. \A a \in Good : of(a)' = of(a)
      BY <2>1, <2>2, <2>3
    <3>2. handed' = handed /\ sent' = sent
      BY <2>1, <3>1
    <3> QED
      BY <3>2 DEF ExactlyOnce!vars
  <2>4. CASE b \in Good
    <3>1. of(b) = {}
      <4>1. \A d \in out : d.frame.body # b
        BY <2>1, <2>2, <2>4 DEF TurnInv
      <4> QED
        BY <4>1
    <3>2. of(b)' = {r} /\ \A a \in Good : a # b => of(a)' = of(a)
      BY <2>1, <2>2, <3>1
    <3>3. handed[b] = 0 /\ handed' = [handed EXCEPT ![b] = 1]
      <4>1. Cardinality(of(b)) = 0 /\ Cardinality(of(b)') = 1
        BY <3>1, <3>2, FS_EmptySet, FS_Singleton
      <4>2. \A a \in Good : Cardinality(of(a)') = IF a = b THEN 1 ELSE Cardinality(of(a))
        BY <3>2, <4>1
      <4>3. handed' = [a \in Good |-> Cardinality(of(a)')]
        OBVIOUS
      <4> HIDE DEF of
      <4> QED
        BY <2>4, <4>1, <4>2, <4>3
    <3>4. b \in sent /\ sent' = sent
      <4>1. r.frame \in taken'
        BY <2>1 DEF TypeInv
      <4>2. b \notin unsent'
        BY <2>2, <4>1 DEF FreshInv
      <4> QED
        BY <2>1, <2>4, <4>2
    <3> QED
      BY <2>4, <3>3, <3>4 DEF ExactlyOnce!Next, ExactlyOnce!Hand
  <2> QED
    BY <2>3, <2>4
<1>4. ASSUME NEW v \in Workers, ReadFrame(v) \/ ParseResp(v)
      PROVE  unsent' = unsent /\ (out' = out \/ \E r : out' = out \cup {r})
  BY <1>4 DEF ReadFrame, ReadDropped, ReadWhole, ReadPart, ParseResp, LoadFound, LoadMismatched, LoadMissing,
              Discard, TestFree, TestFilled, Panic, CountFrame, Store, NotFull, Full, HandOver, Create
<1>5. \A r : r \in out => out \cup {r} = out
  OBVIOUS
<1> HIDE DEF of, sent, handed
<1>6. \/ \E b \in Bodies : Send(b)
      \/ UNCHANGED <<unsent, out>>
      \/ unsent' = unsent /\ \E r : out' = out \cup {r} /\ r \notin out
  BY <1>4, <1>5 DEF Next, Lose, Duplicate, Finished, vars
<1> QED
  BY <1>1, <1>2, <1>3, <1>6

\* Delivery starts with nothing sent and nothing handed over.
LEMMA InitStep == Init => ExactlyOnce!Init
<1> SUFFICES ASSUME Init PROVE ExactlyOnce!Init
  OBVIOUS
<1>1. Good \subseteq Bodies
  BY DEF Good
<1>2. Good \ unsent = {} /\ \A b \in Good : {d \in out : d.frame.body = b} = {}
  BY <1>1 DEF Init
<1> QED
  BY <1>2, FS_EmptySet DEF ExactlyOnce!Init

\* A connection that loses and duplicates nothing, read by one goroutine, is a Delivery, but for the
\* promise that it does deliver: whatever the order of the frames and however often a process uses its
\* numbers again, each body that is one frame, or whose number only ordinary calls have, is handed over
\* once, after it was sent, whatever else has its number at the time.
THEOREM OnceHolds ==
  ASSUME NEW CONSTANT w, Workers = {w}, Reliable
  PROVE  Spec => ExactlyOnce!Init /\ [][ExactlyOnce!Next]_ExactlyOnce!vars
<1> DEFINE Inv == TypeInv /\ FreshInv /\ LinkInv /\ NetInv /\ SoloInv(w) /\ TurnInv(w)
<1>1. Init => Inv /\ ExactlyOnce!Init
  BY InitTyped, InitFresh, InitLinks, InitKept, InitTurn, InitStep
<1>2. Inv /\ [Next]_vars => Inv'
  BY NextTyped, NextFresh, NextLinks, NextSolo, NextTurn
<1>3. Inv /\ Inv' /\ [Next]_vars => [ExactlyOnce!Next]_ExactlyOnce!vars
  BY TurnStep
<1> HIDE DEF Inv
<1> QED
  BY <1>1, <1>2, <1>3, PTL DEF Spec

\* On such a connection every body is whole, without the condition of WholeHolds, if no two bodies of
\* several frames have one number but those of ordinary calls: bodies that look alike take turns.
THEOREM WholeReliable ==
  ASSUME NEW CONSTANT w, Workers = {w}, Reliable, \A b \in Bodies : Several(b) => Turns(b)
  PROVE  Spec => []WholeBodies
<1> DEFINE Inv == TypeInv /\ FreshInv /\ LinkInv /\ NetInv /\ SoloInv(w) /\ TurnInv(w) /\ WholeInv
<1>1. Init => Inv
  BY InitTyped, InitFresh, InitLinks, InitKept, InitTurn, InitWhole
<1>2. Inv /\ [Next]_vars => Inv'
  <2>1. SUFFICES ASSUME Inv, [Next]_vars PROVE Inv'
    OBVIOUS
  <2>2. WholeInv'
    BY <2>1, TurnFound, NextWhole
  <2> QED
    BY <2>1, <2>2, NextTyped, NextFresh, NextLinks, NextSolo, NextTurn
<1>3. Inv => WholeBodies
  BY DEF WholeInv
<1> HIDE DEF Inv
<1> QED
  BY <1>1, <1>2, <1>3, PTL DEF Spec

=============================================================================
