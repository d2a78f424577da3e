# A TLA+ verification of Gorigin

Gorigin is a small Go library for service nodes: an RPC (`network/rpc`), a
watcher where nodes register and find each other (`network/watch`), a timer
(`timer`) and a log writer (`logs`).  This directory models its concurrent
core, checks it with TLC on small instances, and proves every invariant of the
passing runs with TLAPS for all instances.  Line numbers below are those of the repository's files.

## 1. The system

| Component | State | Operations | Talks to |
|---|---|---|---|
| Rpc calls: `rpc/api.go`, `rpc/invoke.go`, `rpc/conns.go` | `NodeDetail.reqnum`; per connection the table `rc` (serial number -> channel) | `CallAuto` and the like, `serial`, `connsCall`, `NewChan`, `WaitRsp`, `DelChan`, `Close`, `ReadRespTCP`, `ReadRespUDP` | callers' goroutines and one reader goroutine share `rc` |
| Framing: `rpc/encode.go`, `rpc/conns.go` | per connection `list` (serial number -> the frames of a body) | `MakeReqBody`, `MakeRspBody`, `parse`, `ParseResp` | the reader of a client; at a server one goroutine per frame |
| Watcher registry: `watch/fmsg.go`, `node.go`, `api.go` | `funcmap` (`num`, `ids`, `str`), `nodemap` | `Registered`, `Heartbeats`, `GetFuncMsg`, `GetApiConn`, `ClearNodeExprie` | one goroutine per request, and the timer |
| Timer: `timer/cache.go`, `timer.go`, `common.go` | maps `one` (due soon) and `two` (later), `done`, `next` | `AddTimerRun`, `AddDuration...`, `run`, `put`, `checkSave`, `CloseAndExit` | a ticker goroutine, a goroutine per running job, a goroutine per `checkSave` |
| Node session: `rpc/watch.go`, `rpc/node.go` | master, slaves, failed-heartbeat counter | `InitWatchConfig`, `WatchRegister`, `MasterCall`, `SlavesCall`, heartbeats | registry (over RPC), timer |
| Client caches: `rpc/fmsg.go`, `rpc/conns.go` | functions and their connections, with stamps | `Query`, `GetFuncConn`, `PutConn`, `ClearConn`, `TimerCheck`, `RefreshConn` | registry, timer, calls |
| Election: `watch/elect.go` | none that lasts | `Elect`, `ElectNotify` | not called yet |
| Dispatch: `rpc/service.go`, `protocal.go`, `comm.go` | the table of methods, fixed at start | registration by reflection, marshalling | framing |
| Built-ins, HTTP: `rpc/builtin.go`, `http.go` | none | ping, watcher calls | registry |
| Logs: `logs/` | buffer, mutex, file, period, level | `NewLogs`, `WriteError`..., `check`, `sendCache`, `sendChann`, `reset`, `exit` | callers; a goroutine per line |
| Monitor, common, messages, examples | none | reading `/proc`, helpers, generated code, `main` | |

What is hard in it, and what makes each part correct:

- **Calls.**  A serial number is all that ties an answer to its call.  Numbers
  must be unique among the ordinary calls under way though they are drawn by three
  atomic operations (`invoke.go:270-276`); the table `rc` must be exact though
  a call enters its channel only after it wrote the request; a reader must not
  block, for every call of its connection depends on it; a call with a deadline
  must return though connections break, are redialled (with no new reader),
  closed and swept.  Beside them go pings, all with the number 1 and all answered
  (`conns.go:326`, `builtin.go:16`), and built-in calls, whose number is their
  function id: after the counter has passed 65535 ordinary calls share numbers
  with them.
- **Framing.**  Frames of a body are lost, repeated, reordered (UDP) and
  interleaved with those of bodies that have, or had, the same number; what is
  handed over must be a body that was sent, and over TCP every body must be
  handed over once.
- **Registry.**  `sync.Map` guards single operations and `funcdata.node`, a
  slice, is not guarded at all.  Ids that were told must keep their meaning;
  whatever can be found by name must be found by id; a node whose heartbeats
  come in must stay findable.
- **Timer.**  A job goes from goroutine to map to goroutine.  It must be called
  at most as often as asked, not before its time, never beside itself, never after
  it ended itself, and a job for ever must go on for ever.
- **Client caches.**  All callers of a process, the timer and the requests it
  serves share one table of connections without owning any: one caller tests,
  closes and removes what another writes to.  A call that fails over from one
  node to the next must not run its function twice, and one with a deadline must
  return whatever the others do to its connections.
- **Logs.**  Every line is written by a goroutine of its own while the file is
  changed at a period's end, closed by another goroutine, opened again after a
  failed write, and saved by `exit`; a mutex is held across these steps and not
  always given back.  A line must land in no file of an earlier period, once, and
  the log must not stop.

All hazards, each at its line and with the property that would show it, are in
`PROJECT.json`.

## 2. The modules

| Module | Models | One action is |
|---|---|---|
| `Calls` | `rpc/invoke.go` (serial, connsCall), `rpc/conns.go` (rc, readers, Close, TestConn, the job of TimerCheck) | one atomic operation, one critical section of `rc`'s lock, or one message |
| `Dispatch` | `rpc/api.go`, `rpc/invoke.go` before `connsCall` and over HTTP, `rpc/fmsg.go` (the cache), `rpc/node.go` (NodeBaseToConn), `rpc/conns.go` (TestConn, RefreshConn, TimerCheck), `rpc/http.go` | one access to the cache, one test, dial or close, one step of an HTTP exchange, or a step of `Calls` |
| `Frames` | `rpc/encode.go` | (functions: header fields with their width, cutting, padding, parsing) |
| `Reassembly` | `rpc/conns.go:157-230`, `tcp.go`, `udp.go` | one critical section, or one access to a shared `ReadLink`, of `ParseResp` |
| `Delivery` | the promise: each body sent is handed over, whole, once | abstract |
| `Registry` | `watch/fmsg.go`, `watch/node.go`, `watch/api.go` | one `sync.Map` or atomic operation, or one read or write of a shared slice |
| `Startup` | `rpc/node.go`, `rpc/watch.go`, `rpc/fmsg.go`: a node's start and the lookup of a function | one call, or one step of a handler |
| `Timer` | `timer/` | one `sync.Map` operation, one call of a job, one tick |
| `Logs` | `logs/` | one operation under `flock`, one lock or unlock of `mu` with what it guards, one read of the clock |
| `MC...` | instances for TLC | |
| `CallsProofs`, `DispatchProofs`, `FramesProofs`, `ReassemblyProofs`, `RegistryProofs`, `KeptProofs`, `TimerProofs`, `LogsProofs` | theorems | |

How state corresponds:

- `Calls`: `reqnum` is `NodeDetail.reqnum`; `pc`, `num`, `left`, `via` are the
  locals of a goroutine in `connsCall`; `chan[c]` is `RecvChan.body` of its call,
  with room for one; `rc` belongs to a `NodeConn`, `link` says whether its connection
  takes what is written to it; `reader` is its reader
  goroutine between its steps; `req`, `back` are the two directions of the wire;
  `got` is what the caller returned with; `cut` is history: the waiting calls whose
  entry `Close` or the job of `TimerCheck` removed.  A body is one message.  `Callers`
  make one call each.  A ping has no request: the server only answers it, so `Pong`, its
  answer, is put on the way when it is written, to be read at any time.  `TestConn`,
  `Close`, `Refresh` and `Sweep` may happen on any connection at any time, for other
  goroutines and the timer share it.  `Handovers` says how often the server of a
  connection may be handed a request: once if it has one or two frames over TCP; each
  frame of a longer one but the first may find it complete (`conns.go:194`); over UDP a
  datagram may come twice.
- `Frames` and `Reassembly`: `list` is `NodeConn.list`, `links` the `ReadLink`s,
  each named by the frame it was created for, `work` the goroutines inside
  `ParseResp`.  Bytes are `<<body, index>>`, so that bytes of two bodies never
  look the same.  A frame's header fields are taken modulo their width.  `Send`
  assumes that a process gives an ordinary call the number of another ordinary call
  only when nothing of that is in flight: a counter of 65535 values lies between.  Of
  built-in calls and pings, the bodies outside `Ordinary`, nothing is assumed: their
  number is their function id, whoever has it at the time.  `Panic` is the index -1 at
  `conns.go:193`: the frame whose place is a multiple of 65536 has the place 0 in
  its header, and neither the readers of a client nor the goroutines of a server
  recover, so all goroutines end (`Dead`).
- `Registry`: `num`, `ids`, `str` are the fields of `funcmap`, `data` the heap of
  `funcdata` that the two maps share, `node` is `nodemap.uuid` with a Boolean in
  place of the stamp's age, `doomed` the key `ClearNodeExprie` holds between
  its test and its delete, `work` the request goroutines with their locals.
  `told`, `alone` and `settled` are history: ids that were told, handlers that
  have run alone, and for each node the functions of its last registration if that
  ran alone.
- `Timer`: `one`, `two` are the maps, `next`, `times` fields of `TimerFunc`; `offset` is
  what a stamp names within its minute, hour or day, and `first` is history: the time
  that the job was asked for, by what `timer/README.md` says of stamps (`Asked`);
  `runs` counts the goroutines at each stage with each job, `loop` is the ticker
  goroutine inside its `Range`, `saves` the goroutines inside `checkSave`.  One
  unit of time is one tick.  A `Range` visits in any order what was in the map
  when it began and may visit what came in since.

- `Startup`: `ids` and `str` are the keys of `funcmap`'s maps in each process, a
  function standing for both its id and its name; `phase` is how far `newClient`
  and `runServer` have come, `call` the one `MasterCall` a start makes.

- `Dispatch`: `stage` is where a goroutine is before `connsCall` or inside
  `postHttpApi`, `find` its variables there (the answer of the watcher, what is
  still to be connected, the connections found, the one it tests, the one it puts
  into the cache).  `ser` is `funcmap.ser`, a map from the uuid of a node to its
  connection, `known` the field `node` of the function's `funcdata`, `wrong` the
  connections whose field `wrong` is set, on which `TimerCheck` acts.  A connection
  gets its name when it is dialled (`born`).  `want` is what each caller asks for: the operation, a uuid or
  a name, whether the function is in this process, and the nodes the watcher may
  answer with.  `ran` and `lost` are history: how often the function ran for a
  call, and how many of these were over HTTP with the answer lost.
- `Logs`: `mu`, `buf`, `stamp`, `level`, `file`, `live` are fields of `LogData`
  (`file` as the period in its name, `live` says that it is not closed); `doomed`
  is the goroutine `check` starts to close the old file; `pc`, `at`, `name`, `num`
  are the locals of a line's goroutine and of a call of `exit`.  `wrote[l]` lists
  the files that a line was written to.  `flock` is taken and given back around
  single operations, which makes these single steps; `mu` is held across steps.
  Time is the number of the period.  A cached log's buffer counts lines in place
  of bytes.  `slipped` and `turned` are history, for two properties.

`Dispatch` extends `Calls`: its actions from `connsCall` on are those of `Calls`,
each with what it leaves of the cache unchanged.  `Reassembly` extends `Frames`; `Delivery` is instantiated by `Reassembly` as the
property `Delivered`.  `Calls` stands above `Reassembly`: what `ParseResp`
returns whole is one message there.

## 3. The runs

| Run | Question | Bounds | Result |
|---|---|---|---|
| `Calls_warm` | unique numbers, own answers, exact table, what the reader blocks on | 3 calls (one built-in, with the number of a ping), 1 connection that may lose, break and be tested, refreshed, closed and swept; modulus 3, numbers 0 and 1 built-in, counter starts at 0 or 3 | holds, 5.7M states |
| `Calls_race` | own answers of the first calls of a process | 2 calls, counter at 0 | violated |
| `Dispatch_calls` | one node runs a call, as often as it is handed it; own answers; what a reader blocks on; a deadline returns | 2 calls, 11 pairs of what they ask for; a TCP node (dialled at most twice), an HTTP node and a UDP node that may be handed one request twice; one break, loss or `ClearConn` | holds under `DispatchSpec`, 628k states |
| `Reassembly_tcp` | TCP implements `Delivery` | 7 bodies: 2, 3 and 2 frames, an error, one too long for the header, two pings; one number used by two ordinary calls and the pings | holds under `FairSpec`, 71k states |
| `Reassembly_udp` | only whole bodies, nothing forgotten | 2 bodies: 3 frames, and 6 (too long for the header) of a built-in call under the same number; a frame overtakes the two before it, one is lost, one duplicated | holds, 3.2M states |
| `Reassembly_server` | nothing forgotten with a goroutine per frame | 2 bodies, 2 goroutines | violated |
| `Registry_watch` | ids keep their meaning, names have numbers, undisturbed nodes stay listed | 2 handlers, 2 nodes, 2 names, 3 ids | holds, 6.0M states |
| `Registry_lost` | a node that is heard from is discoverable | 2 handlers, 1 node, 1 name | violated |
| `Startup_register` | a node starts beside a running watcher | 2 nodes, 3 built-in functions, a faultless network | violated |
| `Logs_files` | right file, written once, who keeps the mutex, what an exit has saved; a line is written | 2 lines, 2 exits, 3 periods, each setting of `NewLogs`, a full buffer at 2 lines, a disk that fails and is mended | holds under `FairSpec`, 1.9M states |
| `Timer_jobs` | at most `times`, early by no more than the stamp loses, not beside itself, not after `false` | 2 jobs (`AddDurationBoolean`; `AddTimerRun` with a stamp "01" in a minute of 2, 3 times, at once), time to 6 | holds, 4.6M states |
| `Timer_lost` | a job for ever is kept | 1 job, time to 4 | violated |

Why the bounds are enough.  In `Calls_warm` the numbers are 0, 1 and 2, of which 0
and 1 are built-in ids and 1 is that of the pings, too.  With the counter at 3 the
two ordinary calls get the numbers 1 and 2: one shares its number
with the built-in call and the pings, which may be under way before, after and with it,
and the other has to itself what it is promised.  With the
counter at 0 the first of them draws the reserved number 1 and swaps the counter, and what
they get is 2 and 0, or 0 and 1, for the end of the modulus is next; the server ignores
the number 0.  (Were more numbers reserved, both might draw one at once; that is
`Calls_race`.)  One connection
is what calls share; failing over between several is in `Dispatch_calls`, where
two connections to one node are enough for a second dial
while the first is being tested by another caller, and the third and the fourth for a
failover from TCP to HTTP and for a request that is handed over twice.
In `Logs_files` two boundaries of periods let a put change the file twice or fall
behind by two, and two puts race for one boundary.  Bodies of one, two and three
frames have every kind of frame; a byte of two values makes a header of two
bytes too small for the fourth frame, which is the code's 65536th.  The body of six
frames in `Reassembly_udp` claims two, so that its fourth frame, with the place 0,
finds an entry and panics; one lost frame and one second copy leave entries
behind for the other body of the number, which may be under way at the same time.  The
constraint `Overtaking` keeps a frame from overtaking more than two places of its own
body, which is every order of three frames and all but the extreme ones of six.  Two handlers
give every race between two requests, and the third id leaves room for two
numbers of one name.  The timer runs until both jobs have been through both maps
and ended; `Part` and `SaveEvery` are 1 and 2 instead of 5 and 4 (both longer
than a tick in the code), so that jobs go to `two` at once.

Deadlock is checked in every run but three: `Calls_race`, which stops at a violation of
something else; `Logs_files`, for a log may really stop, with every goroutine
waiting for a mutex that none gives back, and `MutexKept` says exactly when; and
`Dispatch_calls`, where the call without a deadline may wait for ever for an answer that
was lost.  In `Calls_warm` the built-in call has no deadline either, but `TestConn`
is always possible.  The
other modules end in an explicit `Finished` or `Returned` step, except `Registry`, whose
handlers never end.

### What the violations show

1. `Calls_race`: `serial` swaps the counter and adds to it in two steps
   (`invoke.go:272-273`).  Two goroutines that both drew a number below
   `WATCH_IN_MAX` in a new process may both get `WATCH_IN_MAX + 1`; one call then
   takes the other's answer.  In `Calls_warm` one reserved number is left above a
   counter of 0, so only one of the two can draw it.  The proofs assume (`Warm`) the counter past
   `WATCH_IN_MAX` and not about to pass the end of its 32 bits, and no more ordinary calls
   than numbers; of built-in calls, however many and of whatever functions, they assume
   nothing.
2. `Reassembly_server`: looking up and creating an entry of `list` are two
   critical sections (`conns.go:177`); two goroutines that parse two frames of
   one body may both create it, and the body is never complete.  The opposite
   happens as well: with two goroutines that store the last two of three frames,
   both may find the body complete (`conns.go:194`), and it is handed over twice.  `Calls`
   and `Dispatch` take that over as `Handovers`, and its loss as `LoseRequest`.
3. `Registry_lost`: `GetApiConn` writes back the nodes it found
   (`watch/api.go:134`); between the two halves of `Registered` a node is listed
   and not yet known, so it is taken off, and heartbeats never put it back.
4. `Startup_register`: `Query` asks the table of ids only for the id 0, and the
   table of names only for the empty name (`fmsg.go:97`, `fmsg.go:104`).  The
   watcher therefore finds none of its own functions, asks a watcher in turn, has
   none, and answers with an error.  `parse` returns the frame of an error answer
   together with an error, `ParseResp` then returns 0, and the node's reader drops
   it (`conns.go:169`): a caller is not told, and waits for its deadline, or for
   ever when its context has none, as `CallAuto`'s (`api.go:58`).
   `RunServer` fails in every run; with `# None` in place of `= None` in the two
   conditions of `Query` the run passes.  At this commit, then, no request over TCP
   or UDP reaches a registered function.  The watcher's handlers are reached over
   HTTP (`http.go:45`), so the races of `Registry` are those of such requests;
   `Calls` models what `connsCall` and the readers do for any caller that has a
   function and its connections.
5. `Timer_lost`: the ticker deletes a job after it started it
   (`cache.go:53-54`), perhaps after `run` has put it back.

Two properties that hold do so by naming what the code does against its documentation,
which is why they stand among the findings of `PROJECT.json`, too:

- `NeverEarly` (`Timer_jobs`) counts from the time a job was asked for.  The stamps
  are documented as "Time timing: 15:04:05; 04:05; 05;" (`timer.go:11`,
  `timer/README.md:13`), but `checkTime` divides the time they name by the period and
  multiplies by it again (`timer.go:161`, `166`, `171`): "04:05" is due at the full hour,
  "15:04:05" at midnight.  The property therefore allows a job to come early by
  its `offset`, and no more; without that term the run finds a stamped job called too
  early.
- `MutexKept` (`Logs_files`) names two ways in which a goroutine keeps the log's mutex for
  ever: see section 5.

### Assumptions of the passing runs

- `Calls_warm`: no more ordinary calls than numbers.  In the code a call without a
  deadline may wait while 65535 others pass, and the next shares its number.
- What an ordinary call is promised, an answer and an entry of its own and a reader that it
  does not block, it is promised only where its number is no built-in id (`Private`).
  After the wrap of the counter 100 numbers of 65535 are; a call that gets the number 1
  may take the answer of a ping, and two calls of one built-in function (two `WatchCall`)
  always share theirs.  What holds of every call is that its answer bears its number and that
  an entry belongs to a call that waits with its number.  (`comm/recv.go:21` says
  of the ping that it "didn't return data".)
- `Calls`, `Dispatch`: a dial that fails leaves `tconn` nil, and a later write to it
  (`invoke.go:293`) panics; the model takes it as a write that fails.  Of several frames
  of a request all are written or none.  `Refresh` starts a reader only after the one before
  it has ended.
- `Dispatch_calls`: the watcher's answers are arbitrary, and it does answer or
  fail.  At this commit it always fails over TCP and UDP (number 4), so the calls
  that reach a node are those of a process whose watcher was mended; the model
  leaves that open.  Both callers ask for one function.  A node that a uuid names keeps its
  host (the error "same uuid but host not same" does not occur), and the watcher
  answers `GetAssignConn`, which asks by uuid only, with one node and no list.  A UDP
  connection is a TCP one whose server may be handed a request again and whose messages
  may be lost.
- `Logs_files`: the disk fails at most once and may be mended.  A write is all or nothing:
  one that wrote a part before it failed (`log.go:210`) is repeated whole by `reset`.
- `Reassembly_tcp`, `Reassembly_udp`: one goroutine parses, as at a client.  With
  two, number 2 above applies.  Two bodies of several frames that are answers to built-in
  calls of one function may be mixed, even over TCP, if they have as many frames; `OnceHolds`
  and `WholeReliable` leave them out (`Turns`).  They have one sender, as the reader of a client has.  A
  UDP server has one `NodeConn` for all its clients (`udp.go:75`), and two clients
  that use one number for bodies of one function and length have them mixed:
  `WholeBodies` fails with two senders.
- Of the constants: a byte has at least two values and a frame has fewer data bytes
  than two bytes can count (1430 and 520 in the code); `None` is no frame and no
  link; the connections a process ever dials are finitely many, however many.
- `Registry_watch`, `KeptWhenAlone`: only nodes whose last registration had the
  watcher to itself, and only while they are known: `ClearNodeExprie` may delete one whose
  heartbeat came between its test and its delete (`node.go:209`).  What others do is
  arbitrary.
- `Timer_jobs`: one `checkSave` at a time, so one takes less than `SaveEvery`
  ticks (two seconds in the code).  If two overlap, both may move one job, and
  `AtMostTimes`, `NeverEarly` and `OneAtATime` all fail.  That is the hazard at
  `cache.go:45`, which no property that holds covers.

## 4. Fairness

- `Dispatch`, `DispatchSpec`: weak fairness of each caller's own steps, the
  deadline of its context among them: a goroutine that can run does, a timer of the
  runtime fires, a dial over TCP ends, a write to a TCP connection returns (it has no
  deadline, `invoke.go:293`: a peer that reads nothing may hold it for as long as the
  connection lives).  Nothing is asked of an exchange over HTTP,
  which no deadline bounds (`http.go` takes no context), nor of servers, readers and
  faults: `DeadlineReturns` says that a call returns, or is for ever inside an
  HTTP exchange, or a panic ended the process.
- `Logs`, `FairSpec`: weak fairness of `NewLogs` and of every goroutine that was
  started.  Nobody has to put a line, to exit, or to close the old file.
- `Reassembly`, `FairSpec`: weak fairness of the reader goroutine.  `Send` and
  the network's faults are not fair: what was not sent need not be.
- `Delivery` asks `WF` of handing over only.
- `Registry` and `Timer` are checked for safety only.

## 5. The proofs

`CallsProofs` (constants: any finite set of callers, any connections, function
ids, moduli and faults; the assumption is `CallsAssumption`):

- `Typing`: `Spec => []TypeOK`, which is inductive.
- `Uniqueness`: `Warm` and `Spec` imply `[]UniqueNumbers`.  `UniqueNumbers` is
  not inductive.  `NumInv` adds that the counter stands at its start plus the
  number of ordinary calls that drew from it, and that every number of theirs is one of
  those drawn since, modulo `SerialMod`; no more of them than numbers then gives
  uniqueness by arithmetic (`ModDistinct`).  Built-in calls do not draw.
- `OwnAnswers`: `Warm` and `Spec` imply `[]OwnAnswer`.  `AnswerInv` says that
  every message on the wire, in the reader's hands or in a channel carries the
  number of the call or ping it was made for, and that an entry of `rc`, or
  a channel the reader is about to send on, belongs to the call with that number.
  A private number is that of one call among all so far, and of no built-in call or ping
  (`PrivateOwn`).
  The reader sends after it has released the lock, when the call may have
  returned: uniqueness over all ordinary calls so far, not just those in the table, makes
  that harmless.
- `ExactTable`: `Warm` and `Spec` imply `[]TableExact`.  `NewChan` and `DelChan`
  write the entry of their number, whoever it belongs to (`TableInv`): what they write is
  right in any case, and what they overwrite is no private call's but their own.
- `ReaderBlocks`: `Warm` and `Spec` imply `[]ReaderBlocksOnlyOnRepeat`.  `OnceInv` counts
  what was made of a request: everything alive belongs to a call that has written, on
  its connection, and to one of the times its server was handed it (`BornInv`); a request
  still to be handed over is newer than every answer to it (`NewestInv`); and no answer
  is in two places (`ApartInv`).  A channel that is full of one answer of the call
  while the reader holds another is then proof of a second time.

`DispatchProofs` (any callers, nodes, connections, answers of the watcher, number of
broken and cleared connections; `DispatchAssumption` and `CallsAssumption`, not `Warm`):

- `AtMostOnceHolds`: `DispatchSpec => []AtMostOnce`.  `OnceInv` accounts for every
  run: as long as a call has written no request over TCP, its function ran as often
  as an answer over HTTP was lost, and once more inside an exchange that is about to
  answer; afterwards the requests on the wire are one at most, on the connection it was
  written on, and each run is behind one of the times that was handed over
  (`RequestInv`).  A call leaves `connsCall`'s loop with the write, so
  it fails over only when nothing is on the wire.
- `DispatchTyping`: `DispatchSpec => []DispatchTypeOK`, from `TypesInv`.  A caller
  carries connections between its steps, so their ranges rest on those of the cache
  they were read from and of the connections dialled so far (`born`).  That a function runs at
  most as often as there are connections needs a count: each attempt uses up one
  of the connections that were found.  The set of connections is finite for that
  reason.

`FramesProofs` (any `BodySplit` and `Byte` within `FramesAssumption`): what cutting
and parsing compute, without induction over a body.  `Flattened` shows that the
frames of a text, one after another, are the text: `FlattenSeq` is a recursive
function, of which the prefixes of the text are one solution (`Joined`), and two
solutions do not differ at a least place (`Least`, by the well-foundedness of the
numbers).  `Restored` applies it to the chunks of `MakeReqBody`; `OneFrame` and
`ManyFrames` say what `parse` makes of each frame, padding and width of the header's
fields included.

`ReassemblyProofs` (any bodies, lengths, numbers and faults; `FramesAssumption`,
`ReassemblyAssumption`, `NoneAssumption`):

- `TypesHold`: `Spec => []TypeOK`, for any goroutines.  `TypeInv` adds that a
  goroutine past its lookup holds a frame of several (`Part`).
- `WholeHolds`: `Spec => []WholeBodies`, for any goroutines, numbers in use for
  several bodies at once, from any senders, if `Distinct`: no two bodies of several
  frames agree in number, function and number of frames, which is all that `ParseResp`
  compares (`conns.go:181`).  Without it the property is false over UDP.  A link is
  named by its frame, and `FreshInv` says that each name is given once; `LinkInv` that a
  link was made for the body of its name and lies under the number of that body;
  `WholeInv` that each place of a link is empty or holds that chunk of its body, that
  a goroutine's link is for the body of its frame, and that a link found complete
  stays so while another goroutine still stores into it.
- `ForgottenNone`: `Spec => []NothingForgotten` for one goroutine, as at a client, of
  bodies under whose number no other was sent so far.
  (With two, `Reassembly_server` shows it violated.)  `SoloInv` says that what the
  goroutine found in the table is still there.  `KeptInv` accounts for the frames read of
  a body not yet returned: each is in the link or in the goroutine's hands, nothing
  else is in the link, `recv` is at least the number of places filled, and one place is
  empty but just after the last was stored.  The test of `recv` therefore never hides
  a complete body.
- `OnceHolds`: for one goroutine and `Reliable`, `Spec` implies the initial predicate
  and the steps of `Delivery` under the mapping of `ExactlyOnce`: each body is handed
  over at most once and after it was sent.  It speaks of the bodies of one frame, and of
  those of several whose number is shared, if at all, by ordinary calls only (`Turns`);
  the others may be there and disturb one another.  `Reliable` is what a TCP connection of a
  client gives: nothing is lost or duplicated, a number has one sender, and a body
  too long for its header has its number to itself.  The order of frames is not needed.
  `NetInv` says that every frame sent is on its way or was read; `TurnInv` that ordinary
  bodies of one number are in flight one at a time, that the table holds no entry for a
  body that takes turns but the one in flight, and
  that a body returned has nothing in flight.  The last frame of a body ends its entry,
  which is why the next body of the number starts afresh.
- `WholeReliable`: on such a connection, if every body of several frames takes turns,
  `WholeBodies` holds without `Distinct`.

`RegistryProofs` (any number of handlers, nodes, names, requests;
`RegistryAssumption`):

- `Typing`, `AnsweredIdsHold`, `NamedHaveNumbers`: `Spec` implies `[]TypeOK`,
  `[]AnsweredIds` and `[]NamedIsNumbered`.  None of them is inductive, for a
  handler carries an id between steps.  `IdsInv` adds that rows up to the counter
  are filled and `ids` lies among them (`TablesInv`), and that each handler's
  locals agree with the tables (`Sound`).  A step only ever makes the tables grow
  (`Grown`: ids stay, names of rows stay), and what is sound stays so under
  growth (`SoundStays`), so a step of one handler needs a look at that handler
  alone (`OthersStay`).

`KeptProofs` (the same constants):

- `KeptHolds`: `Spec => []KeptWhenAlone`.  Handlers write back lists of nodes they read
  earlier (`fmsg.go:77`, `api.go:134`).  `AloneInv` says that a registration which is
  alone so far has put every function up to its place; `KeptInv` that for each function a
  node settled under, no handler is about to number the name anew (`Adds`), the node is
  in the list, and every handler that may write that list has the node in what it
  will write (`Carries`): a handler begun before the registration would have ended its
  being alone, and one begun after has read the list with the node in it.

`TimerProofs` (any jobs, intervals and speed of the goroutines;
`TimerAssumption`, and `OneSaver`: there is one `checkSave` at a time):

- `Typing`, `AtMostTimesHolds`, `NeverEarlyHolds`, `OneAtATimeHolds`, `NoMoreCalls`:
  every property of `Timer_jobs`.  A job is a token (`OnePlace`): it is not added
  yet, in `one`, in `two`, in the hands of one goroutine, or gone.  A job that the
  ticker has started and not yet deleted, or that `checkSave` has stored in `one` and
  not yet deleted from `two`, does not count as being in that map (`InOne`, `InTwo`):
  the step that follows deletes it whether it was put back or not, which may lose
  the job (`Timer_lost`) and never doubles it.  `CountInv` says that the calls made
  and the calls left make up the number asked for; `DueInv` that `next` is the
  time asked for plus an interval for each call, less what the stamp lost (by arithmetic,
  `FirstTime`); `SaveInv` that what `checkSave` is about to
  store is in `two`.  With two savers the token splits in `checkSave`, and `OneSaver`
  is what the proofs use against it.

`LogsProofs` (any lines, calls of `exit`, settings, levels, size of the buffer and
number of periods; `LogsAssumption`, of which the proofs use that the calls of
`exit` are finitely many and none is a line):

- `Typing`, `MutexKeptHolds`, `RightFileHolds`, `ExitSavesHolds`,
  `WrittenOnceHolds`: every safety property of the run.  `RightFile` is what needs
  the work.  A line is written to a file that may have been changed since it passed
  `check`, by another put, or by `reset`, which opens whatever the clock says.
  `FileInv` says that the file is never more than a period behind `stamp`, and not
  behind the time of any put that changed it; `NameInv` says the same of the name
  a put has computed and not yet used; `PassedInv` says that a line past `check` is
  of a period before `stamp`, or changed the file itself.  Only the put that holds
  `mu` is between its name and its stamp (`MutexInv`), which is why the name is not
  overtaken.  `reset` does not hold `mu`; that its name may be overtaken is what
  `slipped` records and `RightFile` leaves out.
- A step of no write keeps all that was written (`WritesNothing`,
  `NothingWritten`); a write adds one file to one line, or to the whole buffer for
  an exit, of which there was none yet for that exit (`StepSent`, with `Written2`
  counting the exits that have written).
- `ExitSavesHolds` adds `Buffered`, that a line `sendCache` is done with is in the
  buffer and stays there, for nothing that ends ever resets it; an exit that goes on to
  close has just written the buffer to a file (`ExitWrites`), however often its
  write failed before.

Only model-checked: `DeadlineReturns`, `Written` and the fairness in `Delivered`
(a body that was sent is handed over some day).  These are liveness under fairness, which
is beyond the prover; the safety of `Delivered` is `OnceHolds`.  Every safety property of a
passing run is stated by a theorem; `OwnAnswer` and `ReaderBlocksOnlyOnRepeat` of
`Dispatch_calls` are those of `Calls`, proved of `Calls` and checked of `Dispatch`.  The five violated properties are violated; nothing
is proved of `Startup`, whose run is one of them.

### What the log's properties say of the code

`MutexKept` and `ExitSaves` state what the code does, which is less than
`struct.go:36` promises of a cache ("cache full put in file"):

- A cached log stops at the first line that fills its buffer: `sendCache` locks
  `mu` and calls itself (`log.go:197`).  It stops as well at the first line of a
  new period, for `check` calls `sendCache` with `mu` held.  Only `exit` writes the
  buffer, and waits for `mu` too: once the log has stopped, nothing is saved.
- `ExitSaves` says of an exit that does get `mu` that every buffered line is in a file
  before it closes.  It says nothing of a line whose `put` has returned and whose
  goroutine has not buffered it yet (`log.go:183`): that line is lost, in spite of
  "if log use cache write, need save to exit" (`api.go:108`), and so may be the one
  that `WritePanicf` puts itself.
- A log that is not cached stops when two puts meet one boundary: the second
  finds in `check` that the first was faster and returns with `mu` held
  (`log.go:237`).  From then on lines are written still, to the same file, until
  the next boundary, where each put waits for ever.
- `NewLogs(nil)` makes a log without a buffer that takes itself for cached: the
  first line that passes the level panics (`SendCache`, `config = "nil"`).
- A fourth failure of `reset` calls `LogData.function`, which nothing sets.
- `WritePanic` saves and exits, and does not panic.

## 6. What is not modelled

- `sendall`: it waits for no answer.  Its goroutines share `err`, a race that may
  report a failed write as a success.
- Heartbeats, and failover among watchers: the job starts after a registration
  that succeeded (`InitTimer` is the last thing `runServer` does), and at this commit
  none does (`Startup_register`).
- Registration of methods by reflection, marshalling, the switch over the built-in
  functions, monitor, helpers, generated code: sequential, stateless or pure I/O.
- The registry's file of functions and a restart: the lines are written as `FuncMsg`
  and read as `FuncApi`, `PutApi` refuses their empty uuid, and so ids are numbered
  anew.  `GetNodeMsg` only reads; `PutMsg` of the watcher is never called.
- `AddFuncNode` is never called.
- The clock of `TimerCheck`'s job: it ends at its first run unless `wrong` was set by then,
  and runs every ten seconds.  `Dispatch` lets it act whenever `wrong` is set, `Calls` at any
  time, and nothing obliges it to.
- Election: nothing calls `Elect` or `ElectNotify`.
- In the log: the text of a line, the colours, the size of a line in bytes, and the
  directory.

## 7. The plan

Done, in order of importance: `Calls`, `Frames`/`Reassembly`/`Delivery`,
`Registry`, `Timer`, `Startup`, `Dispatch`, `Logs`; proofs of all of these but
`Startup`.

Left:

1. Proofs: what `Startup` does keep (a process knows no function but its own
   and those a watcher named); weaker forms of the violated properties, such as what
   remains of `NothingForgotten` with a goroutine per frame.
2. `Session`, on top of `Startup`, once a registration can succeed: heartbeats and
   failover among watchers; a node the watcher dropped registers again; slaves hold
   each watcher once.
3. `Registry` with a restart, once the file can be read back; `Elect`, once
   something calls it.
