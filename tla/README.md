# Formal verification of adb-tcp-bridge

TLA+ models, TLC configurations and TLAPS proofs for the bridge in `src/`: a
daemon that shows a device known to a local adb server (or an HDC server) as an
ADB-over-TCP endpoint. Paths below are relative to the repository's `src/internal`
unless they say otherwise.

## 1. The system

### 1.1 Components, state, operations

| Component | State | Operations | Talks to |
|---|---|---|---|
| session (`bridge/session.go`) | TCP connection, `services` map, `nextLocalID`, `closed`, handshake data | read and dispatch packets, start services, write packets, `close` | services, reverse manager, ADB client |
| service (`bridge/service.go`) | `conn`, `remoteID`, `opened`, `ackCh`, `done` | `run`, `runOutbound`, `sendPayloadAndClose`, `ack`, `write`, `close`, `finish` | session (packets), device connection |
| reverse manager (`bridge/reverse.go`) | `mappings` with their listeners; the device has a table of its own | forward, killforward, killforward-all, list, `closeAll` | device commands, `session.openOutbound` |
| bridge server (`bridge/server.go`) | listener, wait group of sessions | `Listen`, `Serve` | sessions, daemon manager |
| manager (`daemon/manager.go`) | `items` by serial with `lastFailedAt` | Start, Adopt, Stop, StopAll, Snapshot, results, reaper | bridge servers, control server |
| control server (`daemon/server.go`, `handler.go`) | socket, root context, `restarting`, `handedOff` | one goroutine per request, shutdown, restart gate | manager, handoff |
| handoff (`daemon/upgrade_unix.go`, `restore.go`) | inherited fds, ready pipe, child process | `handoff`, `RestoreInherited` | both daemons' managers |
| control client (`client/`) | none, but a retry loop | `call`, `ensureDaemon`, `WaitReady` | control socket, new daemon process |
| HDC backend (`hdcserver/`) | channels, buffered pipes, fport rules, temporary files | shell, sync, fport, file transfer, properties | HDC server |
| ADB backend (`adbhost/`, `bridge/backend.go`) | none | transport, service, properties | adb server |
| wire format (`adbwire/`) | none | `ReadPacket`, `WritePacket` | session |
| command line (`src/cmd`) | none | flags, output | client, daemon |

### 1.2 What is hard

* *One reader, many writers.* The session has one goroutine that reads packets and
  runs every handler to its end, and one goroutine per stream that waits for
  acknowledgements only the reader can deliver.
* *Two owners of an end.* A stream is ended by its goroutine (`finish`), by the
  client (`handleClose`) and by `session.close`, which the reader and the context
  watcher both call.
* *Look up, unlock, use.* `handleWrite`, `forward` (norebind, evict, insert),
  `Start` and `onBackendResult` act on what a lock protected earlier.
* *Failures with an effect.* A device command may fail after the device did it.
* *Timeouts instead of joins.* `Stop`, `StopAll` and the reaper give up after 5 s;
  the restart gives up after 15 s; the previous bridge, or daemon, may still run.
* *Reads without a deadline.* `OpenService` clears the deadline of the connection it
  returns (`adbhost/client.go:47`): the answers to reverse commands and to `getprop`
  (a Start) are read for as long as the device likes, and a control connection is
  scanned for as long as its client likes.
* *Two processes on one socket path and one set of listeners*, during restart and
  auto start.

### 1.3 What makes each component correct

* session and service: flow control in both directions, every OPEN and WRTE is
  answered, ids pair up, at most one CLSE, everything is closed and every goroutine
  ends when the client, the device or the context goes.
* reverse manager: a listed mapping is alive, no listener is forgotten, the
  device's table and the bridge's agree.
* manager: no bridge runs unseen, `done` means the port is free, requests and
  shutdown get as far as the device lets them, only a bridge without a success for the whole window is reaped.
* handoff: the new daemon has exactly the bridges the old one would have had, each
  is served by one daemon, a failed restart changes nothing.
* HDC streams: each end of a stream releases the other and the rule behind it.

`PROJECT.json` lists the hazards of the code line by line, with the properties
that watch each of them.

## 2. Modules

| Module | Models | Status |
|---|---|---|
| `AdbSession` | a session and its services, after the handshake | done |
| `AdbSessionProofs` | `Spec => []TypeOK`, and the frame lemmas the next module uses | done |
| `AdbSessionRelease` | the inductive invariant of service release | done |
| `AdbSessionPackets` | what the packets in flight may say, and the pairing of stream ids | done |
| `AdbSessionFlow` | flow control: no acknowledgement is duplicated or lost | done |
| `ReverseManager` | reverse commands and `closeAll` | done |
| `DaemonManager` | registry of bridges, Serve, reaper, end of the daemon | done |
| `BridgeDirectory` | abstract: what the registry promises of a device's bridge; `DaemonManager` implements it | done |
| `ControlPlane` | daemon processes, socket file, accept loop, restart with its handoff, the commands and auto start | done |
| `HdcStreams` | a stream of the HDC backend: buffered pipe and sync server, shell copies, fport rule | done |
| `DaemonManagerProofs` | types, safety and refinement of the registry | done |
| `ReverseManagerProofs` | types and safety of the reverse manager | done |
| `HdcStreamsProofs` | types and safety of an HDC stream | done |
| `ControlPlaneProofs` | types and safety of the control plane | done |

`AdbSession` is what a bridge of `DaemonManager` runs per client, and its device
connection is, with the HDC backend, the client's end in `HdcStreams`. `ReverseManager`
belongs to one session. `ControlPlane` sees a bridge as a listener that is started,
passed on or ended, and `DaemonManager` what happens to it within one process. Each
boundary is a choice on both sides: the inner module may do whatever the outer one
allows at any time, so no product of two modules has to be explored.

### 2.1 `AdbSession`

Every goroutine has a program counter: `rpc` (reader), `pc[n]` (service `n`), `cpc`
(whoever executes the body of `close`). A step is what happens between two points
where another goroutine can interfere: a packet written, a lock taken, a channel
operation, a blocking read. The two directions of the client's TCP connection are
bounded FIFOs (`toClient`, `toBridge`) whose full state blocks the writer; the two
directions of a device connection are counters (`devIn`, `devOut`).

| Code | Definition |
|---|---|
| `run`, `handlePacket` | `ReaderStep`; `ReadOpen`, `ReadOkay`, `ReadClse`; `handleWrite` is `ReadWrte`, `WriteConn` or `WriteConnFails`, `WriteOkay` or `WriteOkayFails` |
| `writePacket` | `Sent`, `WriteFails` |
| `close` | `ReaderClose` or `WatcherClose`, `DrainServices`, `CloseVictim`, `CloseConn` |
| `service.run` | `OpenDone`, `OpenFails`, `SendOkay`, the pump, the end |
| `runOutbound` | `SetConn`, `SendOpen`, the wait, the pump, the end |
| `sendPayloadAndClose` | `HandlerDone`, `SendOkay`, `SendWrte`, the wait, the end |
| the pump and its wait | `PumpRead`, `SendWrte`, `TakeAck`, `WaitClosed`, `PumpEnds` |
| `finish` | `FinishClose`, `FinishRemove`, `FinishClse` |

`writePacket` reads `closed` without the lock that protects its write, and writes
later. The model lets a writer see either value until the closer takes its next lock
(`DrainServices`), and the one that holds `writeMu` by then and has passed the check
(`late`) write at any time up to the close of the connection. `CloseConn` stands for
the return of `reverse.closeAll` and the close of the connection. A payload is a
token, ids do not wrap, and one `OpenService` or handler takes any time. The
client and the device are external: they follow the ADB protocol (one
unacknowledged WRTE per stream and direction), and may stop, close, refuse,
abandon or disconnect whenever the protocol allows it. Left out: the handshake,
SYNC, and packets a protocol-abiding client does not send (they end the session
through the same `Exit`).

### 2.2 `ReverseManager`

A handler goroutine runs one command at a time; each of its lock sections and each
of its device commands is one step. A device command may fail without effect or
after its effect, or forget its forwards, and the answer to `tcp:0` may name no port
(`InstallUnresolved`): the mapping then keeps the name `tcp:0`. Three history variables
say what has happened, and hide nothing from the runs of section 6: `answered` (the
device answered every command in full and kept its forwards), `rivals` (two forwards
worked on one name at a time), `clash` (two commands of any kind did). The remote name
and the answers' text are left out.

### 2.3 `DaemonManager`

`items` holds an entry (bridge, age of `lastFailedAt`) per serial, as in the code;
`st` follows the Serve goroutine of each bridge. Start is `StartCheck`,
`StartListen`, `Register`, because the code unlocks between its two checks. Taking
an item out of the map and cancelling it are one step for Stop and StopAll, since
cancelling is seen by that bridge's goroutines only; the reaper, which waits up to
5 s between two cancellations, has them apart. A timeout is a step that is always
possible. `Report` credits a result to the serial's present bridge, and a result
may be reported after its session, or its bridge, has ended. Time is counted in
units of `cleanAfterFailure` divided by `Window`, and a bridge's age is capped, so
no clock grows.

`BridgeDirectory` is the view of `List`: who serves a device. `DaemonManager`
implements it with `owner <- items[s].id` and a phase computed from `st` and the map
(`Phase`): an item that leaves the map while its bridge still drains is "leaving", the
loser of two Starts ends at once, and no step replaces a listed bridge.

### 2.4 `ControlPlane`

A process is in `Run` (`at`): `stat`, `dial`, `remove`, `listen` are `prepareSocket` and
`net.Listen`, `top` and `accept` the loop, `close`, `clean`, `join` the deferred calls;
`restore` is a child before `Run`. The file at `socketPath` leads to a socket, which
is named by the process that bound it and may be open in several.

| Code | Definition |
|---|---|
| `prepareSocket`, `net.Listen` | `PrepareStat`, `PrepareDial`, `PrepareRemove`, `Listen` |
| accept loop, pause, shutdown | `LoopTop`, `AcceptConn`, `AcceptEmpty`, `AcceptFails`, `CloseListener` |
| `Run`'s deferred calls | `CloseListener`, `Returns`, `CleanUp`, `Exit` |
| `dispatch`, `handleConn` | `Gate`, `DoStart`, `DoStop`, `DoRestart`, `DoShutdown` and `Cancel`, `DoVersion` |
| `handoff` | `Snapshot`, `DupListeners`, `Spawn`, `WaitOver`, `WaitFails`, `FailHandoff` |
| `RestoreInherited` | `Adopt`, `RestoreReady`, `RestoreFails` |
| `Client.call`, `ensureDaemon` | `Dial`, `Poll`, `Redial`, `Broken` |
| `WaitReady` | `Probe`, `ProbeAgain`, `ProbeOver` |

The gate and the work of a Start or a Stop are two steps, because the code tests
`restarting` and then acts without a lock. `WaitFails` is possible whenever the parent
waits, also when the byte is there: the deadline and the byte race. A child may
fail, hang for ever, or die at any step. An operation that only reads (list,
status, version) is in the model where somebody waits for its answer. `start`
stands for every command that starts a daemon. `kept` is a ghost: the bridges
nobody asked to end, which excludes a bridge whose Start or Stop was past the gate
when the snapshot was taken, one that ended by itself, and one whose only daemon
died. `stolen` is a ghost, too: the file of a socket in use was removed by
`prepareSocket` or a leaving daemon.

### 2.5 `HdcStreams`

`srv` is the backend's goroutine of the stream, `inp` a shell's input copy. The sync
protocol is one message per step; the buffered pipe is a pair of bounded queues, with
the rule of the code that closing an end releases that end's calls and lets the
other read what is queued, but does not release the other's `Write`. A shell's
`net.Pipe` has no queue. An hdc channel is "open" with a number of chunks the device
has still to send, and every use of it may fail or time out. An fport rule is named
by the attempt that made it. A push counts its chunks: those the client gave (`given`),
the temporary file holds (`stored`), the channel was given (`fed`) and the device has
taken (`got`). That the device sends FileFinish only when it has the size FileCheck
told it is its part of the protocol. `given` is a history variable.

| Code | Definition |
|---|---|
| `bufferedPipeConn` | `ClientWrites`, `ClientReads`, `ClientCloses`, `EmitWrite`, `ReadFails` |
| `serveSync`, `handleStat`, `handleList` | `SyncEof`, `SyncRequest` |
| `handleSend` | `SyncSend`, `SendData`, `SendEnds`, `SendEof` |
| `pushFile` | `PushOpen`, `PushBegin`, `PushData`, `PushFinish`, `PushFails` |
| `handleRecv` | `SyncRecv`, `RecvMarker`, `RecvData` |
| `serveShell` | `ShellInput...`, `ShellRead`, `ShellPut`, `ShellExit`, `ShellClose` |
| `openForward`, `forwardConn.Close` | `Setup`, `ForwardDial`, `ForwardProbe`, `ForwardClose`, `Cleanup` |

## 3. Runs

| Run | Instance | States | Shows |
|---|---|---|---|
| `session_stream` | 1 stream, 2 writes, 2 chunks, connection of 3 packets | 63 thousand | safety and liveness of one stream of each kind |
| `session_pair` | 2 streams, 1 chunk, connection of 1 packet | 1.5 million | ids and the service map with two streams; the proofs' invariants |
| `session_leak`, `session_stuck` | 1 stream | small | disagreements with the docs (section 6) |
| `reverse_commands` | 2 handlers and the closer, 3 commands, 1 name and 1 picked port | 0.35 million | section 1.3 |
| `reverse_close`, `reverse_listeners` | the same | small | disagreements |
| `manager_requests` | 1 serial, 2 requests at a time, 2 bridges, window 1 | 1.5 million | safety, and that the registry implements `BridgeDirectory` |
| `manager_ends` | 1 serial, 2 requests at a time, 1 bridge, window 1 | 11 thousand | liveness |
| `control` | 2 commands of any kind, 3 processes, 2 bridges, 1 crash | 0.4 million | safety and liveness of restart, socket file and commands |
| `control_ready` | 1 `atb restart`, 2 processes | small | disagreement |
| `hdc` | 1 stream of each kind, queues of 2, 5 messages, 2 chunks, 3 attempts | 0.22 million | safety and liveness of an HDC stream |

Why the bounds are enough. *Streams:* the steps of a service touch its own entry
of every table, so two streams have the interactions there are (a drain that meets
a put, one stream's write that blocks another's acknowledgement); one stream is
enough where the property is about one stream and its reader. *Writes and chunks:*
two are the least that let a token of the first acknowledgement meet the wait for
the second. *Connections:* a capacity of 1 reaches every blocked state, a capacity
of 3 lets a CLSE, an OKAY and a WRTE be on their way together. *Reverse:* a device
error, an overwrite and a lost evict need two commands; the third leaves room for
one that runs before. *Manager:* a second bridge is what the end of the first one
must not touch, and the race of Start needs two requests; one tick already
separates "just failed" from "expired", and capped ages make further ticks repeat.
*Control:* three processes are a daemon, its child and the child of either, or two
daemons started at a time over a leftover file; two commands are a restart and the
Start, Stop, shutdown or second restart it meets. *HDC:* a queue of 2 fills up
(1024 in the code, which changes when, not whether); 5 messages are a whole SEND with
a request before or after it; 3 attempts are a first, a middle and a last (16).

`CHECK_DEADLOCK FALSE` is set everywhere because a session, a set of commands and
a daemon do come to an end. Each property of a passing run has a mutant in
`PROJECT.json`: a plausible bug in one definition that TLC finds with the run's own
instance. The mutants stand in the modules just above the definition they change.

### 3.1 Fairness

`AdbSession`: the reader, the closer, the watcher and each service goroutine are
weakly fair: Go runs what can run, and dialling the device is bounded (10 s in
`adbhost/client.go`, 30 s in `hdcserver/backend.go`, or the context). Two steps are not
fair, because `runDeviceReverse` reads the device's answer to its end without a
deadline (`bridge/reverse.go:226`): a handler's `HandlerDone`, and `CloseConn` while a
reverse mapping may exist (`AwaitsReverse`). The client's
reading and its protocol answers are weakly fair: adb's transport thread does
nothing else, and a client that stops instead disconnects (`gone`). The device's
reading of its input is weakly fair. Nobody has to open, write, send, close,
cancel or disconnect, so "ends" never depends on somebody being polite.
`SessionStops` for a client that just disappears uses that the device keeps reading
(`DeviceCouples = FALSE`); `session_stuck` shows what a device that does not read
does.

`DaemonManager`: requests, Serve goroutines, the reaper and the daemon's end are
weakly fair, time passes and a closed listener makes Accept fail. Sessions need not
end, a live listener need not fail, a Start need not come back from the device
(`StartListen`: `NewServer` reads its properties without a deadline,
`bridge/server.go:79`), and the daemon need not come back from its wait for handlers
(`daemon/server.go:88`): `DaemonStops` rests on the timeouts alone.

`ControlPlane`: `Run`, the handoff goroutine, handlers and commands are weakly fair.
A queued connection is strongly fair, because accept serves a queue in order and each
client is taken in its turn if the loop comes back to `Accept` again and again. Nothing
is asked of a restoring child: the new binary may be any program, so `RestartSettles`
rests on the 15 s deadline. Neither a handler at work on a Start (`Starting`) nor the
wait for handlers at the end of `Run` (`join`) is fair: the first may hang in its
device, the second in the first, or in a control connection that sends nothing
(`daemon/handler.go:26`). Stop is bounded by its 5 s.

`HdcStreams`: the backend's goroutines are weakly fair, since each use of a channel
ends by its 30 s deadline. Nothing is asked of the client, so a write to `net.Pipe` is
fair only once the pipe is closed, and a write to a full queue is not fair at all.

`ReverseManager` has no liveness property: its goroutines only wait for the
device, which need not answer.

## 4. Properties

`AdbSession`
* `FlowControl`: at most one packet of a stream is unacknowledged, counted over
  the wire, the client and `ackCh`, and meanwhile its goroutine sends no other.
* `NoLostAck`, `NoLostAnswer`: whoever waits for an OKAY has one coming, or an end.
* `OnlyOkayAfterClse`: after a CLSE the client sees at most the OKAY of a write
  already passed on. That late OKAY is real: `handleWrite` and `finish` do race.
* `RefusalBeforeOpen`: the CLSE with id 0 refuses only an OPEN still unanswered.
* `Pairing`, `Tracked`, `LeakOnlyAtShutdown`, `IdsInv`, `ReleaseInv`: see the module.
* liveness: `OpenAnswered`, `WriteAnswered`, `ServiceEnds`, `SessionStops`. The first,
  second and fourth name what may wait for the device for ever: the handler of the OPEN
  itself, and a `session.close` in `reverse.closeAll`.

`ReverseManager`: `MappedListenerOpen` whatever overlaps and fails; `NoOrphanListener` as
long as the device answers and no two forwards work on one name; `DeviceAgrees` as long
as the device answers and no two commands work on one name, on every name none works
on. What happens otherwise is in section 6. `norebind` has no property: for commands
that do not overlap it is one look at the map, and what it promises to forwards that
do overlap is written nowhere (the second one then evicts the first).

`DaemonManager`: `NoOrphanBridge`, `DoneReleasesPort`, `ReapSafe`, the refinement
`ImplementsDirectory`; liveness `DaemonStops`, `LostReaped`, `DeadBridgeForgotten`.

`ControlPlane`
* `RestartKeepsBridges`: a restart, however it fails, loses no bridge nobody ended.
* `FailedHandoffEndsChild`: a handoff that failed has ended the process it started.
* `HandoffKeepsPath`: the leaving daemon does not take the new one's file away.
* liveness: `RestartSettles` (the gate opens, or the old daemon has let go of everything
  and waits for its handlers only) and `CallEnds`. `CallEnds` has two exceptions, because
  `client.call` has no deadline: a start command whose device does not answer
  (`Starting`), and `Orphaned`: if the old
  daemon dies or is shut down while its child hangs in `RestoreInherited`, a command
  queued at their common socket waits for as long as the child lives.

`HdcStreams`
* `ReleasedAtEnd`: a stream that is over keeps no channel, temporary file or rule,
  but for rules whose fport command itself failed.
* `OkayMeansStored`: a push is acknowledged only when the device has taken all the
  client gave, wherever the transfer to the temporary file or to the device breaks off.
* `StreamEnds`: a stream the client has closed ends, but for `Stuck`: a sync server
  that waits for room in a full queue nobody reads any more waits for ever.

## 5. Proofs

Every theorem holds for all values of the constants that satisfy the module's one
named assumption: `SessionAssumption`, `ReverseAssumption`, `ManagerAssumption`,
`HdcAssumption`, `ControlAssumption`. They say that bounds are natural numbers, that
buffers and the reaper's window are not empty, and that names, ports and actors that
differ in the code differ in the model. TLC evaluates them in every run. In each proof
module an inductive invariant `IInv` is stated as a conjunction of named parts, first
checked by TLC on the run's instance, then proved step by step, one step per action;
the theorems follow from it.

| Module | Theorem | States |
|---|---|---|
| `AdbSessionProofs` | `TypeCorrect` | `TypeOK` |
| `AdbSessionRelease` | `EveryServiceTracked`, `NoLeakBeforeShutdown`, `IdsAnnounced`, `ReleaseOrder` | `Tracked`, `LeakOnlyAtShutdown`, `IdsInv`, `ReleaseInv` |
| `AdbSessionPackets` | `StreamsPaired`, `ClseIsLast`, `RefusalIsAnswer` | `Pairing`, `OnlyOkayAfterClse`, `RefusalBeforeOpen` |
| `AdbSessionFlow` | `FlowIsControlled`, `WaitsForSomething`, `WritesAreAnswered` | `FlowControl`, `NoLostAck`, `NoLostAnswer` |
| `DaemonManagerProofs` | `TypeCorrect`, `NoOrphan`, `DoneTruth`, `ReaperSafe` | `TypeOK`, `NoOrphanBridge`, `DoneReleasesPort`, `ReapSafe` |
| `DaemonManagerProofs` | `Refinement` | `ImplementsDirectory`, that is `Directory!Spec` |
| `ReverseManagerProofs` | `TypeCorrect`, `MappedOpen`, `NoOrphan`, `TablesAgree` | `TypeOK`, `MappedListenerOpen`, `NoOrphanListener`, `DeviceAgrees` |
| `HdcStreamsProofs` | `TypeCorrect`, `Released`, `OkayIsTrue` | `TypeOK`, `ReleasedAtEnd`, `OkayMeansStored` |
| `ControlPlaneProofs` | `TypeCorrect`, `BridgesSurvive`, `FailedHandoffEnds`, `PathFollows` | `TypeOK`, `RestartKeepsBridges`, `FailedHandoffEndsChild`, `HandoffKeepsPath` |

### 5.1 `AdbSession`

`TypeOK` is inductive as it stands, because each goroutine's program counter fixes
which ids it may hold (`ReaderOK` ties `rsvc` to `rpc`). `Tracked` and
`LeakOnlyAtShutdown` are not. The argument needs that a client cannot close a service
it has never heard of: a CLSE reaches only a service that was announced, and a
service is announced only after it has stored its connection, so `close` sees that
connection. `IdsInv` says that (an id appears in a packet, in the client's tables or
in the reader's hands only after the goroutine left its unannounced phases), with the
freshness of ids above `nextLocalID`. `ReleaseInv` adds that the map is emptied once,
and that `finish` closes before it removes. `IdsInv /\ ReleaseInv` is inductive under
`TypeOK`; `session_pair` checks both.

`AdbSessionPackets` proves what the two FIFOs may hold (`PacketInv`). Its parts speak of
the packets in a FIFO as a set and of which one is before which, so no step of the proof
counts positions. Two groups of lemmas carry it: which step puts a packet into a FIFO or
takes one out (`ToClientStep`, `ToBridgeStep`), and which step teaches a stream id to
either end (`LearnRemote`, `LearnPeer`).

* `StageInv`: what the place of a service goroutine says of its fields; `FreshInv`: an id
  the client has not used yet is unheard of; `OwnInv`: the ids are paired one to one, as
  far as both ends know them.
* `WireInv`: an OPEN is the only word of its stream, every other packet goes from a
  stream to its partner, and the sender of a CLSE has ended. `GreetInv`: only what was
  opened is written to. `Pairing` follows.
* `ClseInv` needs `WireInv` (nothing is sent by a goroutine that has ended, the reader's
  OKAY excepted), `RefuseInv` needs `GreetInv`.

`AdbSessionFlow` follows the acknowledgement a service waits for, as a token.

* `FlowInv`: the token is in one place at most: the packet that needs it, the client, the
  OKAY, or `ackCh`; and while it is anywhere, its goroutine waits or has ended. Four
  lemmas (`TravelsMove`, `OwedMove`, `AckedMove`, `AckChMove`) show that a place gets it
  only from the place before. `UnackedCount` turns that into the count of `FlowControl`.
* `LossInv`: while a goroutine waits, the token is in one of the places or the service is
  `Released`. A WRTE is dropped by a client that has closed the stream, which it can
  only have done by a CLSE, if it knew the stream: a service sends its first WRTE behind
  its OKAY (`MetInv`), and a stream the client has closed has a service that is released
  or has ended (`ClosedInv`). An OKAY is dropped by the reader for a service outside the
  map, which `Tracked` says is closed or about to be.
* `AnswerInv`: the same for the client. The reader answers a WRTE to `remoteID`, which for
  a stream the bridge opened it has only from the client's OKAY: that OKAY is before
  every WRTE of the stream (`LearntInv`). A WRTE for a service outside the map finds its
  goroutine past `removeService`, so a CLSE follows (`ServedInv`).

### 5.2 `DaemonManager`

`IInv` adds to the properties: an entry of the map names a bridge of that serial that
serves (`EntriesInv`), so taking an entry out reaches the right bridge; a Start between
its listen and its registration owns a bound bridge that no other Start owns
(`StartingInv`), which is what makes the unlocked gap between the two checks harmless;
a bridge that does not serve has no session; the reaper holds bridges only within a
round. The refinement maps `items` to the directory's `owner` and computes a bridge's
phase. Each step is shown to be a directory step or a stutter; the two lemmas it rests
on say when a phase does not change (`SamePhase`) and that a Stop, a StopAll, a reap or
an end drops exactly the entries it takes out.

### 5.3 `ReverseManager`

`Hands` is the ownership argument: a listener is held by one forward in progress, by
one mapping, or by one drain (`OwnInv`, `HandInv`), commands number the listeners they
open, so a new one is nobody's (`NumberInv`), and only a sweep has drained mappings
(`SweptInv`). That suffices for `MappedListenerOpen` with any overlap and any failure.
`Orphans` adds why nothing is forgotten while the device answers: forwards in progress
have different names (`RivalsInv`), a resolved `tcp:0` leaves no mapping of that name
(`ResolvedInv`), so a forward that has evicted its name overwrites nothing
(`EvictedInv`). `Tables` is the argument for `DeviceAgrees`: commands in progress work on
different names (`ClashInv`), and each knows the two tables at its own name, from label
to label (`Holds`, `AgreeInv`).

### 5.4 `HdcStreams`

`TypeOK` alone is not inductive: an attempt number is in range only while a connection
is being tried (`ForwardInv`). `SyncInv` ties the temporary file, the channel and what
is left to write to the place the server is in, and says that within a SEND the file
holds every DATA given so far: one that could not be stored has left for its answer. `ShellInv` says that the channel and the pipe of a shell
are closed together, and why a copy may have come to its end.

### 5.5 `ControlPlane`

* `Life`, `Handing` and `Parent` say what a process may hold at each stage: a handoff
  runs only in a daemon that serves and has closed its gate, a daemon that serves and is
  not asked to leave has an open listener, and from the copies on its listener does not
  remove the file. A child is a process of its own and, until it is ready, restores what
  the snapshot gave it.
* `ServedInv`: who handles a call serves, or died; a Start or Stop past the gate changes
  the bridges of a process that still has them.
* `PathInv`: until the file of a socket in use is removed (`stolen`), the file is that of
  *every* open listener and of every handoff's copy. It is stronger than
  `HandoffKeepsPath` because the new daemon gets its listener long before its parent
  lets go of it.
* `AnswerInv`, `KeepInv`: every kept bridge has a process that answers for it, which a
  parent no longer does once its child is ready; the snapshot, the parent's bridges and
  what the child has or will adopt agree on the kept ones. It covers a ready byte that
  the parent never reads, a child that is restarted itself before its parent leaves,
  and a Stop, a bridge's end or a shutdown in the old daemon while the child restores.

### 5.6 What is only model-checked

Liveness, in all modules: `OpenAnswered`, `WriteAnswered`, `ServiceEnds`, `SessionStops`,
`DaemonStops`, `LostReaped`, `DeadBridgeForgotten`, `RestartSettles`, `CallEnds`,
`StreamEnds`. They need fairness, and fairness needs ENABLED, which is out of the
prover's reach. Every invariant and every action property of a passing run is a theorem.

## 6. Where code and documents disagree

* `session_leak`: `setConn` after `close` leaves the backend connection open
  (`bridge/service.go:57` and `:75`), when the session ends during `OpenService`.
* `session_stuck`: a device write in the reader blocks the acknowledgements behind
  it (`bridge/service.go:156`).
* `reverse_close`: a forward under way survives `closeAll` (`bridge/reverse.go:104`).
* `reverse_listeners`: two overlapping forwards of one name leave a listener nobody can
  close (`bridge/reverse.go:104`). So does killforward-all, which stops at the first
  device error and forgets the listeners it has not come to (`bridge/reverse.go:163`):
  with `Handlers = {h1}` in the cfg the same invariant is violated that way.
* `control_ready`: `WaitReady` takes the old daemon's answer for the new one's
  (`client/client.go:99`, `src/cmd/adb-tcp-bridge/main.go:504`): the old one is already in
  `Accept` when it pauses, and it accepts again after a failed handoff. `atb restart`
  then reports success.

Met while modelling, without a run of their own:

* A WRTE that meets a stream which has just ended makes `handleWrite` fail, and that ends
  the whole session with an error log (`bridge/session.go:253`); `docs/implementation.md:142`
  and `:241` say that an end of the device's stream only finishes its service.
* `session.close` waits for the device's answers to its killforwards, without a deadline,
  before it closes the client's connection (`bridge/reverse.go:182`, `:226`): a device that
  does not answer keeps the connection, while `docs/architecture.md:171` lists the close as
  the last of the steps. `AwaitsReverse` is that wait.
* A handoff whose ready byte comes too late kills its child, which may have served, taken a
  restart and handed its listeners to a child of its own; that one and the old daemon then
  serve the same ports (`daemon/upgrade_unix.go:151`). `docs/usage.md:219` says that there
  is no half takeover. `FailedHandoffEndsChild` is about the child alone.
* A pull cut by the hdc server between two frames is answered DONE
  (`hdcserver/sync.go:265`), which `docs/implementation.md:190` says of a whole file.
* CloseStdin of a v2 shell ends the stream, with the output still to come and without an
  exit packet (`hdcserver/shell.go:70`); `docs/implementation.md:179` lists close-stdin
  among the packets that are converted.
* Any failed `OpenService` counts as a lost device, also a service the device refuses
  and a late failure of the serial's previous bridge, so a reachable bridge can be
  reaped (`bridge/service.go:54`, `daemon/manager.go:319`); `docs/architecture.md:101`
  restricts the cleanup to devices that were lost.
* Two daemons auto-started over a stale file: the second may remove the socket the
  first has just bound (`daemon/server.go:154`), which then runs unreachable.
* A shutdown during a restart removes the socket file while the child takes the
  bridges over (`daemon/server.go:85`): the child serves, and cannot be reached.
* A ready child can be killed by the deadline; a Start it has answered is lost. A Start
  that was past the gate when the snapshot was taken is lost with the old daemon
  (`daemon/handler.go:56`).
* A device that does not answer `getprop` keeps a Start, its client and the end of the
  daemon waiting (`bridge/server.go:79`), as an idle control connection keeps the latter
  (`daemon/handler.go:26`).
* An idle hdc shell ends after 30 s (`hdcserver/channel.go:86`), and a v2 shell says exit
  status 0 in every case (`hdcserver/shell.go:50`).
* If the device's answer to a forward of `tcp:0` names no port, the mapping is kept as
  `tcp:0`: its killforward does not reach the device's forward (`bridge/reverse.go:257`).
* `docs/implementation.md:183` names `net.Pipe` for the sync stream; the code uses
  the buffered pipe, whose `Close` does not release the other end's `Write`.

## 7. Not modelled, and why

Command line, output, logging, paths, and the parsing and formatting of HDC and
adb-server answers hold no state that two actors share; the header of a packet is a
pure conversion with its own tests. The CNXN/AUTH handshake is a sequential exchange
of the reader before any service exists. The adb server client is one request and
its answer per connection: in `AdbSession` it is `OpenDone` or `OpenFails`. The port search
of `listen` is the choice "bound or failed" of `StartListen`. A signal to a daemon acts
as a shutdown request does. Id wrap-around of `nextLocalID` needs 2^32 streams of one
session. Windows has no restart (`upgrade_other.go`).
