------------------------------ MODULE AdbSession ------------------------------
(***************************************************************************)
(* One ADB TCP session of the bridge: internal/bridge/session.go and       *)
(* internal/bridge/service.go.                                             *)
(*                                                                         *)
(* The session starts here after its handshake (s.authorized is true).     *)
(* The actors are                                                          *)
(*   - the reader, session.run, which reads the client's packets and runs  *)
(*     every packet handler to its end;                                    *)
(*   - one goroutine per service: service.run (an OPEN forwarded to the    *)
(*     device), sendPayloadAndClose (an OPEN answered in the bridge) or    *)
(*     service.runOutbound (a reverse connection the bridge opens);        *)
(*   - the context watcher of session.run, and whichever of the watcher    *)
(*     and the reader executes the body of session.close;                  *)
(*   - the ADB client and the device, both external, which follow the ADB  *)
(*     protocol: an unacknowledged WRTE is never followed by another.      *)
(*                                                                         *)
(* A payload is a token: the properties are about who may send the next    *)
(* packet, who waits for whom, and who releases what.                      *)
(***************************************************************************)
EXTENDS Naturals, Sequences, FiniteSets

CONSTANTS
    MaxServices,   \* bound: streams opened by the client or the bridge
    MaxWrites,     \* bound: WRTE packets the client sends on one stream
    MaxChunks,     \* bound: chunks the device sends on one stream
    NetCap,        \* packets one direction of the client's TCP connection holds
    BufCap,        \* chunks one direction of a backend connection holds
    OpenKinds,     \* kinds of service the client opens: "run", "local"
    DeviceCouples  \* does the device stop reading while its output is stuck?

ASSUME SessionAssumption ==
    /\ MaxServices \in Nat /\ MaxWrites \in Nat /\ MaxChunks \in Nat
    /\ NetCap \in Nat \ {0} /\ BufCap \in Nat \ {0}
    /\ OpenKinds \in SUBSET {"run", "local"} \ {{}}
    /\ DeviceCouples \in BOOLEAN

Ids == 1 .. MaxServices  \* stream ids, on either side
NoId == 0                               \* "no stream", as arg0 or arg1 = 0

VARIABLES
    \* the client's TCP connection, one FIFO per direction
    toClient,    \* packets written by the bridge and not yet read
    toBridge,    \* packets written by the client and not yet read
    gone,        \* the client's end of the connection is closed
    late,        \* who found the session open before the drain and still writes
    \* the client (external), by the client's stream id
    cst,         \* "idle", "opening", "abandoned", "accepting", "open", "closing", "closed"
    cpeer,       \* the bridge's id of the stream
    cowe,        \* a WRTE was received and its OKAY is not sent yet
    cwait,       \* a WRTE was sent and its OKAY has not come back
    cleft,       \* WRTE packets the client may still send
    nextRid,     \* the next stream id of the client
    \* session
    ctxDone,     \* the context of the session is cancelled
    closed,      \* s.closed
    cpc,         \* where the body of close is: "idle", "drain", "victims", "done"
    victims,     \* the services copied out of the map and not closed yet
    connUp,      \* s.conn is open
    services,    \* keys of s.services
    nextLocalID, \* s.nextLocalID
    rpc,         \* where the reader is
    rsvc,        \* the service the reader's handler works for
    rexit,       \* why the reader left its loop
    \* services, by localID
    kind,        \* "none", "run", "local", "outbound"
    pc,          \* where the service goroutine is
    remoteID,    \* svc.remoteID
    opened,      \* svc.opened
    ackCh,       \* svc.ackCh holds a token
    done,        \* closeOnce has run: svc.done is closed
    conn,        \* svc.conn: "nil", "open", "closed"
    \* the device's side of svc.conn (external)
    devIn,       \* chunks written to the device it has not read
    devOut,      \* chunks the device wrote and the bridge has not read
    devLeft,     \* chunks the device may still write
    devEof       \* the device has closed its end

wireVars    == <<toClient, toBridge, gone, late>>
clientVars  == <<cst, cpeer, cowe, cwait, cleft, nextRid>>
closeVars   == <<ctxDone, closed, cpc, victims, connUp>>
mapVars     == <<services, nextLocalID>>
readerVars  == <<rpc, rsvc, rexit>>
serviceVars == <<kind, pc, remoteID, opened, ackCh, done, conn>>
deviceVars  == <<devIn, devOut, devLeft, devEof>>
vars == <<wireVars, clientVars, closeVars, mapVars, readerVars, serviceVars,
          deviceVars>>

Packet(c, a0, a1) == [cmd |-> c, arg0 |-> a0, arg1 |-> a1]
Commands == {"OPEN", "OKAY", "WRTE", "CLSE"}
Packets == [cmd : Commands, arg0 : Ids \cup {NoId}, arg1 : Ids \cup {NoId}]

----------------------------------------------------------------------------
(***************************************************************************)
(* session.writePacket, called by w: a service, or NoId for the reader.    *)
(* s.closed is written under closeMu and read under writeMu: until the     *)
(* closer's next lock operation (it drains the map) a writer may see       *)
(* either value, and the one that has passed the check by then, `late',    *)
(* writes whenever it gets to it, until s.conn is closed.  A full          *)
(* connection blocks the writer; a connection whose client is gone         *)
(* swallows the packet or fails the write.                                 *)
(***************************************************************************)
Sent(w, p) ==
    /\ connUp
    /\ cpc \in {"idle", "drain"} \/ w \in late
    /\ IF gone THEN UNCHANGED toClient
               ELSE Len(toClient) < NetCap /\ toClient' = Append(toClient, p)
    /\ late' = late \ {w}
    /\ UNCHANGED <<toBridge, gone>>

WriteFails(w) ==
    /\ closed \/ gone \/ ~connUp
    /\ late' = late \ {w}
    /\ UNCHANGED <<toClient, toBridge, gone>>

\* Who may hold writeMu: the reader or a goroutine with a packet to write.
Writers == {n \in Ids : pc[n] \in {"okay", "dial", "wrte", "clse"}}
           \cup (IF rpc = "okay" THEN {NoId} ELSE {})

\* service.close: closeOnce closes done, and the connection if there is one
\* (what its buffers hold is lost, and the device has nobody to talk to).
CloseService(n) ==
    /\ done' = [done EXCEPT ![n] = TRUE]
    /\ IF ~done[n] /\ conn[n] = "open"
         THEN /\ conn' = [conn EXCEPT ![n] = "closed"]
              /\ devIn' = [devIn EXCEPT ![n] = 0]
              /\ devOut' = [devOut EXCEPT ![n] = 0]
              /\ devLeft' = [devLeft EXCEPT ![n] = 0]
              /\ devEof' = [devEof EXCEPT ![n] = TRUE]
         ELSE UNCHANGED <<conn, deviceVars>>

Goto(n, label) == pc' = [pc EXCEPT ![n] = label]

\* Mutant: allocateLocalID without its wrap to 1.
AllocateLocalID_WrapsToZero ==
    nextLocalID \in Ids /\ nextLocalID' = (nextLocalID + 1) % (MaxServices + 1)

\* Mutant: an id is free again as soon as it has left the map.
AllocateLocalID_Reuses ==
    /\ nextLocalID \in Ids
    /\ nextLocalID' = IF nextLocalID = 1 THEN nextLocalID ELSE nextLocalID + 1

\* allocateLocalID; the ids of the model never wrap.
AllocateLocalID == nextLocalID \in Ids /\ nextLocalID' = nextLocalID + 1

\* putService
PutService(n) == services' = services \cup {n}

\* startService: a new service of kind k under the next id.
StartService(k, remote, label) ==
    /\ AllocateLocalID
    /\ PutService(nextLocalID)
    /\ kind' = [kind EXCEPT ![nextLocalID] = k]
    /\ remoteID' = [remoteID EXCEPT ![nextLocalID] = remote]
    /\ Goto(nextLocalID, label)
    /\ UNCHANGED <<opened, ackCh, done, conn>>

----------------------------------------------------------------------------
(* The reader: session.run and the packet handlers                         *)

Arrived(c) ==
    /\ rpc = "read" /\ connUp
    /\ toBridge # <<>> /\ Head(toBridge).cmd = c
    /\ toBridge' = Tail(toBridge)
    /\ UNCHANGED <<toClient, gone, late>>

\* handleOpen: start the service and go driveOpen.
ReadOpen ==
    /\ Arrived("OPEN")
    /\ \E k \in OpenKinds :
          StartService(k, Head(toBridge).arg0,
                       IF k = "run" THEN "opening" ELSE "handler")
    /\ UNCHANGED <<clientVars, closeVars, readerVars, deviceVars>>

\* Mutant: an acknowledgement of a service not opened yet is ignored.
Ack_OnlyOpened(n, remote) ==
    /\ ackCh' = [ackCh EXCEPT ![n] = opened[n]]
    /\ UNCHANGED <<remoteID, opened>>

\* service.ack: the first remote id is taken, and a token left in ackCh.
Ack(n, remote) ==
    /\ remoteID' = [remoteID EXCEPT ![n] = IF @ = NoId THEN remote ELSE @]
    /\ opened' = [opened EXCEPT ![n] = TRUE]
    /\ ackCh' = [ackCh EXCEPT ![n] = TRUE]

\* handleOkay.  The service may finish between the lookup and the ack, which
\* then changes an object nobody reads: one step stands for both.
ReadOkay ==
    /\ Arrived("OKAY")
    /\ IF Head(toBridge).arg1 \in services
         THEN Ack(Head(toBridge).arg1, Head(toBridge).arg0)
         ELSE UNCHANGED <<remoteID, opened, ackCh>>
    /\ UNCHANGED <<clientVars, closeVars, mapVars, readerVars, kind, pc, done, conn,
                   deviceVars>>

\* handleWrite: look the service up; write and answer in the next two steps.
ReadWrte ==
    /\ Arrived("WRTE")
    /\ IF Head(toBridge).arg1 \in services
         THEN rpc' = "write" /\ rsvc' = Head(toBridge).arg1
         ELSE UNCHANGED <<rpc, rsvc>>
    /\ UNCHANGED <<clientVars, closeVars, mapVars, rexit, serviceVars,
                   deviceVars>>

\* service.write reaches the device; a full connection blocks the reader.
WriteConn ==
    /\ rpc = "write"
    /\ conn[rsvc] = "open" /\ devIn[rsvc] < BufCap
    /\ devIn' = [devIn EXCEPT ![rsvc] = IF devEof[rsvc] THEN @ ELSE @ + 1]
    /\ rpc' = "okay"
    /\ UNCHANGED <<wireVars, clientVars, closeVars, mapVars, rsvc, rexit,
                   serviceVars, devOut, devLeft, devEof>>

\* The reader leaves its loop: "eof" is silent, "error" is logged.
Exit(why) ==
    /\ rpc' = "exit"
    /\ rsvc' = NoId
    /\ rexit' = why

\* Mutant: a failed write is dropped without an answer.
WriteConnFails_Silent ==
    /\ rpc = "write"
    /\ conn[rsvc] # "open" \/ devEof[rsvc]
    /\ rpc' = "read" /\ rsvc' = NoId
    /\ UNCHANGED <<wireVars, clientVars, closeVars, mapVars, rexit, serviceVars,
                   deviceVars>>

\* service.write fails: no connection, a closed one, or the device has gone.
WriteConnFails ==
    /\ rpc = "write"
    /\ conn[rsvc] # "open" \/ devEof[rsvc]
    /\ Exit("error")
    /\ UNCHANGED <<wireVars, clientVars, closeVars, mapVars, serviceVars, deviceVars>>

\* Mutant: handleWrite forgets the OKAY.
WriteOkay_Forgotten ==
    /\ rpc = "okay"
    /\ rpc' = "read" /\ rsvc' = NoId
    /\ UNCHANGED <<wireVars, clientVars, closeVars, mapVars, rexit, serviceVars,
                   deviceVars>>

\* handleWrite answers OKAY ...
WriteOkay ==
    /\ rpc = "okay"
    /\ Sent(NoId, Packet("OKAY", rsvc, remoteID[rsvc]))
    /\ rpc' = "read" /\ rsvc' = NoId
    /\ UNCHANGED <<clientVars, closeVars, mapVars, rexit, serviceVars, deviceVars>>

\* ... or ends the session when it cannot.
WriteOkayFails ==
    /\ rpc = "okay"
    /\ WriteFails(NoId)
    /\ Exit("error")
    /\ UNCHANGED <<clientVars, closeVars, mapVars, serviceVars, deviceVars>>

\* Mutant: handleClose answers CLSE itself, and so does finish.
ReadClse_Echoes ==
    /\ rpc = "read" /\ connUp /\ ~gone
    /\ toBridge # <<>> /\ Head(toBridge).cmd = "CLSE"
    /\ toBridge' = Tail(toBridge)
    /\ Head(toBridge).arg1 \in services /\ Len(toClient) < NetCap
    /\ toClient' = Append(toClient, Packet("CLSE", Head(toBridge).arg1, Head(toBridge).arg0))
    /\ CloseService(Head(toBridge).arg1)
    /\ UNCHANGED <<gone, late, clientVars, closeVars, mapVars, readerVars,
                   kind, pc, remoteID, opened, ackCh>>

\* handleClose
ReadClse ==
    /\ Arrived("CLSE")
    /\ IF Head(toBridge).arg1 \in services
         THEN CloseService(Head(toBridge).arg1)
         ELSE UNCHANGED <<done, conn, deviceVars>>
    /\ UNCHANGED <<clientVars, closeVars, mapVars, readerVars,
                   kind, pc, remoteID, opened, ackCh>>

\* ReadPacket fails: end of stream, a reset, or close has closed s.conn.
ReadFails ==
    /\ rpc = "read"
    /\ \/ ~connUp /\ Exit(IF ctxDone THEN "eof" ELSE "error")
       \/ connUp /\ gone /\ toBridge = <<>> /\ Exit("eof")
    /\ UNCHANGED <<wireVars, clientVars, closeVars, mapVars, serviceVars, deviceVars>>

----------------------------------------------------------------------------
(* session.close, run by the reader (deferred) or by the context watcher   *)

BeginClose ==
    /\ closed' = TRUE
    /\ cpc' = "drain"
    /\ UNCHANGED <<ctxDone, victims, connUp>>

ReaderClose ==
    /\ rpc = "exit"
    /\ \/ ~closed /\ BeginClose /\ rpc' = "closing"
       \/ closed /\ rpc' = "stopped" /\ UNCHANGED closeVars
    /\ UNCHANGED <<wireVars, clientVars, mapVars, rsvc, rexit, serviceVars,
                   deviceVars>>

WatcherClose ==
    /\ ctxDone /\ rpc # "stopped" /\ ~closed
    /\ BeginClose
    /\ UNCHANGED <<wireVars, clientVars, mapVars, readerVars, serviceVars, deviceVars>>

\* Mutant: the map is emptied and nothing is kept to close.
DrainServices_Forgets ==
    /\ cpc = "drain"
    /\ services' = {}
    /\ cpc' = "victims"
    /\ UNCHANGED <<wireVars, clientVars, ctxDone, closed, victims, connUp,
                   nextLocalID, readerVars, serviceVars, deviceVars>>

\* Copy the map and empty it, under serviceMu.  One writer may hold writeMu.
DrainServices ==
    /\ cpc = "drain"
    /\ victims' = services
    /\ services' = {}
    /\ cpc' = "victims"
    /\ late' \in {{}} \cup {{w} : w \in Writers}
    /\ UNCHANGED <<toClient, toBridge, gone, clientVars, ctxDone, closed, connUp,
                   nextLocalID, readerVars, serviceVars, deviceVars>>

CloseVictim(n) ==
    /\ cpc = "victims"
    /\ n \in victims
    /\ CloseService(n)
    /\ victims' = victims \ {n}
    /\ UNCHANGED <<wireVars, clientVars, ctxDone, closed, cpc, connUp,
                   mapVars, readerVars, kind, pc, remoteID, opened, ackCh>>

\* reverse.closeAll returns, and s.conn.Close: after the last service.
CloseConn ==
    /\ cpc = "victims" /\ victims = {}
    /\ cpc' = "done"
    /\ connUp' = FALSE
    /\ toBridge' = <<>>
    /\ rpc' = IF rpc = "closing" THEN "stopped" ELSE rpc
    /\ UNCHANGED <<toClient, gone, late, clientVars, ctxDone, closed, victims, mapVars,
                   rsvc, rexit, serviceVars, deviceVars>>

----------------------------------------------------------------------------
(* The service goroutines                                                  *)

\* What a step of service n that only moves its goroutine leaves alone.
OnlyMoves == UNCHANGED <<clientVars, closeVars, mapVars, readerVars, kind,
                         remoteID, done, conn>>

\* service.run: OpenService returned a connection, setConn, opened.
OpenDone(n) ==
    /\ pc[n] = "opening"
    /\ conn' = [conn EXCEPT ![n] = "open"]
    /\ opened' = [opened EXCEPT ![n] = TRUE]
    /\ Goto(n, "okay")
    /\ UNCHANGED <<wireVars, clientVars, closeVars, mapVars, readerVars, kind,
                   remoteID, ackCh, done, deviceVars>>

\* service.run: OpenService failed (or its context was cancelled).
OpenFails(n) ==
    /\ pc[n] = "opening"
    /\ Goto(n, "finish")
    /\ OnlyMoves /\ UNCHANGED <<wireVars, opened, ackCh, deviceVars>>

\* driveOpen, sendPayloadAndClose: the handler has produced its answer.  One
\* that runs a reverse command may never (see Fairness).
HandlerDone(n) ==
    /\ pc[n] = "handler"
    /\ opened' = [opened EXCEPT ![n] = TRUE]
    /\ Goto(n, "okay")
    /\ OnlyMoves /\ UNCHANGED <<wireVars, ackCh, deviceVars>>

\* The OKAY that accepts the client's OPEN.
SendOkay(n) ==
    /\ pc[n] = "okay"
    /\ \/ /\ Sent(n, Packet("OKAY", n, remoteID[n]))
          /\ Goto(n, IF kind[n] = "run" THEN "read" ELSE "wrte")
       \/ WriteFails(n) /\ Goto(n, "finish")
    /\ OnlyMoves /\ UNCHANGED <<opened, ackCh, deviceVars>>

\* runOutbound: setConn.
SetConn(n) ==
    /\ pc[n] = "setconn"
    /\ conn' = [conn EXCEPT ![n] = "open"]
    /\ Goto(n, "dial")
    /\ UNCHANGED <<wireVars, clientVars, closeVars, mapVars, readerVars, kind,
                   remoteID, opened, ackCh, done, deviceVars>>

\* runOutbound: sendOpenAndWaitAck sends OPEN.
SendOpen(n) ==
    /\ pc[n] = "dial"
    /\ \/ Sent(n, Packet("OPEN", n, NoId)) /\ Goto(n, "waitopen")
       \/ WriteFails(n) /\ Goto(n, "finish")
    /\ OnlyMoves /\ UNCHANGED <<opened, ackCh, deviceVars>>

\* pumpConnToClient: conn.Read returns a chunk ...
PumpRead(n) ==
    /\ pc[n] = "read"
    /\ conn[n] = "open" /\ devOut[n] > 0
    /\ devOut' = [devOut EXCEPT ![n] = @ - 1]
    /\ Goto(n, "wrte")
    /\ OnlyMoves /\ UNCHANGED <<wireVars, opened, ackCh, devIn, devLeft, devEof>>

\* ... or an error: the device closed its end, or the bridge closed conn.
PumpEnds(n) ==
    /\ pc[n] = "read"
    /\ conn[n] # "open" \/ (devEof[n] /\ devOut[n] = 0)
    /\ Goto(n, "finish")
    /\ OnlyMoves /\ UNCHANGED <<wireVars, opened, ackCh, deviceVars>>

\* sendWriteAndWaitAck sends WRTE.
SendWrte(n) ==
    /\ pc[n] = "wrte"
    /\ \/ remoteID[n] # NoId /\ Sent(n, Packet("WRTE", n, remoteID[n])) /\ Goto(n, "wait")
       \/ remoteID[n] = NoId /\ Goto(n, "finish") /\ UNCHANGED wireVars
       \/ WriteFails(n) /\ Goto(n, "finish")
    /\ OnlyMoves /\ UNCHANGED <<opened, ackCh, deviceVars>>

\* Mutant: the acknowledgement is seen and not taken.
TakeAck_KeepsToken(n) ==
    /\ pc[n] \in {"wait", "waitopen"}
    /\ ackCh[n]
    /\ Goto(n, IF kind[n] = "local" THEN "finish" ELSE "read")
    /\ OnlyMoves /\ UNCHANGED <<wireVars, opened, ackCh, deviceVars>>

\* The select of both waits takes the token ...
TakeAck(n) ==
    /\ pc[n] \in {"wait", "waitopen"}
    /\ ackCh[n]
    /\ ackCh' = [ackCh EXCEPT ![n] = FALSE]
    /\ Goto(n, IF kind[n] = "local" THEN "finish" ELSE "read")
    /\ OnlyMoves /\ UNCHANGED <<wireVars, opened, deviceVars>>

\* Mutant: sendOpenAndWaitAck waits for the acknowledgement alone.
WaitClosed_NotForOpen(n) ==
    /\ pc[n] = "wait"
    /\ done[n]
    /\ Goto(n, "finish")
    /\ OnlyMoves /\ UNCHANGED <<wireVars, opened, ackCh, deviceVars>>

\* ... or sees that the service was closed.
WaitClosed(n) ==
    /\ pc[n] \in {"wait", "waitopen"}
    /\ done[n]
    /\ Goto(n, "finish")
    /\ OnlyMoves /\ UNCHANGED <<wireVars, opened, ackCh, deviceVars>>

\* Mutant: finish without its close.
FinishClose_Forgotten(n) ==
    /\ pc[n] = "finish"
    /\ Goto(n, "remove")
    /\ OnlyMoves /\ UNCHANGED <<wireVars, opened, ackCh, deviceVars>>

\* finish: close ...
FinishClose(n) ==
    /\ pc[n] = "finish"
    /\ CloseService(n)
    /\ Goto(n, "remove")
    /\ UNCHANGED <<wireVars, clientVars, closeVars, mapVars, readerVars, kind,
                   remoteID, opened, ackCh>>

\* Mutant: finish sends CLSE only for what was opened.
FinishRemove_OnlyOpened(n) ==
    /\ pc[n] = "remove"
    /\ services' = services \ {n}
    /\ Goto(n, IF ~opened[n] THEN "done" ELSE "clse")
    /\ UNCHANGED <<wireVars, clientVars, closeVars, nextLocalID, readerVars, kind,
                   remoteID, opened, ackCh, done, conn, deviceVars>>

\* ... removeService; a stream the client never learnt of needs no CLSE ...
FinishRemove(n) ==
    /\ pc[n] = "remove"
    /\ services' = services \ {n}
    /\ Goto(n, IF ~opened[n] /\ remoteID[n] = NoId THEN "done" ELSE "clse")
    /\ UNCHANGED <<wireVars, clientVars, closeVars, nextLocalID, readerVars, kind,
                   remoteID, opened, ackCh, done, conn, deviceVars>>

\* Mutant: every CLSE carries local id 0.
FinishClse_AlwaysZero(n) ==
    /\ pc[n] = "clse"
    /\ Sent(n, Packet("CLSE", NoId, remoteID[n])) \/ WriteFails(n)
    /\ Goto(n, "done")
    /\ OnlyMoves /\ UNCHANGED <<opened, ackCh, deviceVars>>

\* ... CLSE, with local id 0 for a stream that was never opened.
FinishClse(n) ==
    /\ pc[n] = "clse"
    /\ \/ Sent(n, Packet("CLSE", IF opened[n] THEN n ELSE NoId, remoteID[n]))
       \/ WriteFails(n)
    /\ Goto(n, "done")
    /\ OnlyMoves /\ UNCHANGED <<opened, ackCh, deviceVars>>

\* Bound on the streams: those started, and the client's OPENs on their way.
MayOpen ==
    nextLocalID + Cardinality({i \in DOMAIN toBridge : toBridge[i].cmd = "OPEN"}) \in Ids

\* reverseManager.accept: a device connection arrives, openOutbound.
AcceptReverse ==
    /\ MayOpen
    /\ StartService("outbound", NoId, "setconn")
    /\ UNCHANGED <<wireVars, clientVars, closeVars, readerVars, deviceVars>>

ServiceStep(n) ==
    \/ OpenDone(n) \/ OpenFails(n) \/ HandlerDone(n) \/ SendOkay(n)
    \/ SetConn(n) \/ SendOpen(n) \/ PumpRead(n) \/ PumpEnds(n) \/ SendWrte(n) \/ TakeAck(n) \/ WaitClosed(n)
    \/ FinishClose(n) \/ FinishRemove(n) \/ FinishClse(n)

----------------------------------------------------------------------------
(* The ADB client (external)                                               *)

ClientOnly == UNCHANGED <<closeVars, mapVars, readerVars, serviceVars, deviceVars>>

ClientSends(p) ==
    /\ ~gone /\ connUp
    /\ Len(toBridge) < NetCap
    /\ toBridge' = Append(toBridge, p)
    /\ UNCHANGED <<toClient, gone, late>>

CliOpen ==
    /\ MayOpen /\ nextRid \in Ids
    /\ ClientSends(Packet("OPEN", nextRid, NoId))
    /\ cst' = [cst EXCEPT ![nextRid] = "opening"]
    /\ nextRid' = nextRid + 1
    /\ UNCHANGED <<cpeer, cowe, cwait, cleft>> /\ ClientOnly

\* Accept the stream the bridge opened.
CliAccept(r) ==
    /\ cst[r] = "accepting"
    /\ ClientSends(Packet("OKAY", r, cpeer[r]))
    /\ cst' = [cst EXCEPT ![r] = "open"]
    /\ UNCHANGED <<cpeer, cowe, cwait, cleft, nextRid>> /\ ClientOnly

\* Refuse it.
CliRefuse(r) ==
    /\ cst[r] = "accepting"
    /\ ClientSends(Packet("CLSE", NoId, cpeer[r]))
    /\ cst' = [cst EXCEPT ![r] = "closed"]
    /\ UNCHANGED <<cpeer, cowe, cwait, cleft, nextRid>> /\ ClientOnly

\* Acknowledge the WRTE received on the stream.
CliAck(r) ==
    /\ cst[r] = "open" /\ cowe[r]
    /\ ClientSends(Packet("OKAY", r, cpeer[r]))
    /\ cowe' = [cowe EXCEPT ![r] = FALSE]
    /\ UNCHANGED <<cst, cpeer, cwait, cleft, nextRid>> /\ ClientOnly

\* Write on the stream; nobody writes to an OPEN answered inside the bridge.
CliWrite(r) ==
    /\ cst[r] = "open" /\ ~cwait[r] /\ cleft[r] > 0
    /\ kind[cpeer[r]] # "local"
    /\ ClientSends(Packet("WRTE", r, cpeer[r]))
    /\ cwait' = [cwait EXCEPT ![r] = TRUE]
    /\ cleft' = [cleft EXCEPT ![r] = @ - 1]
    /\ UNCHANGED <<cst, cpeer, cowe, nextRid>> /\ ClientOnly

\* The user of an unanswered OPEN goes away: the answer will be a CLSE.
CliAbandon(r) ==
    /\ cst[r] = "opening"
    /\ cst' = [cst EXCEPT ![r] = "abandoned"]
    /\ UNCHANGED <<wireVars, cpeer, cowe, cwait, cleft, nextRid>> /\ ClientOnly

Closing(r) ==
    /\ ClientSends(Packet("CLSE", r, cpeer[r]))
    /\ cst' = [cst EXCEPT ![r] = "closed"]
    /\ cowe' = [cowe EXCEPT ![r] = FALSE]
    /\ cwait' = [cwait EXCEPT ![r] = FALSE]
    /\ UNCHANGED <<cpeer, cleft, nextRid>> /\ ClientOnly

\* Close an open stream.
CliClose(r) == cst[r] = "open" /\ Closing(r)

\* Answer the CLSE of a stream, or the OKAY of an abandoned one.
CliCloseBack(r) == cst[r] = "closing" /\ Closing(r)

Received(c) ==
    /\ ~gone
    /\ toClient # <<>> /\ Head(toClient).cmd = c
    /\ toClient' = Tail(toClient)
    /\ UNCHANGED <<toBridge, gone, late>>

\* OKAY answers the OPEN, or the client's last WRTE.
RecvOkay ==
    /\ Received("OKAY")
    /\ LET n == Head(toClient).arg0
           r == Head(toClient).arg1
       IN  /\ cst' = [cst EXCEPT ![r] = CASE @ = "opening" -> "open"
                                          [] @ = "abandoned" -> "closing"
                                          [] OTHER -> @]
           /\ cpeer' = [cpeer EXCEPT ![r] = IF @ = NoId THEN n ELSE @]
           /\ cwait' = [cwait EXCEPT ![r] = FALSE]
    /\ UNCHANGED <<cowe, cleft, nextRid>> /\ ClientOnly

\* WRTE on a stream the client has closed is dropped.
RecvWrte ==
    /\ Received("WRTE")
    /\ cowe' = [cowe EXCEPT ![Head(toClient).arg1] = cst[Head(toClient).arg1] = "open"]
    /\ UNCHANGED <<cst, cpeer, cwait, cleft, nextRid>> /\ ClientOnly

RecvClse ==
    /\ Received("CLSE")
    /\ LET r == Head(toClient).arg1
       IN  /\ cst' = [cst EXCEPT ![r] = IF @ = "open" THEN "closing" ELSE "closed"]
           /\ cowe' = [cowe EXCEPT ![r] = FALSE]
           /\ cwait' = [cwait EXCEPT ![r] = FALSE]
    /\ UNCHANGED <<cpeer, cleft, nextRid>> /\ ClientOnly

RecvOpen ==
    /\ Received("OPEN")
    /\ nextRid \in Ids
    /\ cst' = [cst EXCEPT ![nextRid] = "accepting"]
    /\ cpeer' = [cpeer EXCEPT ![nextRid] = Head(toClient).arg0]
    /\ nextRid' = nextRid + 1
    /\ UNCHANGED <<cowe, cwait, cleft>> /\ ClientOnly

\* The client's end is closed: what it has not read is lost, and so is what
\* it knows of its streams.
Leave ==
    /\ ~gone
    /\ gone' = TRUE
    /\ toClient' = <<>>
    /\ cst' = [r \in Ids |-> "closed"]
    /\ cowe' = [r \in Ids |-> FALSE]
    /\ cwait' = [r \in Ids |-> FALSE]
    /\ UNCHANGED <<toBridge, late, cpeer, cleft, nextRid>> /\ ClientOnly

\* The client disconnects at any time; at the end of the stream it has to.
CliDrop == connUp /\ Leave
CliEof  == ~connUp /\ toClient = <<>> /\ Leave

ClientReads == RecvOkay \/ RecvWrte \/ RecvClse \/ RecvOpen \/ CliEof
ClientAnswers(r) == CliAccept(r) \/ CliRefuse(r) \/ CliAck(r) \/ CliCloseBack(r)

----------------------------------------------------------------------------
(* The device behind Backend.OpenService (external)                        *)

DeviceOnly(n) ==
    /\ conn[n] = "open" /\ ~devEof[n]
    /\ UNCHANGED <<wireVars, clientVars, closeVars, mapVars, readerVars, serviceVars>>

DevRead(n) ==
    /\ DeviceOnly(n)
    /\ devIn[n] > 0
    /\ ~(DeviceCouples /\ devOut[n] = BufCap)
    /\ devIn' = [devIn EXCEPT ![n] = @ - 1]
    /\ UNCHANGED <<devOut, devLeft, devEof>>

DevWrite(n) ==
    /\ DeviceOnly(n)
    /\ devLeft[n] > 0 /\ devOut[n] < BufCap
    /\ devOut' = [devOut EXCEPT ![n] = @ + 1]
    /\ devLeft' = [devLeft EXCEPT ![n] = @ - 1]
    /\ UNCHANGED <<devIn, devEof>>

DevClose(n) ==
    /\ DeviceOnly(n)
    /\ devEof' = [devEof EXCEPT ![n] = TRUE]
    /\ UNCHANGED <<devIn, devOut, devLeft>>

\* The context of the session is cancelled (the bridge or the daemon stops).
Cancel ==
    /\ ~ctxDone
    /\ ctxDone' = TRUE
    /\ UNCHANGED <<wireVars, clientVars, closed, cpc, victims, connUp,
                   mapVars, readerVars, serviceVars, deviceVars>>

----------------------------------------------------------------------------
ReaderStep ==
    \/ ReadOpen \/ ReadOkay \/ ReadWrte
    \/ WriteConn \/ WriteConnFails \/ WriteOkay \/ WriteOkayFails
    \/ ReadClse \/ ReadFails \/ ReaderClose

CloserStep == DrainServices \/ (\E n \in Ids : CloseVictim(n)) \/ CloseConn

ClientStep ==
    \/ CliOpen \/ ClientReads \/ CliDrop
    \/ \E r \in Ids : ClientAnswers(r) \/ CliWrite(r) \/ CliAbandon(r) \/ CliClose(r)

DeviceStep(n) == DevRead(n) \/ DevWrite(n) \/ DevClose(n)

Init ==
    /\ toClient = <<>> /\ toBridge = <<>> /\ gone = FALSE /\ late = {}
    /\ cst = [r \in Ids |-> "idle"]
    /\ cpeer = [r \in Ids |-> NoId]
    /\ cowe = [r \in Ids |-> FALSE]
    /\ cwait = [r \in Ids |-> FALSE]
    /\ cleft = [r \in Ids |-> MaxWrites]
    /\ nextRid = 1
    /\ ctxDone = FALSE /\ closed = FALSE /\ cpc = "idle"
    /\ victims = {} /\ connUp = TRUE
    /\ services = {} /\ nextLocalID = 1
    /\ rpc = "read" /\ rsvc = NoId /\ rexit = "none"
    /\ kind = [n \in Ids |-> "none"]
    /\ pc = [n \in Ids |-> "idle"]
    /\ remoteID = [n \in Ids |-> NoId]
    /\ opened = [n \in Ids |-> FALSE]
    /\ ackCh = [n \in Ids |-> FALSE]
    /\ done = [n \in Ids |-> FALSE]
    /\ conn = [n \in Ids |-> "nil"]
    /\ devIn = [n \in Ids |-> 0]
    /\ devOut = [n \in Ids |-> 0]
    /\ devLeft = [n \in Ids |-> MaxChunks]
    /\ devEof = [n \in Ids |-> FALSE]

Next ==
    \/ ReaderStep \/ WatcherClose \/ CloserStep
    \/ \E n \in Ids : ServiceStep(n) \/ DeviceStep(n)
    \/ AcceptReverse \/ Cancel \/ ClientStep

Spec == Init /\ [][Next]_vars

\* A reverse listener may exist: its command ran, or it accepted a connection.
MayMap == \E n \in Ids : kind[n] \in {"local", "outbound"}

\* session.close is in reverse.closeAll, which asks the device to drop every
\* mapping and reads each answer to its end, with no deadline.
AwaitsReverse == cpc = "victims" /\ victims = {} /\ MayMap

(***************************************************************************)
(* Fairness.  The Go scheduler runs every goroutine that can run, and      *)
(* OpenService is bounded (it dials with a timeout, or ends with the       *)
(* session's context); the client's transport thread keeps reading and     *)
(* acknowledging, a device process keeps reading its input.  Nobody has to *)
(* open, write, close, cancel or send anything, and the two places where   *)
(* the bridge reads a device's answer to a reverse command without a       *)
(* deadline, a handler and AwaitsReverse, need not be left.                *)
(***************************************************************************)
Fairness ==
    /\ WF_vars(ReaderStep) /\ WF_vars(WatcherClose)
    /\ WF_vars(~AwaitsReverse /\ CloserStep)
    /\ \A n \in Ids : WF_vars(pc[n] # "handler" /\ ServiceStep(n)) /\ WF_vars(DevRead(n))
    /\ WF_vars(ClientReads)
    /\ \A r \in Ids : WF_vars(ClientAnswers(r))

FairSpec == Spec /\ Fairness

----------------------------------------------------------------------------
(* Properties                                                              *)

PcLabels == {"idle", "opening", "handler", "okay", "setconn", "dial", "waitopen",
             "read", "wrte", "wait", "finish", "remove", "clse", "done"}

WireOK ==
    /\ toClient \in Seq(Packets) /\ Len(toClient) <= NetCap
    /\ toBridge \in Seq(Packets) /\ Len(toBridge) <= NetCap
    /\ gone \in BOOLEAN /\ late \subseteq Ids \cup {NoId}
ClientOK ==
    /\ cst \in [Ids -> {"idle", "opening", "abandoned", "accepting", "open",
                        "closing", "closed"}]
    /\ cpeer \in [Ids -> Ids \cup {NoId}]
    /\ cowe \in [Ids -> BOOLEAN] /\ cwait \in [Ids -> BOOLEAN]
    /\ cleft \in [Ids -> 0 .. MaxWrites]
    /\ nextRid \in 1 .. (MaxServices + 1)
CloseOK ==
    /\ ctxDone \in BOOLEAN /\ closed \in BOOLEAN /\ connUp \in BOOLEAN
    /\ cpc \in {"idle", "drain", "victims", "done"}
    /\ victims \subseteq Ids
MapOK == services \subseteq Ids /\ nextLocalID \in 1 .. (MaxServices + 1)
ReaderOK ==
    /\ rpc \in {"read", "write", "okay", "exit", "closing", "stopped"}
    /\ IF rpc \in {"write", "okay"} THEN rsvc \in Ids ELSE rsvc = NoId
    /\ rexit \in {"none", "eof", "error"}
ServiceOK ==
    /\ kind \in [Ids -> {"none", "run", "local", "outbound"}]
    /\ pc \in [Ids -> PcLabels]
    /\ remoteID \in [Ids -> Ids \cup {NoId}]
    /\ opened \in [Ids -> BOOLEAN] /\ ackCh \in [Ids -> BOOLEAN]
    /\ done \in [Ids -> BOOLEAN]
    /\ conn \in [Ids -> {"nil", "open", "closed"}]
DeviceOK ==
    /\ devIn \in [Ids -> 0 .. BufCap] /\ devOut \in [Ids -> 0 .. BufCap]
    /\ devLeft \in [Ids -> 0 .. MaxChunks] /\ devEof \in [Ids -> BOOLEAN]

\* Every variable keeps to its type: ids stay in the bounds, buffers within
\* their capacity, and the reader works for a service exactly while it writes.
TypeOK == WireOK /\ ClientOK /\ CloseOK /\ MapOK /\ ReaderOK /\ ServiceOK /\ DeviceOK

\* Packets of one FIFO that satisfy a test.
Waiting(fifo, Test(_)) == Cardinality({i \in DOMAIN fifo : Test(fifo[i])})

One(b) == IF b THEN 1 ELSE 0

\* What the client has yet to acknowledge of stream n, and the acknowledgements
\* on their way: the credit sendWriteAndWaitAck waits for, wherever it is.
Unacked(n) ==
      Waiting(toClient, LAMBDA p : p.cmd \in {"WRTE", "OPEN"} /\ p.arg0 = n)
    + Cardinality({r \in Ids : cpeer[r] = n /\ (cowe[r] \/ cst[r] = "accepting")})
    + Waiting(toBridge, LAMBDA p : p.cmd = "OKAY" /\ p.arg1 = n)
    + One(ackCh[n])

Ending == {"finish", "remove", "clse", "done"}

\* At most one packet of a stream is unacknowledged, and as long as one is,
\* its goroutine does not send the next (sendWriteAndWaitAck, ackCh of size 1).
FlowControl ==
    \A n \in Ids :
        /\ Unacked(n) <= 1
        /\ Unacked(n) = 1 => pc[n] \in {"wait", "waitopen"} \cup Ending

\* A goroutine that waits for an acknowledgement can get one, or is going to
\* be closed: no order of acks and closes leaves it waiting for nothing.
NoLostAck ==
    \A n \in Ids : pc[n] \in {"wait", "waitopen"} =>
        \/ Unacked(n) = 1 \/ done[n]
        \/ n \in victims \/ gone \/ ~connUp
        \/ \E i \in DOMAIN toBridge : toBridge[i].cmd = "CLSE" /\ toBridge[i].arg1 = n
        \/ \E r \in Ids : cpeer[r] = n /\ cst[r] = "closing"

\* A client that waits for the OKAY of its WRTE gets it, or the CLSE of the
\* stream: handleWrite may drop a packet only for a stream that is ending.
NoLostAnswer ==
    \A r \in Ids : cwait[r] =>
        \/ \E i \in DOMAIN toBridge : toBridge[i].cmd = "WRTE" /\ toBridge[i].arg0 = r
        \/ \E i \in DOMAIN toClient :
              toClient[i].cmd \in {"OKAY", "CLSE"} /\ toClient[i].arg1 = r
        \/ rsvc = cpeer[r] \/ pc[cpeer[r]] \in Ending
        \/ closed \/ rpc = "exit"

\* After the CLSE of a stream the client sees nothing of it but the OKAY of a
\* WRTE that handleWrite had already passed on; in particular no second CLSE.
OnlyOkayAfterClse ==
    \A i, j \in DOMAIN toClient :
        (i < j /\ toClient[i].cmd = "CLSE" /\ toClient[i].arg1 = toClient[j].arg1)
            => toClient[j].cmd = "OKAY"

\* A CLSE with local id 0 (finish of a service never opened) only ever refuses
\* an OPEN the client still waits for: it never hits an open stream.
RefusalBeforeOpen ==
    \A i \in DOMAIN toClient :
        (toClient[i].cmd = "CLSE" /\ toClient[i].arg0 = NoId)
            => cst[toClient[i].arg1] \in {"opening", "abandoned"}

\* Both ends pair the same stream ids: a packet of stream n carries the remote
\* id of n, and the client knows n, if at all, as the peer of that id.
Pairing ==
    /\ \A r \in Ids : cpeer[r] # NoId =>
          /\ remoteID[cpeer[r]] \in {NoId, r}
          /\ \A s \in Ids \ {r} : cpeer[s] # cpeer[r]
    /\ \A i \in DOMAIN toClient :
          LET p == toClient[i] IN (p.arg0 # NoId /\ p.arg1 # NoId) =>
              remoteID[p.arg0] = p.arg1 /\ cpeer[p.arg1] \in {NoId, p.arg0}

\* A service that has started is in the map, among the services close is
\* about to close, or closed: nobody drops a service without closing it.
Tracked ==
    \A n \in Ids : pc[n] # "idle" => n \in services \cup victims \/ done[n]

\* A service whose goroutine has ended has closed its backend connection,
\* unless session.close overtook it (see NoConnLeak).
LeakOnlyAtShutdown ==
    \A n \in Ids : (pc[n] = "done" /\ conn[n] = "open") => closed

\* Where the client cannot know the id of a service yet.
Unannounced == {"idle", "opening", "handler", "setconn", "dial", "okay"}

Known(n) == n # NoId => pc[n] \notin Unannounced

\* Ids above the last one are fresh, and an id travels (in a packet, in the
\* client's tables, in the reader's handler) only after the bridge sent it.
IdsInv ==
    /\ \A n \in Ids : n >= nextLocalID => pc[n] = "idle" /\ ~done[n] /\ conn[n] = "nil"
    /\ \A n \in services \cup victims : pc[n] # "idle"
    /\ \A i \in DOMAIN toClient : Known(toClient[i].arg0)
    /\ \A i \in DOMAIN toBridge : toBridge[i].cmd # "OPEN" => Known(toBridge[i].arg1)
    /\ \A r \in Ids : Known(cpeer[r])
    /\ Known(rsvc)

\* What makes Tracked and LeakOnlyAtShutdown inductive: close empties the map
\* once, finish closes before it removes, and before session.close only a
\* service that has its connection can be closed.
ReleaseInv ==
    /\ closed <=> cpc # "idle"
    /\ cpc \in {"idle", "drain"} => victims = {}
    /\ \A n \in Ids : pc[n] \in {"remove", "clse", "done"} => done[n]
    /\ Tracked
    /\ ~closed => \A n \in Ids : done[n] => pc[n] \notin Unannounced /\ conn[n] # "open"

\* finish releases the backend connection of every service, as the docs say of
\* CLSE, read errors and cancellation.  (Violated: setConn after close.)
NoConnLeak == \A n \in Ids : pc[n] = "done" => conn[n] # "open"

\* Every OPEN of the client is answered, by OKAY, CLSE or the end of the session:
\* it waits for ever only for its own handler, or for a close that is stuck.
OpenAnswered ==
    \A r \in Ids : []<>( \/ cst[r] # "opening" \/ AwaitsReverse
                        \/ \E n \in Ids : pc[n] = "handler" /\ remoteID[n] = r)

\* Every WRTE of the client is answered, by OKAY, CLSE or the end of the session,
\* unless session.close is stuck before it ends the connection.
WriteAnswered == \A r \in Ids : []<>(~cwait[r] \/ AwaitsReverse)

\* Once either end of the backend connection is closed the service goroutine
\* ends, wherever it was waiting.
ServiceEnds == \A n \in Ids : devEof[n] ~> pc[n] = "done"

\* When the context is cancelled or the client has gone, no service goroutine is
\* left behind but a handler that never returns, and the reader stops and the
\* connection is closed unless session.close is stuck.
SessionStops ==
    (ctxDone \/ gone) ~> [](/\ \A n \in Ids : pc[n] \in {"idle", "handler", "done"}
                            /\ (rpc = "stopped" /\ ~connUp) \/ AwaitsReverse)

\* A goroutine that waits for the client's acknowledgement is released by it.
\* (Violated when the device stops reading until its output is taken: the
\* reader is stuck in conn.Write and never reaches the OKAY.)
AckReleases == \A n \in Ids : pc[n] = "wait" ~> pc[n] # "wait"
=============================================================================
