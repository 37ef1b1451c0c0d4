--------------------------- MODULE AdbSessionRelease --------------------------
(***************************************************************************)
(* No service of a session is dropped without being closed (Tracked), and  *)
(* before session.close none leaves its backend connection open            *)
(* (LeakOnlyAtShutdown), by the inductive invariant IdsInv /\ ReleaseInv.  *)
(***************************************************************************)
EXTENDS AdbSessionProofs

(* The packets of a FIFO after an append, a take and nothing. *)
LEMMA AppendElements ==
    ASSUME NEW s \in Seq(Packets), NEW p \in Packets,
           NEW i \in DOMAIN Append(s, p)
    PROVE  Append(s, p)[i] = p \/ \E j \in DOMAIN s : Append(s, p)[i] = s[j]
BY AppendProperties

LEMMA TailElements ==
    ASSUME NEW s \in Seq(Packets), s # <<>>, NEW i \in DOMAIN Tail(s)
    PROVE  \E j \in DOMAIN s : Tail(s)[i] = s[j]
BY HeadTailProperties

LEMMA HeadElement ==
    ASSUME NEW s \in Seq(Packets), s # <<>>
    PROVE  \E j \in DOMAIN s : Head(s) = s[j]
BY HeadTailProperties

LEMMA SentElements ==
    ASSUME WireOK, NEW w, NEW p \in Packets, Sent(w, p), NEW i \in DOMAIN toClient'
    PROVE  toClient'[i] = p \/ \E j \in DOMAIN toClient : toClient'[i] = toClient[j]
BY AppendElements DEF WireOK, Sent

(* A service the client may know of stays known: no step takes a goroutine
   back before its announcement. *)
LEMMA KnownStays ==
    ASSUME TypeOK, IdsInv, Next, NEW n \in Ids, pc[n] \notin Unannounced
    PROVE  pc'[n] \notin Unannounced
<1>. USE DEF Unannounced, TypeOK, ServiceOK
<1>1. CASE UNCHANGED pc
    BY <1>1
<1>2. ASSUME NEW k, NEW r, NEW l, StartService(k, r, l)
      PROVE  pc'[n] \notin Unannounced
    <2>1. pc[nextLocalID] = "idle" /\ nextLocalID \in Ids
        BY <1>2 DEF StartService, AllocateLocalID, PutService, IdsInv, Ids
    <2>. QED  BY <1>2, <2>1 DEF StartService, AllocateLocalID, PutService, Goto
<1>3. ASSUME NEW m \in Ids, ServiceStep(m)
      PROVE  pc'[n] \notin Unannounced
    BY <1>3 DEF ServiceStep, OpenDone, OpenFails, HandlerDone, SendOkay, SetConn, SendOpen,
       PumpRead, PumpEnds, SendWrte, TakeAck, WaitClosed, FinishClose, FinishRemove,
       FinishClse, Goto, PcLabels
<1>4. CASE ReadOpen \/ AcceptReverse
    BY <1>2, <1>4 DEF ReadOpen, AcceptReverse
<1>5. CASE ReaderStep /\ ~ReadOpen
    BY <1>1, <1>5 DEF ReaderStep, ReadOkay, ReadWrte, WriteConn, WriteConnFails, WriteOkay,
       WriteOkayFails, ReadClse, ReadFails, ReaderClose, serviceVars
<1>6. CASE WatcherClose \/ CloserStep \/ Cancel
    BY <1>1, <1>6 DEF WatcherClose, CloserStep, DrainServices, CloseVictim, CloseConn, Cancel,
       serviceVars
<1>7. CASE ClientStep
    BY <1>1, <1>7 DEF ClientStep, ClientReads, ClientAnswers, CliOpen, RecvOkay, RecvWrte,
       RecvClse, RecvOpen, CliEof, CliDrop, Leave, CliAccept, CliRefuse, CliAck, CliCloseBack,
       CliWrite, CliAbandon, CliClose, Closing, ClientOnly, serviceVars
<1>8. ASSUME NEW m \in Ids, DeviceStep(m)
      PROVE  pc'[n] \notin Unannounced
    BY <1>1, <1>8 DEF DeviceStep, DevRead, DevWrite, DevClose, DeviceOnly, serviceVars
<1>. QED  BY <1>3, <1>4, <1>5, <1>6, <1>7, <1>8 DEF Next

(* Known, said of an id of the present state in the next one. *)
KnownNext(n) == n # NoId => pc'[n] \notin Unannounced

LEMMA KnownStaysKnown ==
    ASSUME TypeOK, IdsInv, Next, NEW n \in Ids \cup {NoId}, Known(n)
    PROVE  KnownNext(n)
BY KnownStays DEF Known, KnownNext

(* What a step puts into the client's direction carries a known id ... *)
LEMMA ToClientKnown ==
    ASSUME TypeOK, IdsInv, Next, NEW i \in DOMAIN toClient'
    PROVE  KnownNext(toClient'[i].arg0)
<1>. USE DEF TypeOK
<1>1. SUFFICES ASSUME ~ \E j \in DOMAIN toClient : toClient'[i] = toClient[j]
      PROVE  KnownNext(toClient'[i].arg0)
    <2>1. ASSUME NEW j \in DOMAIN toClient, toClient'[i] = toClient[j]
          PROVE  KnownNext(toClient'[i].arg0)
        <3>1. toClient[j] \in Packets
            BY DEF WireOK
        <3>. QED  BY <2>1, <3>1, PacketParts, KnownStaysKnown DEF IdsInv
    <2>. QED  BY <2>1
<1>2. CASE UNCHANGED toClient
    BY <1>1, <1>2
<1>3. ASSUME NEW c \in Commands, NEW a0 \in Ids \cup {NoId}, NEW a1 \in Ids \cup {NoId},
             NEW w, Sent(w, Packet(c, a0, a1))
      PROVE  toClient'[i].arg0 = a0
    BY <1>1, <1>3, PacketOK, SentElements DEF Packet
<1>4. CASE WriteOkay
    <2>1. KnownNext(rsvc) /\ rsvc \in Ids /\ remoteID[rsvc] \in Ids \cup {NoId}
        BY <1>4, KnownStaysKnown DEF WriteOkay, IdsInv, ReaderOK, ServiceOK
    <2>2. toClient'[i].arg0 = rsvc
        BY <1>3, <1>4, <2>1 DEF WriteOkay, Commands
    <2>. QED  BY <2>1, <2>2
<1>5. ASSUME NEW n \in Ids, SendOkay(n) \/ SendOpen(n) \/ SendWrte(n) \/ FinishClse(n)
      PROVE  KnownNext(toClient'[i].arg0)
    <2>1. remoteID[n] \in Ids \cup {NoId}
        BY DEF ServiceOK
    <2>2. toClient'[i].arg0 \in {n, NoId} \/ UNCHANGED toClient
        BY <1>3, <1>5, <2>1
           DEF SendOkay, SendOpen, SendWrte, FinishClse, WriteFails, wireVars, Commands
    <2>3. pc'[n] \notin Unannounced
        BY <1>5 DEF SendOkay, SendOpen, SendWrte, FinishClse, Goto, ServiceOK, Unannounced
    <2>. QED  BY <1>2, <2>2, <2>3 DEF KnownNext
<1>6. ASSUME NEW n \in Ids, ServiceStep(n)
      PROVE  KnownNext(toClient'[i].arg0)
    BY <1>2, <1>5, <1>6 DEF ServiceStep, OpenDone, OpenFails, HandlerDone, SetConn, PumpRead,
       PumpEnds, TakeAck, WaitClosed, FinishClose, FinishRemove, wireVars
<1>7. CASE ReaderStep /\ ~WriteOkay
    BY <1>2, <1>7 DEF ReaderStep, ReadOpen, ReadOkay, ReadWrte, WriteConn, WriteConnFails,
       WriteOkayFails, ReadClse, ReadFails, ReaderClose, Arrived, WriteFails, wireVars
<1>8. CASE WatcherClose \/ CloserStep \/ Cancel \/ AcceptReverse
    BY <1>2, <1>8 DEF WatcherClose, CloserStep, DrainServices, CloseVictim, CloseConn, Cancel,
       AcceptReverse, wireVars
<1>9. CASE ClientReads \/ CliDrop
    <2>1. CASE UNCHANGED toBridge /\ toClient' = Tail(toClient) /\ toClient # <<>>
        BY <1>1, <2>1, TailElements DEF WireOK
    <2>2. CASE toClient' = <<>>
        BY <2>2
    <2>. QED
        BY <1>9, <2>1, <2>2 DEF ClientReads, RecvOkay, RecvWrte, RecvClse, RecvOpen, Received,
           CliEof, CliDrop, Leave
<1>10. CASE ClientStep /\ ~(ClientReads \/ CliDrop)
    BY <1>2, <1>10 DEF ClientStep, ClientAnswers, CliOpen, CliAccept, CliRefuse, CliAck,
       CliCloseBack, CliWrite, CliAbandon, CliClose, Closing, ClientSends, wireVars
<1>11. ASSUME NEW n \in Ids, DeviceStep(n)
      PROVE  KnownNext(toClient'[i].arg0)
    BY <1>2, <1>11 DEF DeviceStep, DevRead, DevWrite, DevClose, DeviceOnly, wireVars
<1>. QED  BY <1>4, <1>6, <1>7, <1>8, <1>9, <1>10, <1>11 DEF Next

(* ... and so does what a step puts into the bridge's direction, the client's
   OPEN aside: the client uses the ids of its table. *)
LEMMA ToBridgeKnown ==
    ASSUME TypeOK, IdsInv, Next, NEW i \in DOMAIN toBridge', toBridge'[i].cmd # "OPEN"
    PROVE  KnownNext(toBridge'[i].arg1)
<1>. USE DEF TypeOK
<1>1. SUFFICES ASSUME ~ \E j \in DOMAIN toBridge : toBridge'[i] = toBridge[j]
      PROVE  KnownNext(toBridge'[i].arg1)
    <2>1. ASSUME NEW j \in DOMAIN toBridge, toBridge'[i] = toBridge[j]
          PROVE  KnownNext(toBridge'[i].arg1)
        <3>1. toBridge[j] \in Packets
            BY DEF WireOK
        <3>. QED  BY <2>1, <3>1, PacketParts, KnownStaysKnown DEF IdsInv
    <2>. QED  BY <2>1
<1>2. CASE UNCHANGED toBridge
    BY <1>1, <1>2
<1>3. CASE toBridge' = Tail(toBridge) /\ toBridge # <<>>
    BY <1>1, <1>3, TailElements DEF WireOK
<1>4. CASE toBridge' = <<>>
    BY <1>4
<1>5. ASSUME NEW p \in Packets, ClientSends(p)
      PROVE  toBridge'[i] = p
    BY <1>1, <1>5, AppendElements DEF WireOK, ClientSends
<1>6. CASE CliOpen
    <2>1. Packet("OPEN", nextRid, NoId) \in Packets
        BY <1>6, PacketOK DEF CliOpen, Commands
    <2>. QED  BY <1>5, <1>6, <2>1 DEF CliOpen, Packet
<1>7. ASSUME NEW r \in Ids, ClientAnswers(r) \/ CliWrite(r) \/ CliAbandon(r) \/ CliClose(r)
      PROVE  KnownNext(toBridge'[i].arg1)
    <2>1. cpeer[r] \in Ids \cup {NoId} /\ KnownNext(cpeer[r])
        BY KnownStaysKnown DEF ClientOK, IdsInv
    <2>2. \A c \in Commands, a0 \in {r, NoId} : Packet(c, a0, cpeer[r]) \in Packets
        BY <2>1, PacketOK
    <2>3. UNCHANGED toBridge \/ toBridge'[i].arg1 = cpeer[r]
        BY <1>5, <1>7, <2>2 DEF ClientAnswers, CliAccept, CliRefuse, CliAck, CliCloseBack,
           CliWrite, CliAbandon, CliClose, Closing, Packet, Commands, wireVars
    <2>. QED  BY <1>2, <2>1, <2>3
<1>8. CASE ClientReads \/ CliDrop
    BY <1>2, <1>8 DEF ClientReads, RecvOkay, RecvWrte, RecvClse, RecvOpen, Received, CliEof,
       CliDrop, Leave
<1>9. CASE ReaderStep
    BY <1>2, <1>3, <1>9 DEF ReaderStep, ReadOpen, ReadOkay, ReadWrte, WriteConn,
       WriteConnFails, WriteOkay, WriteOkayFails, ReadClse, ReadFails, ReaderClose, Arrived,
       Sent, WriteFails, wireVars
<1>10. ASSUME NEW n \in Ids, ServiceStep(n)
       PROVE  UNCHANGED toBridge
    BY <1>10 DEF ServiceStep, OpenDone, OpenFails, HandlerDone, SendOkay, SetConn, SendOpen,
       PumpRead, PumpEnds, SendWrte, TakeAck, WaitClosed, FinishClose, FinishRemove,
       FinishClse, Sent, WriteFails, wireVars
<1>11. CASE WatcherClose \/ CloserStep \/ Cancel \/ AcceptReverse
    BY <1>2, <1>4, <1>11 DEF WatcherClose, CloserStep, DrainServices, CloseVictim, CloseConn,
       Cancel, AcceptReverse, wireVars
<1>12. ASSUME NEW n \in Ids, DeviceStep(n)
       PROVE  UNCHANGED toBridge
    BY <1>12 DEF DeviceStep, DevRead, DevWrite, DevClose, DeviceOnly, wireVars
<1>. QED
    BY <1>2, <1>6, <1>7, <1>8, <1>9, <1>10, <1>11, <1>12 DEF Next, ClientStep

(* The ids the client's table and the reader learn come from known packets. *)
LEMMA TablesKnown ==
    ASSUME TypeOK, IdsInv, Next
    PROVE  /\ \A r \in Ids : KnownNext(cpeer'[r])
           /\ KnownNext(rsvc')
<1>. USE DEF TypeOK
<1>1. rsvc \in Ids \cup {NoId} /\ KnownNext(rsvc) /\ KnownNext(NoId)
    BY KnownStaysKnown DEF ReaderOK, IdsInv, KnownNext
<1>2. \A r \in Ids : KnownNext(cpeer[r])
    BY KnownStaysKnown DEF ClientOK, IdsInv
<1>3. ASSUME toClient # <<>>
      PROVE  KnownNext(Head(toClient).arg0)
    <2>1. Head(toClient) \in Packets /\ Known(Head(toClient).arg0)
        BY <1>3, HeadElement, FifoTail DEF WireOK, IdsInv
    <2>. QED  BY <2>1, PacketParts, KnownStaysKnown
<1>4. ASSUME toBridge # <<>>, Head(toBridge).cmd # "OPEN"
      PROVE  KnownNext(Head(toBridge).arg1)
    <2>1. Head(toBridge) \in Packets /\ Known(Head(toBridge).arg1)
        BY <1>4, HeadElement, FifoTail DEF WireOK, IdsInv
    <2>. QED  BY <2>1, PacketParts, KnownStaysKnown
<1>5. CASE UNCHANGED cpeer /\ UNCHANGED rsvc
    BY <1>1, <1>2, <1>5
<1>6. CASE ReaderStep
    BY <1>1, <1>2, <1>4, <1>6 DEF ReaderStep, ReadOpen, ReadOkay, ReadWrte, WriteConn,
       WriteConnFails, WriteOkay, WriteOkayFails, ReadClse, ReadFails, ReaderClose, Arrived,
       Exit, readerVars, clientVars
<1>7. CASE ClientReads
    BY <1>1, <1>2, <1>3, <1>7 DEF ClientReads, RecvOkay, RecvWrte, RecvClse, RecvOpen,
       Received, CliEof, Leave, ClientOnly, readerVars, ClientOK
<1>8. CASE ClientStep /\ ~ClientReads
    BY <1>5, <1>8 DEF ClientStep, ClientAnswers, CliOpen, CliAccept, CliRefuse, CliAck,
       CliCloseBack, CliWrite, CliAbandon, CliClose, Closing, CliDrop, Leave, ClientOnly,
       readerVars
<1>9. ASSUME NEW n \in Ids, ServiceStep(n)
      PROVE  UNCHANGED cpeer /\ UNCHANGED rsvc
    BY <1>9 DEF ServiceStep, OpenDone, OpenFails, HandlerDone, SendOkay, SetConn, SendOpen,
       PumpRead, PumpEnds, SendWrte, TakeAck, WaitClosed, FinishClose, FinishRemove,
       FinishClse, OnlyMoves, clientVars, readerVars
<1>10. CASE WatcherClose \/ CloserStep \/ Cancel \/ AcceptReverse
    BY <1>5, <1>10 DEF WatcherClose, CloserStep, DrainServices, CloseVictim, CloseConn, Cancel,
       AcceptReverse, clientVars, readerVars
<1>11. ASSUME NEW n \in Ids, DeviceStep(n)
       PROVE  UNCHANGED cpeer /\ UNCHANGED rsvc
    BY <1>11 DEF DeviceStep, DevRead, DevWrite, DevClose, DeviceOnly, clientVars, readerVars
<1>. QED  BY <1>5, <1>6, <1>7, <1>8, <1>9, <1>10, <1>11 DEF Next

(* What StartService does to the new service and to the others. *)
LEMMA StartServiceEffect ==
    ASSUME TypeOK, IdsInv, NEW k \in {"run", "local", "outbound"}, NEW r,
           NEW l \in {"opening", "handler", "setconn"}, StartService(k, r, l)
    PROVE  /\ nextLocalID \in Ids /\ nextLocalID' = nextLocalID + 1
           /\ services' = services \cup {nextLocalID}
           /\ pc[nextLocalID] = "idle" /\ ~done[nextLocalID] /\ conn[nextLocalID] = "nil"
           /\ pc'[nextLocalID] = l
           /\ \A n \in Ids \ {nextLocalID} : pc'[n] = pc[n]
           /\ UNCHANGED <<done, conn>>
BY DEF TypeOK, ServiceOK, StartService, AllocateLocalID, PutService, Goto, IdsInv, Ids

(* Steps that start no service, close none and move no goroutine. *)
Quiet ==
    /\ UNCHANGED <<closed, cpc, victims, mapVars, pc, done, conn>>

LEMMA QuietSteps ==
    /\ ReadOkay \/ ReadWrte \/ WriteConn \/ WriteConnFails \/ WriteOkay
         \/ WriteOkayFails \/ ReadFails => Quiet
    /\ Cancel \/ ClientStep => Quiet
    /\ \A n \in Ids : DeviceStep(n) => Quiet
<1>1. ReadOkay \/ ReadWrte \/ WriteConn \/ WriteConnFails \/ WriteOkay
         \/ WriteOkayFails \/ ReadFails => Quiet
    BY DEF ReadOkay, ReadWrte, WriteConn, WriteConnFails, WriteOkay, WriteOkayFails, ReadFails,
       Quiet, closeVars, mapVars, serviceVars
<1>2. Cancel => Quiet
    BY DEF Cancel, Quiet, serviceVars
<1>3. ClientStep => Quiet
    BY DEF ClientStep, ClientReads, ClientAnswers, CliOpen, RecvOkay, RecvWrte, RecvClse,
       RecvOpen, CliEof, CliDrop, Leave, CliAccept, CliRefuse, CliAck, CliCloseBack, CliWrite,
       CliAbandon, CliClose, Closing, ClientOnly, Quiet, closeVars, mapVars, serviceVars
<1>4. \A n \in Ids : DeviceStep(n) => Quiet
    BY DEF DeviceStep, DevRead, DevWrite, DevClose, DeviceOnly, Quiet, closeVars, mapVars,
       serviceVars
<1>. QED  BY <1>1, <1>2, <1>3, <1>4

(* Steps of a service that leave the map and the connections alone. *)
Moves(n) ==
    /\ UNCHANGED <<closed, cpc, victims, mapVars, done, conn>>
    /\ \A m \in Ids \ {n} : pc'[m] = pc[m]
    /\ pc[n] # "idle" /\ pc'[n] \notin {"idle", "remove", "clse"}
    /\ pc'[n] = "done" => pc[n] = "clse"
    /\ pc'[n] \in Unannounced => pc[n] \in Unannounced

LEMMA MovingSteps ==
    ASSUME TypeOK, NEW n \in Ids,
           OpenFails(n) \/ HandlerDone(n) \/ SendOkay(n) \/ SendOpen(n) \/ PumpRead(n)
             \/ PumpEnds(n) \/ SendWrte(n) \/ TakeAck(n) \/ WaitClosed(n) \/ FinishClse(n)
    PROVE  Moves(n)
BY DEF TypeOK, ServiceOK, OpenFails, HandlerDone, SendOkay, SendOpen, PumpRead, PumpEnds,
   SendWrte, TakeAck, WaitClosed, FinishClse, Goto, OnlyMoves, Moves, Unannounced, closeVars,
   mapVars

(* The first two conjuncts of IdsInv, said of the next state. *)
FreshNext ==
    /\ \A n \in Ids : n >= nextLocalID' => pc'[n] = "idle" /\ ~done'[n] /\ conn'[n] = "nil"
    /\ \A n \in services' \cup victims' : pc'[n] # "idle"

LEMMA FreshStep ==
    ASSUME TypeOK, IdsInv, Next
    PROVE  FreshNext
<1>. USE DEF TypeOK, MapOK, CloseOK, IdsInv, Ids, FreshNext
<1>1. CASE Quiet
    BY <1>1 DEF Quiet, mapVars
<1>2. CASE ReadOpen \/ AcceptReverse
    <2>1. PICK k \in {"run", "local", "outbound"}, l \in {"opening", "handler", "setconn"} :
             \E r : StartService(k, r, l)
        BY <1>2, SessionAssumption DEF ReadOpen, AcceptReverse
    <2>2. UNCHANGED victims
        BY <1>2 DEF ReadOpen, AcceptReverse, closeVars
    <2>3. /\ nextLocalID \in Ids /\ nextLocalID' = nextLocalID + 1
          /\ services' = services \cup {nextLocalID}
          /\ pc'[nextLocalID] = l
          /\ \A n \in Ids \ {nextLocalID} : pc'[n] = pc[n]
          /\ UNCHANGED <<done, conn>>
        BY <2>1, StartServiceEffect
    <2>4. \A n \in Ids : n >= nextLocalID' => n >= nextLocalID /\ n # nextLocalID
        BY <2>3
    <2>. QED  BY <2>2, <2>3, <2>4
<1>3. ASSUME NEW m \in Ids, CloseService(m), pc[m] # "idle",
             \A n \in Ids \ {m} : pc'[n] = pc[n], pc'[m] # "idle",
             UNCHANGED mapVars, victims' \subseteq victims
      PROVE  FreshNext
    <2>1. \A n \in Ids \ {m} : done'[n] = done[n] /\ conn'[n] = conn[n]
        BY <1>3 DEF CloseService, ServiceOK
    <2>. QED  BY <1>3, <2>1 DEF mapVars
<1>4. CASE ReadClse
    <2>1. CASE Head(toBridge).arg1 \in services
        BY <1>3, <1>4, <2>1 DEF ReadClse, mapVars, closeVars
    <2>2. CASE Head(toBridge).arg1 \notin services
        BY <1>1, <1>4, <2>2 DEF ReadClse, Quiet, closeVars
    <2>. QED  BY <2>1, <2>2
<1>5. CASE ReaderClose \/ WatcherClose \/ DrainServices \/ CloseConn
    BY <1>5 DEF ReaderClose, WatcherClose, BeginClose, DrainServices, CloseConn, serviceVars,
       mapVars, closeVars
<1>6. ASSUME NEW n \in Ids, CloseVictim(n)
      PROVE  UNCHANGED <<mapVars, pc>> /\ CloseService(n) /\ n \in victims
             /\ victims' \subseteq victims
    BY <1>6 DEF CloseVictim
<1>7. ASSUME NEW n \in Ids, Moves(n)
      PROVE  FreshNext
    BY <1>7 DEF Moves, mapVars
<1>8. ASSUME NEW n \in Ids, OpenDone(n) \/ SetConn(n) \/ FinishRemove(n)
      PROVE  FreshNext
    <2>1. pc[n] # "idle" /\ pc'[n] # "idle" /\ UNCHANGED done
        BY <1>8 DEF OpenDone, SetConn, FinishRemove, Goto, ServiceOK
    <2>2. /\ \A m \in Ids \ {n} : pc'[m] = pc[m] /\ conn'[m] = conn[m]
          /\ services' \subseteq services
          /\ UNCHANGED <<nextLocalID, victims>>
        BY <1>8 DEF OpenDone, SetConn, FinishRemove, Goto, ServiceOK, closeVars, mapVars
    <2>. QED  BY <2>1, <2>2
<1>9. ASSUME NEW n \in Ids, FinishClose(n)
      PROVE  /\ CloseService(n) /\ pc[n] # "idle" /\ pc'[n] # "idle"
             /\ \A m \in Ids \ {n} : pc'[m] = pc[m]
             /\ UNCHANGED mapVars /\ UNCHANGED victims
    BY <1>9 DEF FinishClose, Goto, ServiceOK, closeVars
<1>10. ASSUME NEW n \in Ids, CloseVictim(n) PROVE FreshNext
    <2>1. pc[n] # "idle" /\ pc' = pc
        BY <1>6, <1>10
    <2>. QED  BY <1>3, <1>6, <1>10, <2>1
<1>11. ASSUME NEW n \in Ids, FinishClose(n) PROVE FreshNext
    BY <1>3, <1>9, <1>11
<1>. QED
    BY <1>1, <1>2, <1>4, <1>5, <1>7, <1>8, <1>10, <1>11, QuietSteps, MovingSteps
       DEF Next, ReaderStep, CloserStep, ServiceStep

(* IdsInv is preserved. *)
LEMMA IdsStep == ASSUME TypeOK, IdsInv, Next PROVE IdsInv'
<1>1. \A n \in Ids : (n >= nextLocalID => pc[n] = "idle" /\ ~done[n] /\ conn[n] = "nil")'
    BY FreshStep DEF FreshNext
<1>2. (\A n \in services \cup victims : pc[n] # "idle")'
    BY FreshStep DEF FreshNext
<1>3. (\A i \in DOMAIN toClient : Known(toClient[i].arg0))'
    BY ToClientKnown DEF Known, KnownNext
<1>4. (\A i \in DOMAIN toBridge : toBridge[i].cmd # "OPEN" => Known(toBridge[i].arg1))'
    BY ToBridgeKnown DEF Known, KnownNext
<1>5. (\A r \in Ids : Known(cpeer[r]))' /\ Known(rsvc)'
    BY TablesKnown DEF Known, KnownNext
<1>. QED  BY <1>1, <1>2, <1>3, <1>4, <1>5 DEF IdsInv

(* What CloseService does to its service and to the others. *)
LEMMA CloseServiceEffect ==
    ASSUME TypeOK, NEW n \in Ids, CloseService(n)
    PROVE  /\ done'[n] /\ (conn[n] # "open" \/ ~done[n] => conn'[n] # "open")
           /\ \A m \in Ids \ {n} : done'[m] = done[m] /\ conn'[m] = conn[m]
BY DEF TypeOK, ServiceOK, CloseService

(* ReleaseInv is preserved. *)
LEMMA ReleaseStep == ASSUME TypeOK, IdsInv, ReleaseInv, Next PROVE ReleaseInv'
<1>. USE DEF TypeOK, MapOK, CloseOK
<1>1. CASE Quiet
    BY <1>1 DEF Quiet, mapVars, ReleaseInv, Tracked
<1>2. CASE ReadOpen \/ AcceptReverse
    <2>1. PICK k \in {"run", "local", "outbound"}, l \in {"opening", "handler", "setconn"} :
             \E r : StartService(k, r, l)
        BY <1>2, SessionAssumption DEF ReadOpen, AcceptReverse
    <2>2. UNCHANGED <<closed, cpc, victims>>
        BY <1>2 DEF ReadOpen, AcceptReverse, closeVars
    <2>3. /\ nextLocalID \in Ids
          /\ services' = services \cup {nextLocalID}
          /\ pc'[nextLocalID] = l /\ ~done[nextLocalID]
          /\ \A n \in Ids \ {nextLocalID} : pc'[n] = pc[n]
          /\ UNCHANGED <<done, conn>>
        BY <2>1, StartServiceEffect
    <2>. QED  BY <2>2, <2>3 DEF ReleaseInv, Tracked
<1>3. CASE ReadClse
    <2>1. CASE Head(toBridge).arg1 \in services
        <3>. DEFINE n == Head(toBridge).arg1
        <3>1. n \in Ids /\ CloseService(n) /\ UNCHANGED <<closed, cpc, victims, mapVars, pc>>
            BY <1>3, <2>1 DEF ReadClse, closeVars
        <3>2. pc[n] \notin Unannounced
            <4>1. toBridge # <<>> /\ Head(toBridge).cmd = "CLSE"
                BY <1>3 DEF ReadClse, Arrived
            <4>2. Known(n)
                BY <4>1, HeadElement DEF WireOK, IdsInv
            <4>3. NoId \notin Ids
                BY DEF NoId, Ids
            <4>. QED  BY <3>1, <4>2, <4>3 DEF Known
        <3>. HIDE DEF n
        <3>. QED  BY <3>1, <3>2, CloseServiceEffect DEF ReleaseInv, Tracked, mapVars
    <2>2. CASE Head(toBridge).arg1 \notin services
        BY <1>1, <1>3, <2>2 DEF ReadClse, Quiet, closeVars
    <2>. QED  BY <2>1, <2>2
<1>4. CASE ReaderClose \/ WatcherClose
    <2>1. UNCHANGED <<mapVars, pc, done, conn, victims>>
        BY <1>4 DEF ReaderClose, WatcherClose, BeginClose, serviceVars, closeVars
    <2>2. \/ ~closed /\ closed' /\ cpc' = "drain"
          \/ UNCHANGED <<closed, cpc>>
        BY <1>4 DEF ReaderClose, WatcherClose, BeginClose, closeVars
    <2>. QED  BY <2>1, <2>2 DEF ReleaseInv, Tracked, mapVars
<1>5. CASE DrainServices
    <2>1. victims = {} /\ closed
        BY <1>5 DEF DrainServices, ReleaseInv
    <2>. QED  BY <1>5, <2>1 DEF DrainServices, ReleaseInv, Tracked, serviceVars
<1>6. CASE CloseConn
    BY <1>6 DEF CloseConn, ReleaseInv, Tracked, serviceVars, mapVars
<1>7. ASSUME NEW n \in Ids, CloseVictim(n) PROVE ReleaseInv'
    <2>1. closed /\ cpc = "victims"
        BY <1>7 DEF CloseVictim, ReleaseInv
    <2>. QED  BY <1>7, <2>1, CloseServiceEffect DEF CloseVictim, ReleaseInv, Tracked, mapVars
<1>8. ASSUME NEW n \in Ids, Moves(n) PROVE ReleaseInv'
    BY <1>8 DEF Moves, ReleaseInv, Tracked, mapVars
<1>9. ASSUME NEW n \in Ids, OpenDone(n) \/ SetConn(n) PROVE ReleaseInv'
    <2>1. /\ UNCHANGED <<closed, cpc, victims, mapVars, done>>
          /\ \A m \in Ids \ {n} : pc'[m] = pc[m] /\ conn'[m] = conn[m]
          /\ pc[n] \in {"opening", "setconn"} /\ pc'[n] \in {"okay", "dial"}
        BY <1>9 DEF OpenDone, SetConn, Goto, ServiceOK, closeVars
    <2>2. ~closed => ~done[n]
        BY <2>1 DEF ReleaseInv, Unannounced
    <2>. QED  BY <2>1, <2>2 DEF ReleaseInv, Tracked, mapVars
<1>10. ASSUME NEW n \in Ids, FinishClose(n) PROVE ReleaseInv'
    <2>1. /\ UNCHANGED <<closed, cpc, victims, mapVars>> /\ CloseService(n)
          /\ \A m \in Ids \ {n} : pc'[m] = pc[m]
          /\ pc[n] = "finish" /\ pc'[n] = "remove"
        BY <1>10 DEF FinishClose, Goto, ServiceOK, closeVars
    <2>. QED  BY <2>1, CloseServiceEffect DEF ReleaseInv, Tracked, mapVars, Unannounced
<1>11. ASSUME NEW n \in Ids, FinishRemove(n) PROVE ReleaseInv'
    <2>1. /\ UNCHANGED <<closed, cpc, victims, done, conn>> /\ services' = services \ {n}
          /\ \A m \in Ids \ {n} : pc'[m] = pc[m]
          /\ pc[n] = "remove" /\ pc'[n] \in {"clse", "done"}
        BY <1>11 DEF FinishRemove, Goto, ServiceOK, closeVars
    <2>. QED  BY <2>1 DEF ReleaseInv, Tracked, Unannounced
<1>. QED
    BY <1>1, <1>2, <1>3, <1>4, <1>5, <1>6, <1>7, <1>8, <1>9, <1>10, <1>11, QuietSteps,
       MovingSteps DEF Next, ReaderStep, CloserStep, ServiceStep

LEMMA InitRelease == Init => IdsInv /\ ReleaseInv
<1>. SUFFICES ASSUME Init PROVE IdsInv /\ ReleaseInv
    OBVIOUS
<1>1. /\ \A n \in Ids : pc[n] = "idle" /\ ~done[n] /\ conn[n] = "nil" /\ cpeer[n] = NoId
      /\ services = {} /\ victims = {} /\ rsvc = NoId
      /\ closed = FALSE /\ cpc = "idle"
    BY DEF Init
<1>2. DOMAIN toClient = {} /\ DOMAIN toBridge = {}
    BY DEF Init
<1>. QED  BY <1>1, <1>2 DEF IdsInv, ReleaseInv, Tracked, Known, Unannounced

(* The inductive invariant. *)
LEMMA ReleaseInvariant == Spec => [](IdsInv /\ ReleaseInv)
<1>1. TypeOK /\ IdsInv /\ ReleaseInv /\ [Next]_vars => (IdsInv /\ ReleaseInv)'
    <2>1. IdsInv /\ ReleaseInv /\ UNCHANGED vars => (IdsInv /\ ReleaseInv)'
        BY DEF IdsInv, ReleaseInv, Tracked, Known, vars, wireVars, clientVars, closeVars,
           mapVars, readerVars, serviceVars
    <2>. QED  BY <2>1, IdsStep, ReleaseStep
<1>. QED  BY <1>1, InitRelease, TypeCorrect, PTL DEF Spec

(* An id is fresh until it is allocated, and travels only after it was announced. *)
THEOREM IdsAnnounced == Spec => []IdsInv
BY ReleaseInvariant, PTL

(* close empties the map once, finish closes before it removes, and before
   session.close only a service that has its connection is closed. *)
THEOREM ReleaseOrder == Spec => []ReleaseInv
BY ReleaseInvariant, PTL

(* Every service that has started is in the map, about to be closed by
   session.close, or closed. *)
THEOREM EveryServiceTracked == Spec => []Tracked
<1>1. ReleaseInv => Tracked
    BY DEF ReleaseInv
<1>. QED  BY <1>1, ReleaseInvariant, PTL

(* A service whose goroutine has ended has closed its backend connection,
   unless the session itself was closed. *)
THEOREM NoLeakBeforeShutdown == Spec => []LeakOnlyAtShutdown
<1>1. ReleaseInv => LeakOnlyAtShutdown
    BY DEF ReleaseInv, LeakOnlyAtShutdown
<1>. QED  BY <1>1, ReleaseInvariant, PTL
=============================================================================
