--------------------------- MODULE AdbSessionProofs ---------------------------
(***************************************************************************)
(* Proofs about the session of AdbSession, for every number of services,   *)
(* every bound on writes and chunks and every buffer size.                 *)
(***************************************************************************)
EXTENDS AdbSession, SequenceTheorems, TLAPS

(* What a packet FIFO is after one packet has been appended or taken. *)
LEMMA FifoAppend ==
    ASSUME NEW s \in Seq(Packets), NEW p \in Packets, Len(s) < NetCap
    PROVE  /\ Append(s, p) \in Seq(Packets)
           /\ Len(Append(s, p)) <= NetCap
BY SessionAssumption, AppendProperties

LEMMA FifoTail ==
    ASSUME NEW s \in Seq(Packets), s # <<>>, Len(s) <= NetCap
    PROVE  /\ Tail(s) \in Seq(Packets)
           /\ Len(Tail(s)) <= NetCap
           /\ Head(s) \in Packets
BY SessionAssumption, HeadTailProperties

(* The empty FIFO. *)
LEMMA FifoEmpty == <<>> \in Seq(Packets) /\ Len(<<>>) <= NetCap
BY SessionAssumption

(* writePacket keeps the FIFOs what they are, whatever it is given to send. *)
LEMMA SentOK ==
    ASSUME WireOK, NEW w, NEW p \in Packets, Sent(w, p)
    PROVE  WireOK'
BY FifoAppend DEF WireOK, Sent

LEMMA ClientSendsOK ==
    ASSUME WireOK, NEW p \in Packets, ClientSends(p)
    PROVE  WireOK'
BY FifoAppend DEF WireOK, ClientSends

LEMMA ArrivedOK ==
    ASSUME WireOK, NEW c, Arrived(c)
    PROVE  WireOK' /\ Head(toBridge) \in Packets
BY FifoTail DEF WireOK, Arrived

LEMMA ReceivedOK ==
    ASSUME WireOK, NEW c, Received(c)
    PROVE  WireOK' /\ Head(toClient) \in Packets
BY FifoTail DEF WireOK, Received

LEMMA WriteFailsOK == ASSUME WireOK, NEW w, WriteFails(w) PROVE WireOK'
BY DEF WireOK, WriteFails

LEMMA CloseServiceOK ==
    ASSUME ServiceOK, DeviceOK, NEW n \in Ids, CloseService(n),
           UNCHANGED <<kind, remoteID, opened, ackCh>>, pc' \in [Ids -> PcLabels]
    PROVE  ServiceOK' /\ DeviceOK'
<1>0. 0 \in 0 .. BufCap /\ 0 \in 0 .. MaxChunks
    BY SessionAssumption
<1>1. done' \in [Ids -> BOOLEAN]
    BY DEF ServiceOK, CloseService
<1>2. conn' \in [Ids -> {"nil", "open", "closed"}] /\ DeviceOK'
    <2>1. CASE ~done[n] /\ conn[n] = "open"
        BY ZenonT(60), <1>0, <2>1 DEF ServiceOK, DeviceOK, CloseService
    <2>2. CASE ~(~done[n] /\ conn[n] = "open")
        BY <2>2 DEF ServiceOK, DeviceOK, CloseService, deviceVars
    <2>. QED  BY <2>1, <2>2
<1>. QED  BY <1>1, <1>2 DEF ServiceOK

LEMMA StartServiceOK ==
    ASSUME ServiceOK, MapOK, NEW k \in {"run", "local", "outbound"},
           NEW r \in Ids \cup {NoId}, NEW l \in PcLabels, StartService(k, r, l)
    PROVE  ServiceOK' /\ MapOK'
<1>1. nextLocalID + 1 \in 1 .. (MaxServices + 1) /\ nextLocalID \in Ids
    BY SessionAssumption DEF StartService, AllocateLocalID, PutService, Ids
<1>2. MapOK'
    BY <1>1 DEF MapOK, StartService, AllocateLocalID, PutService
<1>3. ServiceOK'
    BY <1>1 DEF ServiceOK, StartService, AllocateLocalID, PutService, Goto
<1>. QED  BY <1>2, <1>3

LEMMA InitTypeOK == Init => TypeOK
<1>. SUFFICES ASSUME Init PROVE TypeOK
    OBVIOUS
<1>1. WireOK
    BY FifoEmpty DEF Init, WireOK
<1>2. ClientOK
    BY SessionAssumption DEF Init, ClientOK, NoId
<1>3. CloseOK /\ ReaderOK
    BY DEF Init, CloseOK, ReaderOK
<1>4. MapOK
    BY SessionAssumption DEF Init, MapOK
<1>5. ServiceOK
    BY DEF Init, ServiceOK, PcLabels, NoId
<1>6. DeviceOK
    BY SessionAssumption DEF Init, DeviceOK
<1>. QED  BY <1>1, <1>2, <1>3, <1>4, <1>5, <1>6 DEF TypeOK

(* A group of variables that a step leaves alone keeps its type. *)
LEMMA Frame ==
    /\ WireOK /\ UNCHANGED wireVars => WireOK'
    /\ ClientOK /\ UNCHANGED clientVars => ClientOK'
    /\ CloseOK /\ UNCHANGED closeVars => CloseOK'
    /\ MapOK /\ UNCHANGED mapVars => MapOK'
    /\ ReaderOK /\ UNCHANGED readerVars => ReaderOK'
    /\ ServiceOK /\ UNCHANGED serviceVars => ServiceOK'
    /\ DeviceOK /\ UNCHANGED deviceVars => DeviceOK'
BY DEF WireOK, ClientOK, CloseOK, MapOK, ReaderOK, ServiceOK, DeviceOK,
       wireVars, clientVars, closeVars, mapVars, readerVars, serviceVars, deviceVars

LEMMA PacketOK ==
    ASSUME NEW c \in Commands, NEW a0 \in Ids \cup {NoId}, NEW a1 \in Ids \cup {NoId}
    PROVE  Packet(c, a0, a1) \in Packets
BY DEF Packet, Packets

LEMMA PacketParts ==
    ASSUME NEW p \in Packets
    PROVE  p.cmd \in Commands /\ p.arg0 \in Ids \cup {NoId} /\ p.arg1 \in Ids \cup {NoId}
BY DEF Packets

(* The steps of the reader and of session.close keep the types. *)
LEMMA ReaderTypeOK == TypeOK /\ ReaderStep => TypeOK'
<1>. SUFFICES ASSUME TypeOK, ReaderStep PROVE TypeOK'
    OBVIOUS
<1>. USE Frame DEF TypeOK
<1>1. CASE ReadOpen
    <2>1. WireOK' /\ Head(toBridge).arg0 \in Ids \cup {NoId}
        BY <1>1, ArrivedOK, PacketParts DEF ReadOpen
    <2>2. ServiceOK' /\ MapOK'
        <3>1. PICK k \in OpenKinds : StartService(k, Head(toBridge).arg0,
                                         IF k = "run" THEN "opening" ELSE "handler")
            BY <1>1 DEF ReadOpen
        <3>2. k \in {"run", "local", "outbound"}
            BY SessionAssumption
        <3>3. (IF k = "run" THEN "opening" ELSE "handler") \in PcLabels
            BY DEF PcLabels
        <3>. QED  BY <2>1, <3>1, <3>2, <3>3, StartServiceOK
    <2>. QED  BY <1>1, <2>1, <2>2 DEF ReadOpen
<1>2. CASE ReadOkay
    <2>1. WireOK' /\ Head(toBridge).arg0 \in Ids \cup {NoId}
        BY <1>2, ArrivedOK, PacketParts DEF ReadOkay
    <2>2. ServiceOK'
        <3>1. CASE Head(toBridge).arg1 \in services
            <4>1. Ack(Head(toBridge).arg1, Head(toBridge).arg0) /\ UNCHANGED <<kind, pc, done, conn>>
                BY <1>2, <3>1 DEF ReadOkay
            <4>. QED  BY <2>1, <4>1 DEF Ack, ServiceOK
        <3>2. CASE Head(toBridge).arg1 \notin services
            BY <1>2, <3>2 DEF ReadOkay, ServiceOK
        <3>. QED  BY <3>1, <3>2
    <2>. QED  BY <1>2, <2>1, <2>2 DEF ReadOkay
<1>3. CASE ReadWrte
    <2>1. WireOK'
        BY <1>3, ArrivedOK DEF ReadWrte
    <2>2. ReaderOK'
        BY <1>3 DEF ReadWrte, ReaderOK, MapOK, Arrived
    <2>. QED  BY <1>3, <2>1, <2>2 DEF ReadWrte
<1>4. CASE WriteConn
    <2>1. rsvc \in Ids /\ ReaderOK'
        BY <1>4 DEF WriteConn, ReaderOK
    <2>2. DeviceOK'
        BY <1>4, <2>1, SessionAssumption DEF WriteConn, DeviceOK
    <2>. QED  BY <1>4, <2>1, <2>2 DEF WriteConn
<1>5. CASE WriteConnFails
    BY <1>5 DEF WriteConnFails, Exit, ReaderOK
<1>6. CASE WriteOkay
    <2>1. Packet("OKAY", rsvc, remoteID[rsvc]) \in Packets
        BY <1>6, PacketOK DEF WriteOkay, ReaderOK, ServiceOK, Commands
    <2>2. WireOK'
        BY <1>6, <2>1, SentOK DEF WriteOkay
    <2>3. ReaderOK'
        BY <1>6 DEF WriteOkay, ReaderOK
    <2>. QED  BY <1>6, <2>2, <2>3 DEF WriteOkay
<1>7. CASE WriteOkayFails
    <2>1. WireOK' /\ ReaderOK'
        BY <1>7, WriteFailsOK DEF WriteOkayFails, Exit, ReaderOK
    <2>. QED  BY <1>7, <2>1 DEF WriteOkayFails
<1>8. CASE ReadClse
    <2>1. WireOK'
        BY <1>8, ArrivedOK DEF ReadClse
    <2>2. ServiceOK' /\ DeviceOK'
        <3>1. CASE Head(toBridge).arg1 \in services
            <4>1. Head(toBridge).arg1 \in Ids /\ CloseService(Head(toBridge).arg1)
                BY <1>8, <3>1 DEF ReadClse, MapOK
            <4>2. UNCHANGED <<kind, remoteID, opened, ackCh>> /\ pc' \in [Ids -> PcLabels]
                BY <1>8 DEF ReadClse, ServiceOK
            <4>. QED  BY <4>1, <4>2, CloseServiceOK
        <3>2. CASE Head(toBridge).arg1 \notin services
            BY <1>8, <3>2 DEF ReadClse, serviceVars
        <3>. QED  BY <3>1, <3>2
    <2>. QED  BY <1>8, <2>1, <2>2 DEF ReadClse
<1>9. CASE ReadFails
    BY <1>9 DEF ReadFails, Exit, ReaderOK
<1>10. CASE ReaderClose
    <2>1. CloseOK' /\ ReaderOK'
        BY <1>10 DEF ReaderClose, BeginClose, CloseOK, ReaderOK, closeVars
    <2>. QED  BY <1>10, <2>1 DEF ReaderClose
<1>. QED
    BY <1>1, <1>2, <1>3, <1>4, <1>5, <1>6, <1>7, <1>8, <1>9, <1>10 DEF ReaderStep

LEMMA CloserTypeOK == TypeOK /\ (WatcherClose \/ CloserStep) => TypeOK'
<1>. SUFFICES ASSUME TypeOK, WatcherClose \/ CloserStep PROVE TypeOK'
    OBVIOUS
<1>. USE Frame DEF TypeOK
<1>1. CASE WatcherClose
    <2>1. CloseOK'
        BY <1>1 DEF WatcherClose, BeginClose, CloseOK
    <2>. QED  BY <1>1, <2>1 DEF WatcherClose
<1>2. CASE DrainServices
    <2>1. CloseOK' /\ MapOK'
        BY <1>2 DEF DrainServices, CloseOK, MapOK
    <2>2. WireOK'
        BY <1>2 DEF DrainServices, Writers, WireOK
    <2>. QED  BY <1>2, <2>1, <2>2 DEF DrainServices
<1>3. ASSUME NEW n \in Ids, CloseVictim(n) PROVE TypeOK'
    <2>1. CloseOK'
        BY <1>3 DEF CloseVictim, CloseOK
    <2>2. ServiceOK' /\ DeviceOK'
        BY <1>3, CloseServiceOK DEF CloseVictim, ServiceOK
    <2>. QED  BY <1>3, <2>1, <2>2 DEF CloseVictim
<1>4. CASE CloseConn
    <2>1. WireOK' /\ CloseOK'
        BY <1>4, FifoEmpty DEF CloseConn, WireOK, CloseOK
    <2>2. ReaderOK'
        BY <1>4 DEF CloseConn, ReaderOK
    <2>. QED  BY <1>4, <2>1, <2>2 DEF CloseConn
<1>. QED  BY <1>1, <1>2, <1>3, <1>4 DEF CloserStep

(* So do the steps of the service goroutines. *)
LEMMA ServiceTypeOK == ASSUME NEW n \in Ids PROVE TypeOK /\ ServiceStep(n) => TypeOK'
<1>. SUFFICES ASSUME TypeOK, ServiceStep(n) PROVE TypeOK'
    OBVIOUS
<1>. USE Frame DEF TypeOK
<1>1. CASE OpenDone(n)
    <2>1. ServiceOK'
        BY <1>1 DEF OpenDone, Goto, ServiceOK, PcLabels, OnlyMoves
    <2>. QED  BY <1>1, <2>1 DEF OpenDone, OnlyMoves
<1>2. CASE OpenFails(n)
    <2>1. ServiceOK'
        BY <1>2 DEF OpenFails, Goto, ServiceOK, PcLabels, OnlyMoves
    <2>. QED  BY <1>2, <2>1 DEF OpenFails, OnlyMoves
<1>3. CASE HandlerDone(n)
    <2>1. ServiceOK'
        BY <1>3 DEF HandlerDone, Goto, ServiceOK, PcLabels, OnlyMoves
    <2>. QED  BY <1>3, <2>1 DEF HandlerDone, OnlyMoves
<1>4. CASE SetConn(n)
    <2>1. ServiceOK'
        BY <1>4 DEF SetConn, Goto, ServiceOK, PcLabels, OnlyMoves
    <2>. QED  BY <1>4, <2>1 DEF SetConn, OnlyMoves
<1>5. CASE PumpEnds(n)
    <2>1. ServiceOK'
        BY <1>5 DEF PumpEnds, Goto, ServiceOK, PcLabels, OnlyMoves
    <2>. QED  BY <1>5, <2>1 DEF PumpEnds, OnlyMoves
<1>6. CASE TakeAck(n)
    <2>1. ServiceOK'
        BY <1>6 DEF TakeAck, Goto, ServiceOK, PcLabels, OnlyMoves
    <2>. QED  BY <1>6, <2>1 DEF TakeAck, OnlyMoves
<1>7. CASE WaitClosed(n)
    <2>1. ServiceOK'
        BY <1>7 DEF WaitClosed, Goto, ServiceOK, PcLabels, OnlyMoves
    <2>. QED  BY <1>7, <2>1 DEF WaitClosed, OnlyMoves
<1>8. CASE SendOkay(n)
    <2>1. Packet("OKAY", n, remoteID[n]) \in Packets
        BY PacketOK DEF ServiceOK, Commands, NoId
    <2>2. WireOK'
        BY <1>8, <2>1, SentOK, WriteFailsOK DEF SendOkay
    <2>3. ServiceOK'
        BY <1>8 DEF SendOkay, Goto, ServiceOK, PcLabels, OnlyMoves
    <2>. QED  BY <1>8, <2>2, <2>3 DEF SendOkay, OnlyMoves
<1>9. CASE SendOpen(n)
    <2>1. Packet("OPEN", n, NoId) \in Packets
        BY PacketOK DEF ServiceOK, Commands, NoId
    <2>2. WireOK'
        BY <1>9, <2>1, SentOK, WriteFailsOK DEF SendOpen
    <2>3. ServiceOK'
        BY <1>9 DEF SendOpen, Goto, ServiceOK, PcLabels, OnlyMoves
    <2>. QED  BY <1>9, <2>2, <2>3 DEF SendOpen, OnlyMoves
<1>10. CASE SendWrte(n)
    <2>1. Packet("WRTE", n, remoteID[n]) \in Packets
        BY PacketOK DEF ServiceOK, Commands, NoId
    <2>2. WireOK'
        BY <1>10, <2>1, SentOK, WriteFailsOK DEF SendWrte
    <2>3. ServiceOK'
        BY <1>10 DEF SendWrte, Goto, ServiceOK, PcLabels, OnlyMoves
    <2>. QED  BY <1>10, <2>2, <2>3 DEF SendWrte, OnlyMoves
<1>11. CASE FinishClse(n)
    <2>1. Packet("CLSE", IF opened[n] THEN n ELSE NoId, remoteID[n]) \in Packets
        BY PacketOK DEF ServiceOK, Commands, NoId
    <2>2. WireOK'
        BY <1>11, <2>1, SentOK, WriteFailsOK DEF FinishClse
    <2>3. ServiceOK'
        BY <1>11 DEF FinishClse, Goto, ServiceOK, PcLabels, OnlyMoves
    <2>. QED  BY <1>11, <2>2, <2>3 DEF FinishClse, OnlyMoves
<1>12. CASE PumpRead(n)
    <2>1. ServiceOK'
        BY <1>12 DEF PumpRead, Goto, ServiceOK, PcLabels, OnlyMoves
    <2>2. DeviceOK'
        BY <1>12, SessionAssumption DEF PumpRead, DeviceOK
    <2>. QED  BY <1>12, <2>1, <2>2 DEF PumpRead, OnlyMoves
<1>13. CASE FinishClose(n)
    <2>1. pc' \in [Ids -> PcLabels]
        BY <1>13 DEF FinishClose, Goto, ServiceOK, PcLabels
    <2>2. ServiceOK' /\ DeviceOK'
        BY <1>13, <2>1, CloseServiceOK DEF FinishClose
    <2>. QED  BY <1>13, <2>2 DEF FinishClose
<1>14. CASE FinishRemove(n)
    <2>1. MapOK' /\ ServiceOK'
        BY <1>14 DEF FinishRemove, Goto, MapOK, ServiceOK, PcLabels
    <2>. QED  BY <1>14, <2>1 DEF FinishRemove
<1>. QED
    BY <1>1, <1>2, <1>3, <1>4, <1>5, <1>6, <1>7, <1>8, <1>9, <1>10, <1>11, <1>12,
       <1>13, <1>14 DEF ServiceStep

LEMMA AcceptTypeOK == TypeOK /\ AcceptReverse => TypeOK'
<1>. SUFFICES ASSUME TypeOK, AcceptReverse PROVE TypeOK'
    OBVIOUS
<1>1. ServiceOK' /\ MapOK'
    BY StartServiceOK DEF TypeOK, AcceptReverse, PcLabels, NoId
<1>. QED  BY <1>1, Frame DEF TypeOK, AcceptReverse

(* And the steps of the client, of the device and of the context. *)
LEMMA ClientTypeOK == TypeOK /\ ClientStep => TypeOK'
<1>. SUFFICES ASSUME TypeOK, ClientStep PROVE TypeOK'
    OBVIOUS
<1>. USE Frame DEF TypeOK, ClientOnly
<1>1. CASE CliOpen
    <2>1. Packet("OPEN", nextRid, NoId) \in Packets
        BY <1>1, PacketOK DEF CliOpen, Commands
    <2>2. WireOK'
        BY <1>1, <2>1, ClientSendsOK DEF CliOpen
    <2>3. ClientOK'
        BY <1>1, SessionAssumption DEF CliOpen, ClientOK, Ids
    <2>. QED  BY <1>1, <2>2, <2>3 DEF CliOpen
<1>2. CASE RecvOkay
    <2>1. WireOK' /\ Head(toClient).arg0 \in Ids \cup {NoId}
        BY <1>2, ReceivedOK, PacketParts DEF RecvOkay
    <2>2. ClientOK'
        BY <1>2, <2>1 DEF RecvOkay, ClientOK
    <2>. QED  BY <1>2, <2>1, <2>2 DEF RecvOkay
<1>3. CASE RecvWrte
    <2>1. WireOK'
        BY <1>3, ReceivedOK DEF RecvWrte
    <2>2. ClientOK'
        BY <1>3 DEF RecvWrte, ClientOK
    <2>. QED  BY <1>3, <2>1, <2>2 DEF RecvWrte
<1>4. CASE RecvClse
    <2>1. WireOK'
        BY <1>4, ReceivedOK DEF RecvClse
    <2>2. ClientOK'
        BY <1>4 DEF RecvClse, ClientOK
    <2>. QED  BY <1>4, <2>1, <2>2 DEF RecvClse
<1>5. CASE RecvOpen
    <2>1. WireOK' /\ Head(toClient).arg0 \in Ids \cup {NoId}
        BY <1>5, ReceivedOK, PacketParts DEF RecvOpen
    <2>2. ClientOK'
        BY <1>5, <2>1, SessionAssumption DEF RecvOpen, ClientOK, Ids
    <2>. QED  BY <1>5, <2>1, <2>2 DEF RecvOpen
<1>6. CASE CliDrop \/ CliEof
    <2>1. WireOK'
        BY <1>6, FifoEmpty DEF CliDrop, CliEof, Leave, WireOK
    <2>2. ClientOK'
        BY <1>6 DEF CliDrop, CliEof, Leave, ClientOK
    <2>. QED  BY <1>6, <2>1, <2>2 DEF CliDrop, CliEof, Leave
<1>7. ASSUME NEW r \in Ids, ClientAnswers(r) \/ CliWrite(r) \/ CliAbandon(r) \/ CliClose(r)
      PROVE  TypeOK'
    <2>1. \A c \in Commands, a0 \in {r, NoId} : Packet(c, a0, cpeer[r]) \in Packets
        BY PacketOK DEF ClientOK
    <2>2. CASE CliAccept(r)
        <3>1. WireOK'
            BY <2>1, <2>2, ClientSendsOK DEF CliAccept, Commands
        <3>2. ClientOK'
            BY <2>2 DEF CliAccept, ClientOK
        <3>. QED  BY <2>2, <3>1, <3>2 DEF CliAccept
    <2>3. CASE CliRefuse(r)
        <3>1. WireOK'
            BY <2>1, <2>3, ClientSendsOK DEF CliRefuse, Commands
        <3>2. ClientOK'
            BY <2>3 DEF CliRefuse, ClientOK
        <3>. QED  BY <2>3, <3>1, <3>2 DEF CliRefuse
    <2>4. CASE CliAck(r)
        <3>1. WireOK'
            BY <2>1, <2>4, ClientSendsOK DEF CliAck, Commands
        <3>2. ClientOK'
            BY <2>4 DEF CliAck, ClientOK
        <3>. QED  BY <2>4, <3>1, <3>2 DEF CliAck
    <2>5. CASE CliWrite(r)
        <3>1. WireOK'
            BY <2>1, <2>5, ClientSendsOK DEF CliWrite, Commands
        <3>2. ClientOK'
            BY <2>5, SessionAssumption DEF CliWrite, ClientOK
        <3>. QED  BY <2>5, <3>1, <3>2 DEF CliWrite
    <2>6. CASE CliAbandon(r)
        <3>1. ClientOK'
            BY <2>6 DEF CliAbandon, ClientOK
        <3>. QED  BY <2>6, <3>1 DEF CliAbandon
    <2>7. CASE CliClose(r) \/ CliCloseBack(r)
        <3>1. WireOK'
            BY <2>1, <2>7, ClientSendsOK DEF CliClose, CliCloseBack, Closing, Commands
        <3>2. ClientOK'
            BY <2>7 DEF CliClose, CliCloseBack, Closing, ClientOK
        <3>. QED  BY <2>7, <3>1, <3>2 DEF CliClose, CliCloseBack, Closing
    <2>. QED  BY <1>7, <2>2, <2>3, <2>4, <2>5, <2>6, <2>7 DEF ClientAnswers
<1>. QED
    BY <1>1, <1>2, <1>3, <1>4, <1>5, <1>6, <1>7 DEF ClientStep, ClientReads

LEMMA DeviceTypeOK == ASSUME NEW n \in Ids PROVE TypeOK /\ DeviceStep(n) => TypeOK'
<1>. SUFFICES ASSUME TypeOK, DeviceStep(n) PROVE TypeOK'
    OBVIOUS
<1>. USE SessionAssumption
<1>1. DeviceOK'
    <2>1. CASE DevRead(n)
        BY <2>1 DEF TypeOK, DevRead, DeviceOK
    <2>2. CASE DevWrite(n)
        BY <2>2 DEF TypeOK, DevWrite, DeviceOK
    <2>3. CASE DevClose(n)
        BY <2>3 DEF TypeOK, DevClose, DeviceOK
    <2>. QED  BY <2>1, <2>2, <2>3 DEF DeviceStep
<1>. QED  BY <1>1, Frame DEF TypeOK, DeviceStep, DevRead, DevWrite, DevClose, DeviceOnly

LEMMA CancelTypeOK == TypeOK /\ Cancel => TypeOK'
<1>1. TypeOK /\ Cancel => CloseOK'
    BY DEF TypeOK, Cancel, CloseOK
<1>. QED  BY <1>1, Frame DEF TypeOK, Cancel

LEMMA StutterTypeOK == TypeOK /\ UNCHANGED vars => TypeOK'
BY Frame DEF TypeOK, vars

(* Type correctness of the session. *)
THEOREM TypeCorrect == Spec => []TypeOK
<1>1. Init => TypeOK
    BY InitTypeOK
<1>2. TypeOK /\ [Next]_vars => TypeOK'
    BY StutterTypeOK, ReaderTypeOK, CloserTypeOK, ServiceTypeOK, AcceptTypeOK,
       ClientTypeOK, DeviceTypeOK, CancelTypeOK DEF Next
<1>. QED  BY <1>1, <1>2, PTL DEF Spec
=============================================================================
