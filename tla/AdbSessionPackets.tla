--------------------------- MODULE AdbSessionPackets --------------------------
(***************************************************************************)
(* What the packets of a session may say: the two ends pair the same       *)
(* stream ids (Pairing), a CLSE is the last word on its stream but for an  *)
(* OKAY (OnlyOkayAfterClse), and a CLSE with local id 0 only refuses an    *)
(* OPEN the client still waits for (RefusalBeforeOpen).                    *)
(*                                                                         *)
(* The inductive invariant is PacketInv.  Its parts speak of the packets   *)
(* in a FIFO and of which one is before which, and the proofs first say    *)
(* what puts a packet into a FIFO and what teaches an id to either side.   *)
(***************************************************************************)
EXTENDS AdbSessionRelease

(* Packet p is before packet q in a FIFO. *)
Before(fifo, p, q) == \E i, j \in DOMAIN fifo : i < j /\ fifo[i] = p /\ fifo[j] = q

(* FIFO g is f with p appended; g is f without its head h. *)
Appended(f, g, p) ==
    /\ Range(g) = Range(f) \cup {p}
    /\ \A a, b \in Packets : Before(g, a, b) <=> Before(f, a, b) \/ (a \in Range(f) /\ b = p)
Took(f, g, h) ==
    /\ Range(f) = Range(g) \cup {h}
    /\ \A a, b \in Packets : Before(f, a, b) <=> Before(g, a, b) \/ (a = h /\ b \in Range(g))

LEMMA AppendEffect ==
    ASSUME NEW s \in Seq(Packets), NEW p \in Packets
    PROVE  Appended(s, Append(s, p), p)
<1>. DEFINE t == Append(s, p)
<1>1. /\ Len(t) = Len(s) + 1 /\ Len(s) \in Nat
      /\ DOMAIN t = 1 .. Len(t) /\ DOMAIN s = 1 .. Len(s)
      /\ \A i \in 1 .. Len(s) : t[i] = s[i]
      /\ t[Len(s) + 1] = p
    BY AppendProperties
<1>. HIDE DEF t
<1>2. Range(t) = Range(s) \cup {p}
    BY <1>1 DEF Range
<1>3. ASSUME NEW a, NEW b
      PROVE  Before(t, a, b) <=> Before(s, a, b) \/ (a \in Range(s) /\ b = p)
    <2>1. ASSUME Before(t, a, b)
          PROVE  Before(s, a, b) \/ (a \in Range(s) /\ b = p)
        <3>1. PICK i, j \in 1 .. Len(t) : i < j /\ t[i] = a /\ t[j] = b
            BY <1>1, <2>1 DEF Before
        <3>2. i \in 1 .. Len(s)
            BY <1>1, <3>1
        <3>. QED  BY <1>1, <3>1, <3>2 DEF Before, Range
    <2>2. Before(s, a, b) => Before(t, a, b)
        BY <1>1 DEF Before
    <2>3. a \in Range(s) /\ b = p => Before(t, a, b)
        BY <1>1 DEF Before, Range
    <2>. QED  BY <2>1, <2>2, <2>3
<1>. QED  BY <1>2, <1>3 DEF Appended, t

LEMMA TailEffect ==
    ASSUME NEW s \in Seq(Packets), s # <<>>
    PROVE  Took(s, Tail(s), Head(s))
<1>. DEFINE t == Tail(s)
<1>1. /\ Len(s) = Len(t) + 1 /\ Len(t) \in Nat
      /\ DOMAIN t = 1 .. Len(t) /\ DOMAIN s = 1 .. Len(s)
      /\ \A i \in 1 .. Len(t) : t[i] = s[i + 1]
      /\ Head(s) = s[1]
    BY HeadTailProperties
<1>. HIDE DEF t
<1>2. \A i \in 1 .. Len(s) : i = 1 \/ (i - 1 \in 1 .. Len(t) /\ s[i] = t[i - 1])
    BY <1>1
<1>3. Range(s) = Range(t) \cup {Head(s)}
    <2>1. ASSUME NEW i \in 1 .. Len(s) PROVE s[i] \in Range(t) \cup {Head(s)}
        <3>1. CASE i = 1
            BY <1>1, <3>1
        <3>2. CASE i # 1
            <4>1. i - 1 \in DOMAIN t /\ s[i] = t[i - 1]
                BY <1>1, <1>2, <3>2
            <4>. QED  BY <4>1 DEF Range
        <3>. QED  BY <3>1, <3>2
    <2>2. 1 \in 1 .. Len(s) /\ \A i \in 1 .. Len(t) : i + 1 \in 1 .. Len(s)
        BY <1>1
    <2>3. Range(t) \subseteq Range(s) /\ Head(s) \in Range(s)
        BY <1>1, <2>2 DEF Range
    <2>4. Range(s) = {s[i] : i \in 1 .. Len(s)}
        BY <1>1 DEF Range
    <2>. QED  BY <2>1, <2>3, <2>4
<1>4. ASSUME NEW a, NEW b
      PROVE  Before(s, a, b) <=> Before(t, a, b) \/ (a = Head(s) /\ b \in Range(t))
    <2>1. ASSUME Before(s, a, b)
          PROVE  Before(t, a, b) \/ (a = Head(s) /\ b \in Range(t))
        <3>1. PICK i, j \in 1 .. Len(s) : i < j /\ s[i] = a /\ s[j] = b
            BY <1>1, <2>1 DEF Before
        <3>2. j - 1 \in 1 .. Len(t) /\ t[j - 1] = b
            BY <1>2, <3>1
        <3>3. CASE i = 1
            BY <1>1, <3>1, <3>2, <3>3 DEF Range
        <3>4. CASE i # 1
            <4>1. i - 1 \in 1 .. Len(t) /\ t[i - 1] = a /\ i - 1 < j - 1
                BY <1>2, <3>1, <3>4
            <4>. QED  BY <1>1, <3>2, <4>1 DEF Before
        <3>. QED  BY <3>3, <3>4
    <2>2. ASSUME Before(t, a, b) PROVE Before(s, a, b)
        <3>1. PICK i, j \in 1 .. Len(t) : i < j /\ t[i] = a /\ t[j] = b
            BY <1>1, <2>2 DEF Before
        <3>2. /\ i + 1 \in 1 .. Len(s) /\ j + 1 \in 1 .. Len(s) /\ i + 1 < j + 1
              /\ s[i + 1] = a /\ s[j + 1] = b
            BY <1>1, <3>1
        <3>. QED  BY <1>1, <3>2 DEF Before
    <2>3. ASSUME a = Head(s), b \in Range(t) PROVE Before(s, a, b)
        <3>1. PICK j \in 1 .. Len(t) : t[j] = b
            BY <1>1, <2>3 DEF Range
        <3>2. /\ 1 \in 1 .. Len(s) /\ j + 1 \in 1 .. Len(s) /\ 1 < j + 1
              /\ s[1] = a /\ s[j + 1] = b
            BY <1>1, <2>3, <3>1
        <3>. QED  BY <1>1, <3>2 DEF Before
    <2>. QED  BY <2>1, <2>2, <2>3
<1>. QED  BY <1>3, <1>4 DEF Took, t

(* The two FIFOs under the operations of both ends. *)
LEMMA SentEffect ==
    ASSUME WireOK, NEW w, NEW p \in Packets, Sent(w, p)
    PROVE  /\ UNCHANGED <<toBridge, gone>>
           /\ IF gone THEN UNCHANGED toClient ELSE Appended(toClient, toClient', p)
BY AppendEffect DEF WireOK, Sent

LEMMA ClientSendsEffect ==
    ASSUME WireOK, NEW p \in Packets, ClientSends(p)
    PROVE  ~gone /\ connUp /\ UNCHANGED <<toClient, gone>> /\ Appended(toBridge, toBridge', p)
BY AppendEffect DEF WireOK, ClientSends

LEMMA ArrivedEffect ==
    ASSUME WireOK, NEW c, Arrived(c)
    PROVE  /\ Head(toBridge) \in Packets /\ Head(toBridge) \in Range(toBridge)
           /\ Head(toBridge).cmd = c
           /\ UNCHANGED <<toClient, gone>> /\ Took(toBridge, toBridge', Head(toBridge))
BY TailEffect, FifoTail DEF WireOK, Arrived, Took

LEMMA ReceivedEffect ==
    ASSUME WireOK, NEW c, Received(c)
    PROVE  /\ Head(toClient) \in Packets /\ Head(toClient) \in Range(toClient)
           /\ Head(toClient).cmd = c /\ ~gone
           /\ UNCHANGED <<toBridge, gone>> /\ Took(toClient, toClient', Head(toClient))
BY TailEffect, FifoTail DEF WireOK, Received, Took

LEMMA EmptyFifo == Range(<<>>) = {} /\ \A a, b : ~Before(<<>>, a, b)
BY DEF Range, Before

LEMMA RangePackets == ASSUME WireOK PROVE Range(toClient) \subseteq Packets /\ Range(toBridge) \subseteq Packets
BY DEF WireOK, Range

LEMMA SamePacket ==
    ASSUME NEW p \in Packets, NEW q \in Packets,
           p.cmd = q.cmd, p.arg0 = q.arg0, p.arg1 = q.arg1
    PROVE  p = q
BY DEF Packets

----------------------------------------------------------------------------
(* The stages of a service: what its goroutine's place says of its fields. *)
Stage(n) ==
    /\ n >= nextLocalID => kind[n] = "none" /\ remoteID[n] = NoId
    /\ (kind[n] = "none") <=> (pc[n] = "idle")
    /\ kind[n] \in {"run", "local"} => remoteID[n] # NoId
    /\ kind[n] \in {"none", "outbound"} => (opened[n] <=> remoteID[n] # NoId)
    /\ ackCh[n] => opened[n]
    /\ pc[n] \in {"setconn", "dial"} => ~opened[n]
    /\ pc[n] \in {"setconn", "dial", "waitopen"} => kind[n] = "outbound"
    /\ pc[n] \in {"opening", "handler", "okay"} => kind[n] \in {"run", "local"}
    /\ pc[n] \in {"okay", "read", "wrte", "wait"} => opened[n]
    /\ pc[n] = "clse" => remoteID[n] # NoId
    /\ pc[n] \in {"clse", "done"} => n \notin services
StageInv == \A n \in Ids : Stage(n)

(* The client has used no id from nextRid on, and nobody has heard of one. *)
FreshInv ==
    \A r \in Ids : r >= nextRid =>
        /\ cpeer[r] = NoId
        /\ \A n \in Ids : remoteID[n] # r
        /\ \A p \in Range(toBridge) : p.arg0 # r

(* The ids of the two ends are paired one to one, as far as they are known. *)
OwnInv ==
    /\ \A m, n \in Ids : remoteID[m] = remoteID[n] => m = n \/ remoteID[m] = NoId
    /\ \A r, n \in Ids : cpeer[r] = n => remoteID[n] \in {NoId, r}
    /\ \A r, n \in Ids : remoteID[n] = r => cpeer[r] \in {NoId, n}
    /\ \A r, s \in Ids : cpeer[r] = cpeer[s] => r = s \/ cpeer[r] = NoId
    /\ \A r \in Ids : cst[r] \in {"accepting", "open", "closing"} => cpeer[r] # NoId

(* An OPEN on its way to the bridge is the only word of its stream. *)
OpenToBridge(p) ==
    /\ p.arg0 \in Ids /\ p.arg1 = NoId
    /\ cpeer[p.arg0] = NoId
    /\ \A n \in Ids : remoteID[n] # p.arg0
    /\ gone \/ cst[p.arg0] \in {"opening", "abandoned"}
    /\ ~Before(toBridge, p, p)

(* Any other packet to the bridge is sent by a stream to its peer; a CLSE
   that refuses an OPEN of the bridge has no stream id of the client's. *)
OtherToBridge(p) ==
    /\ p.arg1 \in Ids
    /\ \/ p.cmd = "CLSE" /\ p.arg0 = NoId
       \/ p.arg0 \in Ids /\ cpeer[p.arg0] = p.arg1

(* An OPEN on its way to the client is the only word of its service. *)
OpenToClient(p) ==
    /\ p.arg0 \in Ids /\ p.arg1 = NoId
    /\ remoteID[p.arg0] = NoId
    /\ \A r \in Ids : cpeer[r] # p.arg0
    /\ ~Before(toClient, p, p)

(* Any other packet to the client is sent by a service to its remote id, and
   a CLSE is the last one; handleWrite may answer a service without one. *)
OtherToClient(p) ==
    \/ p.cmd = "OKAY" /\ p.arg1 = NoId
    \/ /\ p.arg1 \in Ids
       /\ \E n \in Ids :
             /\ remoteID[n] = p.arg1
             /\ p.cmd # "CLSE" => p.arg0 = n
             /\ p.cmd = "CLSE" => pc[n] = "done" /\ p.arg0 = (IF opened[n] THEN n ELSE NoId)

WireInv ==
    /\ \A p \in Range(toBridge) : IF p.cmd = "OPEN" THEN OpenToBridge(p) ELSE OtherToBridge(p)
    /\ \A p \in Range(toClient) : IF p.cmd = "OPEN" THEN OpenToClient(p) ELSE OtherToClient(p)

(* The client or the reader works with a service only if it was opened, or if
   the bridge opens the stream. *)
Greeted(n) == n # NoId => opened[n] \/ kind[n] = "outbound"
GreetInv ==
    /\ \A p \in Range(toClient) : Greeted(p.arg0)
    /\ \A p \in Range(toBridge) : p.cmd # "OPEN" => Greeted(p.arg1)
    /\ \A r \in Ids : Greeted(cpeer[r])
    /\ Greeted(rsvc)

(* No CLSE follows a CLSE of the same stream, nor does anything but an OKAY. *)
ClseInv ==
    \A p, q \in Packets :
        p.cmd = "CLSE" /\ Before(toClient, p, q) /\ p.arg1 = q.arg1 => q.cmd = "OKAY"

(* As long as a service that was not opened may still refuse the client's
   OPEN, the client waits for the answer. *)
Refusal(r) == Packet("CLSE", NoId, r)
RefuseInv ==
    \A n \in Ids :
        ~gone /\ remoteID[n] # NoId /\ ~opened[n]
              /\ (pc[n] # "done" \/ Refusal(remoteID[n]) \in Range(toClient))
            => cst[remoteID[n]] \in {"opening", "abandoned"}

PacketInv ==
    StageInv /\ FreshInv /\ OwnInv /\ WireInv /\ GreetInv /\ ClseInv /\ RefuseInv

----------------------------------------------------------------------------
(* Which group of actions leaves what alone. *)
LEMMA ClientFrame ==
    ClientStep => UNCHANGED <<closeVars, mapVars, readerVars, serviceVars>>
BY DEF ClientStep, ClientReads, ClientAnswers, CliOpen, RecvOkay, RecvWrte, RecvClse, RecvOpen,
   CliEof, CliDrop, Leave, CliAccept, CliRefuse, CliAck, CliCloseBack, CliWrite, CliAbandon,
   CliClose, Closing, ClientOnly

LEMMA ServiceFrame ==
    \A n \in Ids : ServiceStep(n) =>
        UNCHANGED <<toBridge, gone, clientVars, closeVars, readerVars, nextLocalID, kind, remoteID>>
BY DEF ServiceStep, OpenDone, OpenFails, HandlerDone, SendOkay, SetConn, SendOpen, PumpRead,
   PumpEnds, SendWrte, TakeAck, WaitClosed, FinishClose, FinishRemove, FinishClse, OnlyMoves,
   Sent, WriteFails, wireVars, clientVars, closeVars, mapVars, readerVars

LEMMA ReaderFrame ==
    /\ ReaderStep => UNCHANGED <<clientVars, gone>>
    /\ ReaderStep /\ ~WriteOkay => UNCHANGED toClient
    /\ ReaderStep /\ ~ReadOpen => UNCHANGED <<mapVars, kind, pc>>
    /\ ReaderStep /\ ~ReadOpen /\ ~ReadOkay => UNCHANGED <<remoteID, opened, ackCh>>
<1>. USE DEF ReadOpen, ReadOkay, ReadWrte, WriteConn, WriteConnFails, WriteOkay,
     WriteOkayFails, ReadClse, ReadFails, ReaderClose, Arrived, Sent, WriteFails, wireVars,
     clientVars, mapVars, serviceVars
<1>1. ReaderStep => UNCHANGED <<clientVars, gone>>
    BY DEF ReaderStep
<1>2. ReaderStep /\ ~WriteOkay => UNCHANGED toClient
    BY DEF ReaderStep
<1>3. ReaderStep /\ ~ReadOpen => UNCHANGED <<mapVars, kind, pc>>
    BY DEF ReaderStep
<1>4. ReaderStep /\ ~ReadOpen /\ ~ReadOkay => UNCHANGED <<remoteID, opened, ackCh>>
    BY DEF ReaderStep
<1>. QED  BY <1>1, <1>2, <1>3, <1>4

(* The steps that no packet and no stream id depends on. *)
Background ==
    \/ WatcherClose \/ Cancel
    \/ \E n \in Ids : CloseVictim(n) \/ DeviceStep(n)
LEMMA BackgroundFrame ==
    Background => UNCHANGED <<wireVars, clientVars, mapVars, readerVars, kind, pc, remoteID,
                              opened, ackCh>>
BY DEF Background, WatcherClose, Cancel, CloseVictim, DeviceStep, DevRead, DevWrite, DevClose,
   DeviceOnly, serviceVars, mapVars

LEMMA DrainFrame ==
    /\ DrainServices => /\ UNCHANGED <<toClient, toBridge, gone, clientVars, nextLocalID, readerVars, serviceVars>>
                        /\ services' = {}
    /\ CloseConn => /\ UNCHANGED <<toClient, gone, clientVars, mapVars, rsvc, serviceVars>>
                    /\ toBridge' = <<>> /\ ~connUp'
    /\ AcceptReverse => UNCHANGED <<wireVars, clientVars, closeVars, readerVars>>
BY DEF DrainServices, CloseConn, AcceptReverse

LEMMA NextCases ==
    Next => \/ ReaderStep \/ AcceptReverse \/ ClientStep \/ Background
            \/ DrainServices \/ CloseConn
            \/ \E n \in Ids : ServiceStep(n)
BY DEF Next, CloserStep, Background

----------------------------------------------------------------------------
(* What puts a packet into a FIFO, and what else happens to the FIFOs. *)
BridgeSends(p) ==
    \/ WriteOkay /\ p = Packet("OKAY", rsvc, remoteID[rsvc])
    \/ \E n \in Ids :
          \/ SendOkay(n) /\ p = Packet("OKAY", n, remoteID[n])
          \/ SendOpen(n) /\ p = Packet("OPEN", n, NoId)
          \/ SendWrte(n) /\ remoteID[n] # NoId /\ p = Packet("WRTE", n, remoteID[n])
          \/ FinishClse(n) /\ p = Packet("CLSE", IF opened[n] THEN n ELSE NoId, remoteID[n])

(* The handlers that take a packet out of a FIFO. *)
ClientTakes(c) == Received(c) /\ (RecvOkay \/ RecvWrte \/ RecvClse \/ RecvOpen)
ReaderTakes(c) == Arrived(c) /\ (ReadOpen \/ ReadOkay \/ ReadWrte \/ ReadClse)

LEMMA ToClientStep ==
    ASSUME TypeOK, Next
    PROVE  \/ UNCHANGED toClient
           \/ toClient' = <<>> /\ gone'
           \/ \E c \in Commands : ClientTakes(c)
           \/ /\ ~gone
              /\ \E p \in Packets : BridgeSends(p) /\ Appended(toClient, toClient', p)
<1>. USE DEF TypeOK
<1>. DEFINE Goal == \/ UNCHANGED toClient
                    \/ toClient' = <<>> /\ gone'
                    \/ \E c \in Commands : ClientTakes(c)
                    \/ /\ ~gone
                       /\ \E p \in Packets : BridgeSends(p) /\ Appended(toClient, toClient', p)
<1>1. ASSUME NEW w, NEW p \in Packets, Sent(w, p), BridgeSends(p) PROVE Goal
    BY <1>1, SentEffect
<1>2. CASE WriteOkay
    <2>1. /\ Packet("OKAY", rsvc, remoteID[rsvc]) \in Packets
          /\ Sent(NoId, Packet("OKAY", rsvc, remoteID[rsvc]))
        BY <1>2, PacketOK DEF WriteOkay, ReaderOK, ServiceOK, Commands
    <2>. QED  BY <1>1, <1>2, <2>1 DEF BridgeSends
<1>3. CASE ReaderStep /\ ~WriteOkay
    BY <1>3, ReaderFrame
<1>4. ASSUME NEW n \in Ids, ServiceStep(n) PROVE Goal
    <2>. DEFINE a0 == IF opened[n] THEN n ELSE NoId
    <2>1. /\ Packet("OKAY", n, remoteID[n]) \in Packets
          /\ Packet("OPEN", n, NoId) \in Packets
          /\ Packet("WRTE", n, remoteID[n]) \in Packets
          /\ Packet("CLSE", a0, remoteID[n]) \in Packets
        BY PacketOK DEF ServiceOK, Commands
    <2>2. CASE SendOkay(n)
        <3>1. Sent(n, Packet("OKAY", n, remoteID[n])) \/ UNCHANGED toClient
            BY <2>2 DEF SendOkay, WriteFails, wireVars
        <3>2. BridgeSends(Packet("OKAY", n, remoteID[n]))
            BY <2>2 DEF BridgeSends
        <3>. QED  BY <1>1, <2>1, <3>1, <3>2
    <2>3. CASE SendOpen(n)
        <3>1. Sent(n, Packet("OPEN", n, NoId)) \/ UNCHANGED toClient
            BY <2>3 DEF SendOpen, WriteFails, wireVars
        <3>2. BridgeSends(Packet("OPEN", n, NoId))
            BY <2>3 DEF BridgeSends
        <3>. QED  BY <1>1, <2>1, <3>1, <3>2
    <2>4. CASE SendWrte(n)
        <3>1. (remoteID[n] # NoId /\ Sent(n, Packet("WRTE", n, remoteID[n]))) \/ UNCHANGED toClient
            BY <2>4 DEF SendWrte, WriteFails, wireVars
        <3>2. remoteID[n] # NoId => BridgeSends(Packet("WRTE", n, remoteID[n]))
            BY <2>4 DEF BridgeSends
        <3>. QED  BY <1>1, <2>1, <3>1, <3>2
    <2>5. CASE FinishClse(n)
        <3>1. Sent(n, Packet("CLSE", a0, remoteID[n])) \/ UNCHANGED toClient
            BY <2>5 DEF FinishClse, WriteFails, wireVars
        <3>2. BridgeSends(Packet("CLSE", a0, remoteID[n]))
            BY <2>5 DEF BridgeSends
        <3>. QED  BY <1>1, <2>1, <3>1, <3>2
    <2>6. CASE ~(SendOkay(n) \/ SendOpen(n) \/ SendWrte(n) \/ FinishClse(n))
        BY <1>4, <2>6 DEF ServiceStep, OpenDone, OpenFails, HandlerDone, SetConn, PumpRead,
           PumpEnds, TakeAck, WaitClosed, FinishClose, FinishRemove, wireVars
    <2>. QED  BY <2>2, <2>3, <2>4, <2>5, <2>6
<1>5. CASE ClientStep
    <2>1. CASE RecvOkay \/ RecvWrte \/ RecvClse \/ RecvOpen
        <3>1. \E c \in Commands : Received(c)
            BY <2>1 DEF RecvOkay, RecvWrte, RecvClse, RecvOpen, Commands
        <3>. QED  BY <2>1, <3>1 DEF ClientTakes
    <2>2. CASE ~(RecvOkay \/ RecvWrte \/ RecvClse \/ RecvOpen)
        BY <1>5, <2>2 DEF ClientStep, ClientReads, ClientAnswers, CliOpen, CliEof, CliDrop, Leave,
           CliAccept, CliRefuse, CliAck, CliCloseBack, CliWrite, CliAbandon, CliClose, Closing,
           ClientSends, wireVars
    <2>. QED  BY <2>1, <2>2
<1>6. CASE Background \/ DrainServices \/ CloseConn \/ AcceptReverse
    BY <1>6, BackgroundFrame, DrainFrame DEF wireVars
<1>. QED  BY <1>2, <1>3, <1>4, <1>5, <1>6, NextCases

CliSends(p) ==
    \/ CliOpen /\ p = Packet("OPEN", nextRid, NoId)
    \/ \E r \in Ids :
          \/ (CliAccept(r) \/ CliAck(r)) /\ p = Packet("OKAY", r, cpeer[r])
          \/ CliWrite(r) /\ p = Packet("WRTE", r, cpeer[r])
          \/ CliRefuse(r) /\ p = Packet("CLSE", NoId, cpeer[r])
          \/ (CliClose(r) \/ CliCloseBack(r)) /\ p = Packet("CLSE", r, cpeer[r])

LEMMA ToBridgeStep ==
    ASSUME TypeOK, Next
    PROVE  \/ UNCHANGED toBridge
           \/ toBridge' = <<>> /\ ~connUp'
           \/ \E c \in Commands : ReaderTakes(c)
           \/ /\ ~gone
              /\ \E p \in Packets : /\ CliSends(p) /\ Appended(toBridge, toBridge', p)
                                    /\ toBridge' = Append(toBridge, p)
<1>. USE DEF TypeOK
<1>. DEFINE Goal == \/ UNCHANGED toBridge
                    \/ toBridge' = <<>> /\ ~connUp'
                    \/ \E c \in Commands : ReaderTakes(c)
                    \/ /\ ~gone
                       /\ \E p \in Packets : /\ CliSends(p) /\ Appended(toBridge, toBridge', p)
                                             /\ toBridge' = Append(toBridge, p)
<1>1. ASSUME NEW p \in Packets, ClientSends(p), CliSends(p) PROVE Goal
    BY <1>1, ClientSendsEffect DEF ClientSends
<1>2. CASE CliOpen
    <2>1. Packet("OPEN", nextRid, NoId) \in Packets
        BY <1>2, PacketOK DEF CliOpen, Commands
    <2>. QED  BY <1>1, <1>2, <2>1 DEF CliOpen, CliSends
<1>3. ASSUME NEW r \in Ids, ClientAnswers(r) \/ CliWrite(r) \/ CliAbandon(r) \/ CliClose(r)
      PROVE  Goal
    <2>1. /\ Packet("OKAY", r, cpeer[r]) \in Packets /\ Packet("WRTE", r, cpeer[r]) \in Packets
          /\ Packet("CLSE", NoId, cpeer[r]) \in Packets /\ Packet("CLSE", r, cpeer[r]) \in Packets
        BY PacketOK DEF ClientOK, Commands
    <2>2. CASE CliAccept(r) \/ CliAck(r)
        <3>1. ClientSends(Packet("OKAY", r, cpeer[r])) /\ CliSends(Packet("OKAY", r, cpeer[r]))
            BY <2>2 DEF CliAccept, CliAck, CliSends
        <3>. QED  BY <1>1, <2>1, <3>1
    <2>3. CASE CliWrite(r)
        <3>1. ClientSends(Packet("WRTE", r, cpeer[r])) /\ CliSends(Packet("WRTE", r, cpeer[r]))
            BY <2>3 DEF CliWrite, CliSends
        <3>. QED  BY <1>1, <2>1, <3>1
    <2>4. CASE CliRefuse(r)
        <3>1. ClientSends(Packet("CLSE", NoId, cpeer[r])) /\ CliSends(Packet("CLSE", NoId, cpeer[r]))
            BY <2>4 DEF CliRefuse, CliSends
        <3>. QED  BY <1>1, <2>1, <3>1
    <2>5. CASE CliClose(r) \/ CliCloseBack(r)
        <3>1. ClientSends(Packet("CLSE", r, cpeer[r])) /\ CliSends(Packet("CLSE", r, cpeer[r]))
            BY <2>5 DEF CliClose, CliCloseBack, Closing, CliSends
        <3>. QED  BY <1>1, <2>1, <3>1
    <2>6. CASE CliAbandon(r)
        BY <2>6 DEF CliAbandon, wireVars
    <2>. QED  BY <1>3, <2>2, <2>3, <2>4, <2>5, <2>6 DEF ClientAnswers
<1>4. CASE ClientReads \/ CliDrop
    BY <1>4 DEF ClientReads, RecvOkay, RecvWrte, RecvClse, RecvOpen, Received, CliEof, CliDrop,
       Leave
<1>5. CASE ReaderStep
    <2>1. CASE ReadOpen \/ ReadOkay \/ ReadWrte \/ ReadClse
        <3>1. \E c \in Commands : Arrived(c)
            BY <2>1 DEF ReadOpen, ReadOkay, ReadWrte, ReadClse, Commands
        <3>. QED  BY <2>1, <3>1 DEF ReaderTakes
    <2>2. CASE ~(ReadOpen \/ ReadOkay \/ ReadWrte \/ ReadClse)
        BY <1>5, <2>2 DEF ReaderStep, WriteConn, WriteConnFails, WriteOkay, WriteOkayFails,
           ReadFails, ReaderClose, Sent, WriteFails, wireVars
    <2>. QED  BY <2>1, <2>2
<1>6. CASE Background \/ DrainServices \/ CloseConn \/ AcceptReverse
    BY <1>6, BackgroundFrame, DrainFrame DEF wireVars
<1>7. ASSUME NEW n \in Ids, ServiceStep(n) PROVE Goal
    BY <1>7, ServiceFrame
<1>. QED  BY <1>2, <1>3, <1>4, <1>5, <1>6, <1>7, NextCases DEF ClientStep

(* What teaches the bridge a stream id of the client's ... *)
LEMMA LearnRemote ==
    ASSUME TypeOK, Next, NEW n \in Ids
    PROVE  \/ remoteID'[n] = remoteID[n]
           \/ ReadOpen /\ n = nextLocalID /\ remoteID'[n] = Head(toBridge).arg0
           \/ AcceptReverse /\ n = nextLocalID /\ remoteID'[n] = NoId
           \/ /\ ReadOkay /\ n \in services /\ n = Head(toBridge).arg1
              /\ remoteID[n] = NoId /\ remoteID'[n] = Head(toBridge).arg0
<1>. USE DEF TypeOK, ServiceOK
<1>1. CASE ReadOpen
    BY <1>1 DEF ReadOpen, StartService
<1>2. CASE AcceptReverse
    BY <1>2 DEF AcceptReverse, StartService
<1>3. CASE ReadOkay
    BY <1>3 DEF ReadOkay, Ack
<1>4. CASE UNCHANGED remoteID
    BY <1>4
<1>5. CASE ReaderStep /\ ~ReadOpen /\ ~ReadOkay
    BY <1>4, <1>5, ReaderFrame
<1>6. CASE ClientStep \/ Background \/ DrainServices \/ CloseConn
    BY <1>4, <1>6, ClientFrame, BackgroundFrame, DrainFrame DEF serviceVars
<1>7. ASSUME NEW m \in Ids, ServiceStep(m) PROVE UNCHANGED remoteID
    BY <1>7, ServiceFrame
<1>. QED  BY <1>1, <1>2, <1>3, <1>4, <1>5, <1>6, <1>7, NextCases

(* ... and what teaches the client a stream id of the bridge's. *)
LEMMA LearnPeer ==
    ASSUME TypeOK, Next, NEW r \in Ids
    PROVE  \/ cpeer'[r] = cpeer[r]
           \/ RecvOpen /\ r = nextRid /\ cpeer'[r] = Head(toClient).arg0
           \/ /\ RecvOkay /\ r = Head(toClient).arg1
              /\ cpeer[r] = NoId /\ cpeer'[r] = Head(toClient).arg0
<1>. USE DEF TypeOK, ClientOK
<1>1. CASE RecvOpen
    BY <1>1 DEF RecvOpen
<1>2. CASE RecvOkay
    BY <1>2 DEF RecvOkay
<1>3. CASE UNCHANGED cpeer
    BY <1>3
<1>4. CASE ClientStep /\ ~RecvOpen /\ ~RecvOkay
    BY <1>3, <1>4 DEF ClientStep, ClientReads, ClientAnswers, CliOpen, RecvWrte, RecvClse,
       CliEof, CliDrop, Leave, CliAccept, CliRefuse, CliAck, CliCloseBack, CliWrite,
       CliAbandon, CliClose, Closing
<1>5. CASE ReaderStep \/ AcceptReverse \/ Background \/ DrainServices \/ CloseConn
    BY <1>3, <1>5, ReaderFrame, BackgroundFrame, DrainFrame DEF clientVars
<1>6. ASSUME NEW m \in Ids, ServiceStep(m) PROVE UNCHANGED cpeer
    BY <1>6, ServiceFrame DEF clientVars
<1>. QED  BY <1>1, <1>2, <1>3, <1>4, <1>5, <1>6, NextCases

(* How a stream of the client moves on. *)
LEMMA ClientMoves ==
    ASSUME TypeOK, Next, NEW r \in Ids
    PROVE  \/ cst'[r] = cst[r]
           \/ ~gone /\ gone' /\ cst'[r] = "closed"
           \/ CliOpen /\ r = nextRid /\ cst'[r] = "opening"
           \/ RecvOpen /\ r = nextRid /\ cst'[r] = "accepting"
           \/ CliAbandon(r) /\ cst[r] = "opening" /\ cst'[r] = "abandoned"
           \/ CliAccept(r) /\ cst[r] = "accepting" /\ cst'[r] = "open"
           \/ CliRefuse(r) /\ cst[r] = "accepting" /\ cst'[r] = "closed"
           \/ (CliClose(r) \/ CliCloseBack(r)) /\ cst[r] \in {"open", "closing"} /\ cst'[r] = "closed"
           \/ /\ RecvOkay /\ r = Head(toClient).arg1
              /\ \/ cst[r] = "opening" /\ cst'[r] = "open"
                 \/ cst[r] = "abandoned" /\ cst'[r] = "closing"
           \/ /\ RecvClse /\ r = Head(toClient).arg1
              /\ cst'[r] = IF cst[r] = "open" THEN "closing" ELSE "closed"
<1>. USE DEF TypeOK, ClientOK
<1>1. CASE UNCHANGED cst
    BY <1>1
<1>2. CASE CliOpen \/ RecvOpen
    BY <1>2 DEF CliOpen, RecvOpen
<1>3. CASE RecvOkay
    BY <1>3 DEF RecvOkay
<1>4. CASE RecvClse
    BY <1>4 DEF RecvClse
<1>5. CASE RecvWrte
    BY <1>1, <1>5 DEF RecvWrte
<1>6. CASE CliEof \/ CliDrop
    BY <1>6 DEF CliEof, CliDrop, Leave
<1>7. ASSUME NEW s \in Ids, ClientAnswers(s) \/ CliWrite(s) \/ CliAbandon(s) \/ CliClose(s),
             cst'[r] # cst[r]
      PROVE  \/ CliAbandon(r) /\ cst[r] = "opening" /\ cst'[r] = "abandoned"
             \/ CliAccept(r) /\ cst[r] = "accepting" /\ cst'[r] = "open"
             \/ CliRefuse(r) /\ cst[r] = "accepting" /\ cst'[r] = "closed"
             \/ (CliClose(r) \/ CliCloseBack(r)) /\ cst[r] \in {"open", "closing"} /\ cst'[r] = "closed"
    <2>1. s = r
        BY <1>7 DEF ClientAnswers, CliAccept, CliRefuse, CliAck, CliCloseBack, CliWrite,
           CliAbandon, CliClose, Closing
    <2>. QED
        BY <1>7, <2>1 DEF ClientAnswers, CliAccept, CliRefuse, CliAck, CliCloseBack, CliWrite,
           CliAbandon, CliClose, Closing
<1>8. CASE ReaderStep \/ AcceptReverse \/ Background \/ DrainServices \/ CloseConn
    BY <1>1, <1>8, ReaderFrame, BackgroundFrame, DrainFrame DEF clientVars
<1>9. ASSUME NEW m \in Ids, ServiceStep(m) PROVE UNCHANGED cst
    BY <1>9, ServiceFrame DEF clientVars
<1>. QED
    BY <1>1, <1>2, <1>3, <1>4, <1>5, <1>6, <1>7, <1>8, <1>9, NextCases DEF ClientStep, ClientReads

LEMMA NextRid ==
    ASSUME TypeOK, Next
    PROVE  \/ UNCHANGED nextRid
           \/ (CliOpen \/ RecvOpen) /\ nextRid \in Ids /\ nextRid' = nextRid + 1
<1>1. CASE ClientStep
    BY <1>1 DEF ClientStep, ClientReads, ClientAnswers, CliOpen, RecvOkay, RecvWrte, RecvClse,
       RecvOpen, CliEof, CliDrop, Leave, CliAccept, CliRefuse, CliAck, CliCloseBack, CliWrite,
       CliAbandon, CliClose, Closing
<1>2. CASE ReaderStep \/ AcceptReverse \/ Background \/ DrainServices \/ CloseConn
    BY <1>2, ReaderFrame, BackgroundFrame, DrainFrame DEF clientVars
<1>3. ASSUME NEW m \in Ids, ServiceStep(m) PROVE UNCHANGED nextRid
    BY <1>3, ServiceFrame DEF clientVars
<1>. QED  BY <1>1, <1>2, <1>3, NextCases

----------------------------------------------------------------------------
(* The stages are kept. *)
Same(m) ==
    /\ kind'[m] = kind[m] /\ pc'[m] = pc[m] /\ remoteID'[m] = remoteID[m]
    /\ opened'[m] = opened[m] /\ ackCh'[m] = ackCh[m]
    /\ nextLocalID' \in {nextLocalID, nextLocalID + 1}

LEMMA StageSame ==
    ASSUME TypeOK, IdsInv, StageInv, NEW m \in Ids, Same(m),
           m \in services' => m \in services \/ pc[m] = "idle"
    PROVE  Stage(m)'
<1>1. Stage(m)
    BY DEF StageInv
<1>2. m >= nextLocalID' => m >= nextLocalID
    BY DEF Same, TypeOK, MapOK, Ids
<1>. QED  BY <1>1, <1>2 DEF Same, Stage

(* A service step moves its own service only. *)
LEMMA ServiceSame ==
    ASSUME TypeOK, NEW n \in Ids, ServiceStep(n), NEW m \in Ids \ {n}
    PROVE  Same(m) /\ services' \subseteq services
<1>. USE DEF TypeOK, ServiceOK, MapOK
<1>1. UNCHANGED <<nextLocalID, kind, remoteID>>
    BY ServiceFrame
<1>2. pc'[m] = pc[m]
    BY DEF ServiceStep, OpenDone, OpenFails, HandlerDone, SendOkay, SetConn, SendOpen, PumpRead,
       PumpEnds, SendWrte, TakeAck, WaitClosed, FinishClose, FinishRemove, FinishClse, Goto
<1>3. opened'[m] = opened[m] /\ ackCh'[m] = ackCh[m]
    BY DEF ServiceStep, OpenDone, OpenFails, HandlerDone, SendOkay, SetConn, SendOpen, PumpRead,
       PumpEnds, SendWrte, TakeAck, WaitClosed, FinishClose, FinishRemove, FinishClse
<1>4. services' \subseteq services
    BY DEF ServiceStep, OpenDone, OpenFails, HandlerDone, SendOkay, SetConn, SendOpen, PumpRead,
       PumpEnds, SendWrte, TakeAck, WaitClosed, FinishClose, FinishRemove, FinishClse, OnlyMoves,
       mapVars
<1>. QED  BY <1>1, <1>2, <1>3, <1>4 DEF Same

LEMMA StageStart ==
    ASSUME TypeOK, IdsInv, StageInv, NEW k \in {"run", "local", "outbound"},
           NEW r \in Ids \cup {NoId}, (r = NoId) <=> (k = "outbound"),
           StartService(k, r, IF k = "run" THEN "opening"
                              ELSE IF k = "local" THEN "handler" ELSE "setconn")
    PROVE  StageInv'
<1>. USE DEF TypeOK, ServiceOK, MapOK
<1>1. PICK new \in Ids :
      /\ new = nextLocalID /\ nextLocalID' = nextLocalID + 1 /\ services' = services \cup {new}
      /\ kind' = [kind EXCEPT ![new] = k] /\ remoteID' = [remoteID EXCEPT ![new] = r]
      /\ pc' = [pc EXCEPT ![new] = IF k = "run" THEN "opening"
                                   ELSE IF k = "local" THEN "handler" ELSE "setconn"]
      /\ UNCHANGED <<opened, ackCh>>
    BY DEF StartService, AllocateLocalID, PutService, Goto, Ids
<1>2. ~opened[new] /\ ~ackCh[new]
    BY <1>1 DEF StageInv, Stage, Ids
<1>3. Stage(new)'
    <2>1. /\ kind'[new] = k /\ remoteID'[new] = r /\ ~opened'[new] /\ ~ackCh'[new]
          /\ pc'[new] = IF k = "run" THEN "opening"
                       ELSE IF k = "local" THEN "handler" ELSE "setconn"
          /\ ~(new >= nextLocalID')
        BY <1>1, <1>2 DEF Ids
    <2>. QED  BY <2>1 DEF Stage
<1>4. ASSUME NEW m \in Ids, m # new PROVE Stage(m)'
    <2>1. Same(m) /\ (m \in services' => m \in services)
        BY <1>1, <1>4 DEF Same
    <2>. QED  BY <2>1, StageSame
<1>. QED  BY <1>3, <1>4 DEF StageInv

LEMMA StageService ==
    ASSUME TypeOK, IdsInv, StageInv, NEW n \in Ids, ServiceStep(n)
    PROVE  StageInv'
<1>. USE DEF TypeOK, ServiceOK, MapOK
<1>1. ASSUME NEW m \in Ids \ {n} PROVE Stage(m)'
    BY ServiceSame, StageSame
<1>2. Stage(n) /\ UNCHANGED <<nextLocalID, kind, remoteID>> /\ services' \subseteq services
    <2>1. services' \subseteq services
        BY DEF ServiceStep, OpenDone, OpenFails, HandlerDone, SendOkay, SetConn, SendOpen,
           PumpRead, PumpEnds, SendWrte, TakeAck, WaitClosed, FinishClose, FinishRemove,
           FinishClse, OnlyMoves, mapVars
    <2>. QED  BY <2>1, ServiceFrame DEF StageInv
<1>. USE <1>2 DEF Stage, Goto, OnlyMoves
<1>3. ASSUME OpenDone(n) PROVE Stage(n)'
    BY <1>3 DEF OpenDone
<1>4. ASSUME OpenFails(n) PROVE Stage(n)'
    BY <1>4 DEF OpenFails
<1>5. ASSUME HandlerDone(n) PROVE Stage(n)'
    BY <1>5 DEF HandlerDone
<1>6. ASSUME SendOkay(n) PROVE Stage(n)'
    BY <1>6 DEF SendOkay
<1>7. ASSUME SetConn(n) PROVE Stage(n)'
    BY <1>7 DEF SetConn
<1>8. ASSUME SendOpen(n) PROVE Stage(n)'
    BY <1>8 DEF SendOpen
<1>9. ASSUME PumpRead(n) PROVE Stage(n)'
    BY <1>9 DEF PumpRead
<1>10. ASSUME PumpEnds(n) PROVE Stage(n)'
    BY <1>10 DEF PumpEnds
<1>11. ASSUME SendWrte(n) PROVE Stage(n)'
    BY <1>11 DEF SendWrte
<1>12. ASSUME TakeAck(n) PROVE Stage(n)'
    BY <1>12 DEF TakeAck
<1>13. ASSUME WaitClosed(n) PROVE Stage(n)'
    BY <1>13 DEF WaitClosed
<1>14. ASSUME FinishClose(n) PROVE Stage(n)'
    BY <1>14 DEF FinishClose, mapVars
<1>15. ASSUME FinishRemove(n) PROVE Stage(n)'
    BY <1>15 DEF FinishRemove
<1>16. ASSUME FinishClse(n) PROVE Stage(n)'
    BY <1>16 DEF FinishClse
<1>17. Stage(n)'
    BY <1>3, <1>4, <1>5, <1>6, <1>7, <1>8, <1>9, <1>10, <1>11, <1>12, <1>13, <1>14, <1>15,
       <1>16 DEF ServiceStep
<1>. QED  BY <1>1, <1>17 DEF StageInv

LEMMA ArrivedLawful ==
    ASSUME TypeOK, WireInv, NEW c, Arrived(c)
    PROVE  IF c = "OPEN" THEN OpenToBridge(Head(toBridge)) ELSE OtherToBridge(Head(toBridge))
BY ArrivedEffect DEF TypeOK, WireInv

LEMMA ReceivedLawful ==
    ASSUME TypeOK, WireInv, NEW c, Received(c)
    PROVE  IF c = "OPEN" THEN OpenToClient(Head(toClient)) ELSE OtherToClient(Head(toClient))
BY ReceivedEffect DEF TypeOK, WireInv

(* IdsInv, said of the packets as a set. *)
LEMMA PacketsKnown ==
    ASSUME TypeOK, IdsInv
    PROVE  /\ \A p \in Range(toClient) : Known(p.arg0)
           /\ \A p \in Range(toBridge) : p.cmd # "OPEN" => Known(p.arg1)
BY DEF IdsInv, Range

LEMMA StageStep ==
    ASSUME TypeOK, IdsInv, PacketInv, Next
    PROVE  StageInv'
<1>. USE DEF TypeOK, ServiceOK, MapOK, PacketInv
<1>1. ASSUME UNCHANGED <<nextLocalID, kind, pc, remoteID, opened, ackCh>>,
             services' \subseteq services
      PROVE  StageInv'
    <2>1. \A m \in Ids : Same(m) /\ (m \in services' => m \in services)
        BY <1>1 DEF Same
    <2>. QED  BY <2>1, StageSame DEF StageInv
<1>2. CASE ReadOpen
    <2>1. PICK k \in {"run", "local"} : StartService(k, Head(toBridge).arg0,
                                            IF k = "run" THEN "opening" ELSE "handler")
        BY <1>2, SessionAssumption DEF ReadOpen
    <2>2. Head(toBridge).arg0 \in Ids
        BY <1>2, ArrivedLawful DEF ReadOpen, OpenToBridge
    <2>3. Head(toBridge).arg0 # NoId
        BY <2>2 DEF Ids, NoId
    <2>4. StartService(k, Head(toBridge).arg0, IF k = "run" THEN "opening"
                                               ELSE IF k = "local" THEN "handler" ELSE "setconn")
        BY <2>1
    <2>. QED  BY <2>2, <2>3, <2>4, StageStart
<1>3. CASE AcceptReverse
    <2>1. StartService("outbound", NoId, "setconn")
        BY <1>3 DEF AcceptReverse
    <2>. QED  BY <2>1, StageStart
<1>4. CASE ReadOkay
    <2>1. CASE Head(toBridge).arg1 \in services
        <3>1. PICK n \in services, r \in Ids :
                 n = Head(toBridge).arg1 /\ r = Head(toBridge).arg0 /\ Ack(n, r)
            BY <1>4, <2>1, ArrivedLawful, ArrivedEffect DEF ReadOkay, OtherToBridge
        <3>2. n \in Ids /\ pc[n] \notin Unannounced
            <4>1. Known(n)
                BY <1>4, <3>1, ArrivedEffect, PacketsKnown DEF ReadOkay
            <4>. QED  BY <3>1, <4>1 DEF Known, Ids, NoId
        <3>3. UNCHANGED <<nextLocalID, services, kind, pc>>
            BY <1>4 DEF ReadOkay, mapVars
        <3>4. \A m \in Ids \ {n} : Same(m)
            BY <3>1, <3>2, <3>3 DEF Ack, Same
        <3>5. Stage(n)'
            <4>1. Stage(n)
                BY <3>2 DEF StageInv
            <4>2. r # NoId
                BY DEF Ids, NoId
            <4>. QED  BY <3>1, <3>2, <3>3, <4>1, <4>2 DEF Ack, Stage, Unannounced
        <3>. QED  BY <3>3, <3>4, <3>5, StageSame DEF StageInv
    <2>2. CASE Head(toBridge).arg1 \notin services
        BY <1>1, <1>4, <2>2 DEF ReadOkay, mapVars
    <2>. QED  BY <2>1, <2>2
<1>5. CASE ReaderStep /\ ~ReadOpen /\ ~ReadOkay
    BY <1>1, <1>5, ReaderFrame DEF mapVars
<1>6. CASE ClientStep \/ Background \/ DrainServices \/ CloseConn
    BY <1>1, <1>6, ClientFrame, BackgroundFrame, DrainFrame DEF mapVars, serviceVars
<1>7. ASSUME NEW n \in Ids, ServiceStep(n) PROVE StageInv'
    BY <1>7, StageService
<1>. QED  BY <1>2, <1>3, <1>4, <1>5, <1>6, <1>7, NextCases

(* What no step takes back. *)
LEMMA Stable ==
    ASSUME TypeOK, IdsInv, PacketInv, Next
    PROVE  /\ \A n \in Ids : remoteID[n] # NoId => remoteID'[n] = remoteID[n]
           /\ \A n \in Ids : kind[n] # "none" => kind'[n] = kind[n]
           /\ \A n \in Ids : opened[n] => opened'[n]
           /\ \A n \in Ids : pc[n] = "done" => pc'[n] = "done" /\ opened'[n] = opened[n]
           /\ \A r \in Ids : cpeer[r] # NoId => cpeer'[r] = cpeer[r]
           /\ gone => gone'
<1>. USE DEF TypeOK, ServiceOK, MapOK, PacketInv
<1>1. ASSUME UNCHANGED <<kind, pc, opened>>
      PROVE  /\ \A n \in Ids : kind[n] # "none" => kind'[n] = kind[n]
             /\ \A n \in Ids : opened[n] => opened'[n]
             /\ \A n \in Ids : pc[n] = "done" => pc'[n] = "done" /\ opened'[n] = opened[n]
    BY <1>1
<1>2. /\ \A n \in Ids : kind[n] # "none" => kind'[n] = kind[n]
      /\ \A n \in Ids : opened[n] => opened'[n]
      /\ \A n \in Ids : pc[n] = "done" => pc'[n] = "done" /\ opened'[n] = opened[n]
    <2>1. CASE ReadOpen \/ AcceptReverse
        <3>1. PICK k, r, l : StartService(k, r, l)
            BY <2>1 DEF ReadOpen, AcceptReverse
        <3>2. nextLocalID \in Ids /\ kind[nextLocalID] = "none" /\ pc[nextLocalID] = "idle"
            BY <3>1 DEF StartService, AllocateLocalID, PutService, StageInv, Stage, Ids
        <3>. QED  BY <3>1, <3>2 DEF StartService, Goto
    <2>2. CASE ReadOkay
        <3>1. CASE Head(toBridge).arg1 \in services
            <4>1. pc[Head(toBridge).arg1] # "done"
                BY <3>1 DEF StageInv, Stage
            <4>. QED  BY <2>2, <3>1, <4>1 DEF ReadOkay, Ack
        <3>2. CASE Head(toBridge).arg1 \notin services
            BY <1>1, <2>2, <3>2 DEF ReadOkay
        <3>. QED  BY <3>1, <3>2
    <2>3. CASE ReaderStep /\ ~ReadOpen /\ ~ReadOkay
        BY <1>1, <2>3, ReaderFrame
    <2>4. CASE ClientStep \/ Background \/ DrainServices \/ CloseConn
        BY <1>1, <2>4, ClientFrame, BackgroundFrame, DrainFrame DEF serviceVars
    <2>5. ASSUME NEW n \in Ids, ServiceStep(n)
          PROVE  /\ UNCHANGED kind
                 /\ \A m \in Ids : opened[m] => opened'[m]
                 /\ \A m \in Ids : pc[m] = "done" => pc'[m] = "done" /\ opened'[m] = opened[m]
        <3>1. \A m \in Ids \ {n} : pc'[m] = pc[m] /\ opened'[m] = opened[m]
            BY <2>5, ServiceSame DEF Same
        <3>2. pc[n] # "done" /\ (opened[n] => opened'[n])
            BY <2>5 DEF ServiceStep, OpenDone, OpenFails, HandlerDone, SendOkay, SetConn,
               SendOpen, PumpRead, PumpEnds, SendWrte, TakeAck, WaitClosed, FinishClose,
               FinishRemove, FinishClse
        <3>. QED  BY <2>5, <3>1, <3>2, ServiceFrame
    <2>. QED  BY <2>1, <2>2, <2>3, <2>4, <2>5, NextCases
<1>3. ASSUME NEW n \in Ids, remoteID[n] # NoId PROVE remoteID'[n] = remoteID[n]
    <2>1. n # nextLocalID
        BY <1>3 DEF StageInv, Stage, Ids
    <2>. QED  BY <1>3, <2>1, LearnRemote
<1>4. ASSUME NEW r \in Ids, cpeer[r] # NoId PROVE cpeer'[r] = cpeer[r]
    <2>1. r # nextRid
        BY <1>4 DEF FreshInv, ClientOK, Ids
    <2>. QED  BY <1>4, <2>1, LearnPeer
<1>5. gone => gone'
    <2>1. CASE ClientStep
        BY <2>1 DEF ClientStep, ClientReads, ClientAnswers, CliOpen, RecvOkay, RecvWrte,
           RecvClse, RecvOpen, Received, CliEof, CliDrop, Leave, CliAccept, CliRefuse, CliAck,
           CliCloseBack, CliWrite, CliAbandon, CliClose, Closing, ClientSends, wireVars
    <2>2. CASE ReaderStep \/ AcceptReverse \/ Background \/ DrainServices \/ CloseConn
        BY <2>2, ReaderFrame, BackgroundFrame, DrainFrame DEF wireVars
    <2>3. ASSUME NEW m \in Ids, ServiceStep(m) PROVE UNCHANGED gone
        BY <2>3, ServiceFrame
    <2>. QED  BY <2>1, <2>2, <2>3, NextCases
<1>. QED  BY <1>2, <1>3, <1>4, <1>5

(* A packet of the next state was there already, or one end has just sent it. *)
LEMMA NewToBridge ==
    ASSUME TypeOK, Next, NEW p \in Range(toBridge')
    PROVE  p \in Packets /\ (p \in Range(toBridge) \/ (CliSends(p) /\ ~gone))
BY ToBridgeStep, RangePackets, EmptyFifo, ArrivedEffect DEF TypeOK, Appended, Took, ReaderTakes

LEMMA NewToClient ==
    ASSUME TypeOK, Next, NEW p \in Range(toClient')
    PROVE  p \in Packets /\ (p \in Range(toClient) \/ (BridgeSends(p) /\ ~gone))
BY ToClientStep, RangePackets, EmptyFifo, ReceivedEffect DEF TypeOK, Appended, Took, ClientTakes

(* The order of two packets is old, or the second has just been sent. *)
LEMMA OrderToBridge ==
    ASSUME TypeOK, Next, NEW p \in Packets, NEW q \in Packets, Before(toBridge', p, q)
    PROVE  \/ Before(toBridge, p, q)
           \/ p \in Range(toBridge) /\ CliSends(q)
BY ToBridgeStep, EmptyFifo, ArrivedEffect DEF TypeOK, Appended, Took, ReaderTakes

LEMMA OrderToClient ==
    ASSUME TypeOK, Next, NEW p \in Packets, NEW q \in Packets, Before(toClient', p, q)
    PROVE  \/ Before(toClient, p, q)
           \/ p \in Range(toClient) /\ BridgeSends(q) /\ ~gone
BY ToClientStep, EmptyFifo, ReceivedEffect DEF TypeOK, Appended, Took, ClientTakes

(* What the client sends other than OPEN comes from a stream with a peer. *)
LEMMA CliSendsOther ==
    ASSUME TypeOK, OwnInv, NEW p \in Packets, CliSends(p)
    PROVE  \/ CliOpen /\ p = Packet("OPEN", nextRid, NoId)
           \/ \E r \in Ids :
                 /\ cpeer[r] \in Ids /\ p.arg1 = cpeer[r] /\ p.cmd # "OPEN"
                 /\ p.arg0 = r \/ (p.arg0 = NoId /\ p.cmd = "CLSE")
<1>1. CASE CliOpen /\ p = Packet("OPEN", nextRid, NoId)
    BY <1>1
<1>2. ASSUME NEW r \in Ids,
             \/ (CliAccept(r) \/ CliAck(r)) /\ p = Packet("OKAY", r, cpeer[r])
             \/ CliWrite(r) /\ p = Packet("WRTE", r, cpeer[r])
             \/ CliRefuse(r) /\ p = Packet("CLSE", NoId, cpeer[r])
             \/ (CliClose(r) \/ CliCloseBack(r)) /\ p = Packet("CLSE", r, cpeer[r])
      PROVE  /\ cpeer[r] \in Ids /\ p.arg1 = cpeer[r] /\ p.cmd # "OPEN"
             /\ p.arg0 = r \/ (p.arg0 = NoId /\ p.cmd = "CLSE")
    <2>1. cst[r] \in {"accepting", "open", "closing"}
        BY <1>2 DEF CliAccept, CliAck, CliWrite, CliRefuse, CliClose, CliCloseBack
    <2>2. cpeer[r] \in Ids
        BY <2>1 DEF OwnInv, TypeOK, ClientOK
    <2>. QED  BY <1>2, <2>2 DEF Packet
<1>. QED  BY <1>1, <1>2 DEF CliSends

(* An OKAY the client receives pairs it with the service that sent it. *)
LEMMA OkayPairs ==
    ASSUME TypeOK, WireInv, RecvOkay, Head(toClient).arg1 \in Ids
    PROVE  Head(toClient).arg0 \in Ids /\ remoteID[Head(toClient).arg0] = Head(toClient).arg1
<1>1. OtherToClient(Head(toClient)) /\ Head(toClient).cmd = "OKAY"
    BY ReceivedLawful, ReceivedEffect DEF RecvOkay, TypeOK
<1>. QED  BY <1>1 DEF OtherToClient, Ids, NoId

(* The client's fresh ids stay unheard of. *)
LEMMA FreshRidStep ==
    ASSUME TypeOK, IdsInv, PacketInv, Next
    PROVE  FreshInv'
<1>. USE DEF PacketInv
<1>. SUFFICES ASSUME NEW r \in Ids, r >= nextRid'
              PROVE  /\ cpeer'[r] = NoId
                     /\ \A n \in Ids : remoteID'[n] # r
                     /\ \A p \in Range(toBridge') : p.arg0 # r
    BY DEF FreshInv
<1>1. r >= nextRid /\ (CliOpen \/ RecvOpen => r # nextRid)
    <2>1. CliOpen \/ RecvOpen => nextRid' = nextRid + 1
        BY DEF CliOpen, RecvOpen
    <2>. QED  BY <2>1, NextRid DEF TypeOK, ClientOK, Ids
<1>2. /\ cpeer[r] = NoId
      /\ \A n \in Ids : remoteID[n] # r
      /\ \A p \in Range(toBridge) : p.arg0 # r
    BY <1>1 DEF FreshInv
<1>3. cpeer'[r] = NoId
    BY <1>1, <1>2, LearnPeer, OkayPairs
<1>4. ASSUME NEW n \in Ids PROVE remoteID'[n] # r
    <2>1. ReadOpen \/ ReadOkay => Head(toBridge).arg0 # r
        BY <1>2, ArrivedEffect DEF ReadOpen, ReadOkay, TypeOK
    <2>2. r # NoId
        BY DEF Ids, NoId
    <2>. QED  BY <1>2, <2>1, <2>2, LearnRemote
<1>5. ASSUME NEW p \in Range(toBridge') PROVE p.arg0 # r
    <2>1. CASE p \in Range(toBridge)
        BY <1>2, <2>1
    <2>2. CASE CliSends(p)
        <3>1. r # NoId /\ NoId \notin Ids
            BY DEF Ids, NoId
        <3>. QED  BY <1>1, <1>2, <2>2, <3>1, NewToBridge, CliSendsOther DEF Packet
    <2>. QED  BY <2>1, <2>2, NewToBridge
<1>. QED  BY <1>3, <1>4, <1>5

(* The pairing is kept. *)
LEMMA OwnStep ==
    ASSUME TypeOK, IdsInv, PacketInv, Next
    PROVE  OwnInv'
<1>. USE DEF PacketInv
<1>0. NoId \notin Ids
    BY DEF Ids, NoId
<1>1. ASSUME ReadOpen
      PROVE  /\ Head(toBridge).arg0 \in Ids /\ cpeer[Head(toBridge).arg0] = NoId
             /\ \A n \in Ids : remoteID[n] # Head(toBridge).arg0
             /\ \A s \in Ids : cpeer[s] = nextLocalID => nextLocalID \notin Ids
    <2>1. OpenToBridge(Head(toBridge))
        BY <1>1, ArrivedLawful DEF ReadOpen
    <2>2. nextLocalID \in Ids => pc[nextLocalID] = "idle"
        BY DEF IdsInv, Ids
    <2>. QED  BY <1>0, <2>1, <2>2 DEF OpenToBridge, IdsInv, Known, Unannounced
<1>2. ASSUME ReadOkay
      PROVE  /\ Head(toBridge).arg0 \in Ids
             /\ cpeer[Head(toBridge).arg0] = Head(toBridge).arg1
    BY <1>2, ArrivedLawful, ArrivedEffect DEF ReadOkay, OtherToBridge, TypeOK
<1>3. ASSUME RecvOpen
      PROVE  /\ Head(toClient).arg0 \in Ids /\ remoteID[Head(toClient).arg0] = NoId
             /\ \A s \in Ids : cpeer[s] # Head(toClient).arg0
             /\ \A n \in Ids : remoteID[n] # nextRid
             /\ UNCHANGED remoteID
    <2>1. OpenToClient(Head(toClient))
        BY <1>3, ReceivedLawful DEF RecvOpen
    <2>2. UNCHANGED remoteID
        BY <1>3 DEF RecvOpen, ClientOnly, serviceVars
    <2>3. nextRid \in Ids /\ nextRid >= nextRid
        BY <1>3 DEF RecvOpen, Ids
    <2>. QED  BY <2>1, <2>2, <2>3 DEF OpenToClient, FreshInv
<1>4. ASSUME ReadOpen \/ ReadOkay \/ AcceptReverse PROVE UNCHANGED cpeer
    BY <1>4 DEF ReadOpen, ReadOkay, AcceptReverse, clientVars
<1>5. RecvOkay => UNCHANGED remoteID
    BY DEF RecvOkay, ClientOnly, serviceVars
<1>6. ASSUME NEW r \in Ids, NEW n \in Ids, cpeer'[r] = n
      PROVE  remoteID'[n] \in {NoId, r}
    <2>1. CASE cpeer[r] = n
        <3>1. remoteID[n] \in {NoId, r}
            BY <2>1 DEF OwnInv
        <3>2. CASE remoteID'[n] # remoteID[n]
            BY <1>0, <1>1, <1>2, <2>1, <3>1, <3>2, LearnRemote DEF OwnInv
        <3>. QED  BY <3>1, <3>2
    <2>2. CASE cpeer[r] # n
        BY <1>3, <1>5, <1>6, <2>2, LearnPeer, OkayPairs
    <2>. QED  BY <2>1, <2>2
<1>7. ASSUME NEW r \in Ids, NEW n \in Ids, remoteID'[n] = r
      PROVE  cpeer'[r] \in {NoId, n}
    <2>1. CASE remoteID[n] = r
        <3>1. cpeer[r] \in {NoId, n}
            BY <2>1 DEF OwnInv
        <3>2. CASE cpeer'[r] # cpeer[r]
            <4>1. CASE RecvOpen /\ r = nextRid
                BY <1>3, <2>1, <4>1
            <4>2. CASE RecvOkay /\ r = Head(toClient).arg1 /\ cpeer'[r] = Head(toClient).arg0
                <5>1. Head(toClient).arg0 \in Ids /\ remoteID[Head(toClient).arg0] = r
                    BY <4>2, OkayPairs
                <5>. QED  BY <1>0, <2>1, <4>2, <5>1 DEF OwnInv
            <4>. QED  BY <3>2, <4>1, <4>2, LearnPeer
        <3>. QED  BY <3>1, <3>2
    <2>2. CASE remoteID[n] # r
        BY <1>0, <1>1, <1>2, <1>4, <1>7, <2>2, LearnRemote
    <2>. QED  BY <2>1, <2>2
<1>8. ASSUME NEW m \in Ids, NEW n \in Ids, remoteID'[m] = remoteID'[n], m # n
      PROVE  remoteID'[m] = NoId
    <2>1. ASSUME NEW a \in Ids, NEW b \in Ids, a # b, remoteID'[a] = remoteID'[b],
                 remoteID'[a] # remoteID[a]
          PROVE  remoteID'[a] = NoId
        <3>1. CASE ReadOpen /\ a = nextLocalID /\ remoteID'[a] = Head(toBridge).arg0
            <4>1. b # nextLocalID /\ ~ReadOkay
                BY <2>1, <3>1, ArrivedEffect DEF ReadOpen, ReadOkay, TypeOK
            <4>2. CASE remoteID'[b] = remoteID[b]
                BY <1>1, <2>1, <3>1, <4>2
            <4>. QED  BY <3>1, <4>1, <4>2, LearnRemote
        <3>2. CASE ReadOkay /\ a = Head(toBridge).arg1 /\ remoteID'[a] = Head(toBridge).arg0
            <4>1. b # nextLocalID \/ ~ReadOpen
                BY <3>2, ArrivedEffect DEF ReadOpen, ReadOkay, TypeOK
            <4>2. CASE remoteID'[b] = remoteID[b]
                <5>1. cpeer[Head(toBridge).arg0] \in {NoId, b}
                    BY <1>2, <2>1, <3>2, <4>2 DEF OwnInv
                <5>. QED  BY <1>0, <1>2, <2>1, <3>2, <5>1
            <4>. QED  BY <2>1, <3>2, <4>1, <4>2, LearnRemote
        <3>. QED  BY <2>1, <3>1, <3>2, LearnRemote
    <2>2. CASE remoteID'[m] = remoteID[m] /\ remoteID'[n] = remoteID[n]
        BY <1>8, <2>2 DEF OwnInv
    <2>. QED  BY <1>8, <2>1, <2>2
<1>9. ASSUME NEW r \in Ids, NEW s \in Ids, cpeer'[r] = cpeer'[s], r # s
      PROVE  cpeer'[r] = NoId
    <2>1. ASSUME NEW a \in Ids, NEW b \in Ids, a # b, cpeer'[a] = cpeer'[b],
                 cpeer'[a] # cpeer[a]
          PROVE  cpeer'[a] = NoId
        <3>1. CASE RecvOpen /\ a = nextRid /\ cpeer'[a] = Head(toClient).arg0
            <4>1. cpeer'[b] = cpeer[b]
                BY <2>1, <3>1 DEF RecvOpen
            <4>. QED  BY <1>3, <2>1, <3>1, <4>1
        <3>2. CASE RecvOkay /\ a = Head(toClient).arg1 /\ cpeer'[a] = Head(toClient).arg0
            <4>1. cpeer'[b] = cpeer[b]
                BY <2>1, <3>2 DEF RecvOkay
            <4>2. Head(toClient).arg0 \in Ids /\ remoteID[Head(toClient).arg0] = a
                BY <3>2, OkayPairs
            <4>. QED  BY <1>0, <2>1, <3>2, <4>1, <4>2 DEF OwnInv
        <3>. QED  BY <2>1, <3>1, <3>2, LearnPeer
    <2>2. CASE cpeer'[r] = cpeer[r] /\ cpeer'[s] = cpeer[s]
        BY <1>9, <2>2 DEF OwnInv
    <2>. QED  BY <1>9, <2>1, <2>2
<1>10. ASSUME NEW r \in Ids, cst'[r] \in {"accepting", "open", "closing"}
       PROVE  cpeer'[r] # NoId
    <2>1. CASE cpeer[r] # NoId
        BY <2>1, Stable
    <2>2. CASE cpeer[r] = NoId
        <3>1. cst[r] \notin {"accepting", "open", "closing"}
            BY <2>2 DEF OwnInv
        <3>2. CASE RecvOpen /\ r = nextRid
            BY <1>0, <1>3, <3>2 DEF RecvOpen, TypeOK, ClientOK
        <3>3. CASE RecvOkay /\ r = Head(toClient).arg1
            BY <1>0, <2>2, <3>3, OkayPairs DEF RecvOkay, TypeOK, ClientOK
        <3>. QED  BY <1>10, <3>1, <3>2, <3>3, ClientMoves
    <2>. QED  BY <2>1, <2>2
<1>. QED  BY <1>6, <1>7, <1>8, <1>9, <1>10 DEF OwnInv

LEMMA BeforeRange ==
    ASSUME NEW f, NEW p, NEW q, Before(f, p, q)
    PROVE  p \in Range(f) /\ q \in Range(f)
BY DEF Before, Range

(* The client's OPENs on their way stay the only words of their streams. *)
LEMMA OpenToBridgeStep ==
    ASSUME TypeOK, IdsInv, PacketInv, Next, NEW p \in Range(toBridge'), p.cmd = "OPEN"
    PROVE  OpenToBridge(p)'
<1>. USE DEF PacketInv
<1>0. NoId \notin Ids /\ p \in Packets /\ (nextRid \in Ids => nextRid >= nextRid)
    BY NewToBridge DEF Ids, NoId
<1>1. CASE p \in Range(toBridge)
    <2>1. OpenToBridge(p) /\ p.arg0 \in Ids /\ p.arg1 = NoId
        BY <1>1 DEF WireInv, OpenToBridge
    <2>2. nextRid \in Ids => p.arg0 # nextRid
        BY <1>0, <1>1 DEF FreshInv
    <2>3. \A n \in Ids : remoteID[n] # p.arg0
        BY <2>1 DEF OpenToBridge
    <2>4. cpeer'[p.arg0] = NoId
        <3>1. RecvOpen => nextRid \in Ids
            BY DEF RecvOpen
        <3>2. cpeer[p.arg0] = NoId
            BY <2>1 DEF OpenToBridge
        <3>. QED  BY <2>1, <2>2, <2>3, <3>1, <3>2, LearnPeer, OkayPairs
    <2>5. ASSUME NEW n \in Ids PROVE remoteID'[n] # p.arg0
        <3>1. ASSUME ReadOpen PROVE Head(toBridge).arg0 # p.arg0
            <4>1. /\ OpenToBridge(Head(toBridge)) /\ Head(toBridge) \in Packets
                  /\ Head(toBridge).cmd = "OPEN" /\ Before(toBridge, Head(toBridge), p)
                BY <1>0, <3>1, ArrivedLawful, ArrivedEffect DEF ReadOpen, Took, TypeOK
            <4>2. Head(toBridge).arg0 = p.arg0 => Head(toBridge) = p
                BY <1>0, <2>1, <4>1, SamePacket DEF OpenToBridge
            <4>. QED  BY <2>1, <4>1, <4>2 DEF OpenToBridge
        <3>2. ASSUME ReadOkay PROVE Head(toBridge).arg0 # p.arg0
            <4>1. OtherToBridge(Head(toBridge)) /\ Head(toBridge).cmd = "OKAY"
                BY <3>2, ArrivedLawful, ArrivedEffect DEF ReadOkay, TypeOK
            <4>. QED  BY <1>0, <2>1, <4>1 DEF OtherToBridge, OpenToBridge
        <3>. QED  BY <1>0, <2>1, <2>3, <3>1, <3>2, LearnRemote
    <2>6. gone' \/ cst'[p.arg0] \in {"opening", "abandoned"}
        <3>1. gone \/ cst[p.arg0] \in {"opening", "abandoned"}
            BY <2>1 DEF OpenToBridge
        <3>2. ~RecvOkay \/ Head(toClient).arg1 # p.arg0
            BY <2>1, <2>3, OkayPairs
        <3>3. ~RecvClse \/ Head(toClient).arg1 # p.arg0
            <4>1. RecvClse => OtherToClient(Head(toClient)) /\ Head(toClient).cmd = "CLSE"
                BY ReceivedLawful, ReceivedEffect DEF RecvClse, TypeOK
            <4>. QED  BY <2>1, <2>3, <4>1 DEF OtherToClient
        <3>4. RecvOpen => p.arg0 # nextRid
            BY <2>2 DEF RecvOpen
        <3>. QED  BY <2>1, <3>1, <3>2, <3>3, <3>4, ClientMoves, Stable
    <2>7. ~Before(toBridge', p, p)
        <3>1. ~Before(toBridge, p, p)
            BY <2>1 DEF OpenToBridge
        <3>2. ~CliSends(p)
            <4>1. CliOpen => nextRid \in Ids
                BY DEF CliOpen
            <4>. QED  BY <1>0, <2>2, <4>1 DEF CliSends, Packet
        <3>. QED  BY <1>0, <3>1, <3>2, OrderToBridge
    <2>. QED  BY <2>1, <2>4, <2>5, <2>6, <2>7 DEF OpenToBridge
<1>2. CASE p \notin Range(toBridge)
    <2>1. CliOpen /\ p = Packet("OPEN", nextRid, NoId) /\ nextRid \in Ids
        <3>1. CliSends(p)
            BY <1>2, NewToBridge
        <3>. QED  BY <3>1 DEF CliSends, CliOpen, Packet
    <2>2. p.arg0 = nextRid /\ p.arg1 = NoId
        BY <2>1 DEF Packet
    <2>3. cpeer[nextRid] = NoId /\ \A n \in Ids : remoteID[n] # nextRid
        BY <1>0, <2>1 DEF FreshInv
    <2>4. UNCHANGED <<cpeer, remoteID>> /\ cst'[nextRid] = "opening"
        BY <2>1 DEF CliOpen, ClientOnly, serviceVars, TypeOK, ClientOK
    <2>5. ~Before(toBridge', p, p)
        BY <1>0, <1>2, BeforeRange, OrderToBridge
    <2>. QED  BY <2>1, <2>2, <2>3, <2>4, <2>5 DEF OpenToBridge
<1>. QED  BY <1>1, <1>2

(* What else the client has sent stays from a stream to its peer. *)
LEMMA OtherToBridgeStep ==
    ASSUME TypeOK, IdsInv, PacketInv, Next, NEW p \in Range(toBridge'), p.cmd # "OPEN"
    PROVE  OtherToBridge(p)'
<1>. USE DEF PacketInv
<1>1. OtherToBridge(p)
    <2>1. CASE p \in Range(toBridge)
        BY <2>1 DEF WireInv
    <2>2. CASE p \notin Range(toBridge)
        BY <2>2, NewToBridge, CliSendsOther DEF OtherToBridge, Packet
    <2>. QED  BY <2>1, <2>2
<1>. QED  BY <1>1, Stable DEF OtherToBridge, Ids, NoId

(* The OPENs of the bridge on their way stay the only words of their services. *)
LEMMA OpenToClientStep ==
    ASSUME TypeOK, IdsInv, PacketInv, Next, NEW p \in Range(toClient'), p.cmd = "OPEN"
    PROVE  OpenToClient(p)'
<1>. USE DEF PacketInv
<1>0. NoId \notin Ids /\ p \in Packets
    BY NewToClient DEF Ids, NoId
<1>1. BridgeSends(p) => \E n \in Ids : SendOpen(n) /\ p = Packet("OPEN", n, NoId)
    BY DEF BridgeSends, Packet
<1>2. CASE p \in Range(toClient)
    <2>1. OpenToClient(p) /\ p.arg0 \in Ids /\ p.arg1 = NoId
        BY <1>2 DEF WireInv, OpenToClient
    <2>2. pc[p.arg0] \notin Unannounced
        BY <1>0, <1>2, <2>1, PacketsKnown DEF Known
    <2>3. remoteID'[p.arg0] = NoId
        <3>1. remoteID[p.arg0] = NoId /\ \A r \in Ids : cpeer[r] # p.arg0
            BY <2>1 DEF OpenToClient
        <3>2. p.arg0 # nextLocalID
            BY <2>1, <2>2 DEF IdsInv, Unannounced, Ids
        <3>3. ASSUME ReadOkay PROVE Head(toBridge).arg1 # p.arg0
            <4>1. OtherToBridge(Head(toBridge)) /\ Head(toBridge).cmd = "OKAY"
                BY <3>3, ArrivedLawful, ArrivedEffect DEF ReadOkay, TypeOK
            <4>. QED  BY <3>1, <4>1 DEF OtherToBridge
        <3>. QED  BY <2>1, <3>1, <3>2, <3>3, LearnRemote
    <2>4. ASSUME NEW r \in Ids PROVE cpeer'[r] # p.arg0
        <3>1. cpeer[r] # p.arg0 /\ remoteID[p.arg0] = NoId
            BY <2>1 DEF OpenToClient
        <3>2. ASSUME RecvOpen PROVE Head(toClient).arg0 # p.arg0
            <4>1. /\ OpenToClient(Head(toClient)) /\ Head(toClient) \in Packets
                  /\ Head(toClient).cmd = "OPEN" /\ Before(toClient, Head(toClient), p)
                BY <1>0, <3>2, ReceivedLawful, ReceivedEffect DEF RecvOpen, Took, TypeOK
            <4>2. Head(toClient).arg0 = p.arg0 => Head(toClient) = p
                BY <1>0, <2>1, <4>1, SamePacket DEF OpenToClient
            <4>. QED  BY <2>1, <4>1, <4>2 DEF OpenToClient
        <3>. QED  BY <1>0, <3>1, <3>2, LearnPeer, OkayPairs
    <2>5. ~Before(toClient', p, p)
        <3>1. ~Before(toClient, p, p)
            BY <2>1 DEF OpenToClient
        <3>2. ~BridgeSends(p)
            <4>1. \A n \in Ids : SendOpen(n) => pc[n] \in Unannounced
                BY DEF SendOpen, Unannounced
            <4>. QED  BY <1>1, <2>2, <4>1 DEF Packet
        <3>. QED  BY <1>0, <3>1, <3>2, OrderToClient
    <2>. QED  BY <2>1, <2>3, <2>4, <2>5 DEF OpenToClient
<1>3. CASE p \notin Range(toClient)
    <2>1. PICK n \in Ids : SendOpen(n) /\ p = Packet("OPEN", n, NoId)
        BY <1>1, <1>3, NewToClient
    <2>2. p.arg0 = n /\ p.arg1 = NoId
        BY <2>1 DEF Packet
    <2>3. pc[n] = "dial" /\ UNCHANGED <<cpeer, remoteID>>
        BY <2>1 DEF SendOpen, OnlyMoves, clientVars
    <2>4. remoteID[n] = NoId
        BY <2>3 DEF StageInv, Stage
    <2>5. \A r \in Ids : cpeer[r] # n
        BY <1>0, <2>3 DEF IdsInv, Known, Unannounced
    <2>6. ~Before(toClient', p, p)
        BY <1>0, <1>3, BeforeRange, OrderToClient
    <2>. QED  BY <2>2, <2>3, <2>4, <2>5, <2>6 DEF OpenToClient
<1>. QED  BY <1>2, <1>3

(* What else the bridge has sent stays from a service to its remote id. *)
LEMMA OtherToClientStep ==
    ASSUME TypeOK, IdsInv, PacketInv, Next, NEW p \in Range(toClient'), p.cmd # "OPEN"
    PROVE  OtherToClient(p)'
<1>. USE DEF PacketInv
<1>1. CASE p \in Range(toClient)
    <2>1. OtherToClient(p)
        BY <1>1 DEF WireInv
    <2>. QED  BY <2>1, Stable DEF OtherToClient, Ids, NoId
<1>2. CASE p \notin Range(toClient)
    <2>1. BridgeSends(p)
        BY <1>2, NewToClient
    <2>2. CASE WriteOkay /\ p = Packet("OKAY", rsvc, remoteID[rsvc])
        <3>1. rsvc \in Ids /\ remoteID[rsvc] \in Ids \cup {NoId} /\ UNCHANGED remoteID
            BY <2>2 DEF WriteOkay, TypeOK, ReaderOK, ServiceOK, serviceVars
        <3>. QED  BY <2>2, <3>1 DEF OtherToClient, Packet
    <2>3. ASSUME NEW n \in Ids, remoteID[n] # NoId, UNCHANGED <<remoteID, opened>>,
                 \/ p \in {Packet("OKAY", n, remoteID[n]), Packet("WRTE", n, remoteID[n])}
                 \/ /\ p = Packet("CLSE", IF opened[n] THEN n ELSE NoId, remoteID[n])
                    /\ pc'[n] = "done"
          PROVE  OtherToClient(p)'
        <3>1. remoteID[n] \in Ids
            BY <2>3 DEF TypeOK, ServiceOK
        <3>. QED  BY <2>3, <3>1 DEF OtherToClient, Packet
    <2>4. ASSUME NEW n \in Ids, SendOkay(n), p = Packet("OKAY", n, remoteID[n])
          PROVE  OtherToClient(p)'
        <3>1. remoteID[n] # NoId /\ UNCHANGED <<remoteID, opened>>
            BY <2>4 DEF SendOkay, OnlyMoves, StageInv, Stage
        <3>. QED  BY <2>3, <2>4, <3>1
    <2>5. ASSUME NEW n \in Ids, SendWrte(n), remoteID[n] # NoId,
                 p = Packet("WRTE", n, remoteID[n])
          PROVE  OtherToClient(p)'
        BY <2>3, <2>5 DEF SendWrte, OnlyMoves
    <2>6. ASSUME NEW n \in Ids, FinishClse(n),
                 p = Packet("CLSE", IF opened[n] THEN n ELSE NoId, remoteID[n])
          PROVE  OtherToClient(p)'
        <3>1. remoteID[n] # NoId /\ UNCHANGED <<remoteID, opened>> /\ pc'[n] = "done"
            BY <2>6 DEF FinishClse, OnlyMoves, Goto, StageInv, Stage, TypeOK, ServiceOK
        <3>. QED  BY <2>3, <2>6, <3>1
    <2>. QED  BY <2>1, <2>2, <2>4, <2>5, <2>6 DEF BridgeSends, Packet
<1>. QED  BY <1>1, <1>2

LEMMA WireStep == ASSUME TypeOK, IdsInv, PacketInv, Next PROVE WireInv'
<1>1. \A p \in Range(toBridge') :
         IF p.cmd = "OPEN" THEN OpenToBridge(p)' ELSE OtherToBridge(p)'
    BY OpenToBridgeStep, OtherToBridgeStep
<1>2. \A p \in Range(toClient') :
         IF p.cmd = "OPEN" THEN OpenToClient(p)' ELSE OtherToClient(p)'
    BY OpenToClientStep, OtherToClientStep
<1>. QED  BY <1>1, <1>2 DEF WireInv

(* Who is greeted stays greeted, and nobody else is spoken of. *)
LEMMA GreetedStays ==
    ASSUME TypeOK, IdsInv, PacketInv, Next, NEW n \in Ids \cup {NoId}, Greeted(n)
    PROVE  Greeted(n)'
BY Stable DEF Greeted

LEMMA GreetStep == ASSUME TypeOK, IdsInv, PacketInv, Next PROVE GreetInv'
<1>. USE DEF PacketInv
<1>0. NoId \notin Ids
    BY DEF Ids, NoId
<1>1. ASSUME NEW p \in Range(toClient') PROVE Greeted(p.arg0)'
    <2>1. p \in Packets /\ p.arg0 \in Ids \cup {NoId}
        BY NewToClient, PacketParts
    <2>2. CASE p \in Range(toClient)
        BY <2>1, <2>2, GreetedStays DEF GreetInv
    <2>3. CASE BridgeSends(p)
        <3>1. CASE WriteOkay /\ p = Packet("OKAY", rsvc, remoteID[rsvc])
            <4>1. p.arg0 = rsvc
                BY <3>1 DEF Packet
            <4>. QED  BY <2>1, <4>1, GreetedStays DEF GreetInv
        <3>2. ASSUME NEW n \in Ids, SendOkay(n) \/ SendOpen(n) \/ SendWrte(n),
                     p.arg0 = n
              PROVE  Greeted(n)
            BY <3>2 DEF SendOkay, SendOpen, SendWrte, StageInv, Stage, Greeted
        <3>3. ASSUME NEW n \in Ids, p.arg0 = IF opened[n] THEN n ELSE NoId
              PROVE  Greeted(p.arg0)
            BY <3>3 DEF Greeted
        <3>4. Greeted(p.arg0) \/ (WriteOkay /\ p = Packet("OKAY", rsvc, remoteID[rsvc]))
            BY <2>3, <3>2, <3>3 DEF BridgeSends, Packet
        <3>. QED  BY <2>1, <3>1, <3>4, GreetedStays
    <2>. QED  BY <2>2, <2>3, NewToClient
<1>2. ASSUME NEW p \in Range(toBridge'), p.cmd # "OPEN" PROVE Greeted(p.arg1)'
    <2>1. p \in Packets /\ p.arg1 \in Ids \cup {NoId}
        BY NewToBridge, PacketParts
    <2>2. CASE p \in Range(toBridge)
        BY <1>2, <2>1, <2>2, GreetedStays DEF GreetInv
    <2>3. CASE CliSends(p)
        <3>1. \E r \in Ids : p.arg1 = cpeer[r]
            BY <1>2, <2>1, <2>3, CliSendsOther DEF Packet
        <3>. QED  BY <2>1, <3>1, GreetedStays DEF GreetInv
    <2>. QED  BY <2>2, <2>3, NewToBridge
<1>3. ASSUME NEW r \in Ids PROVE Greeted(cpeer[r])'
    <2>1. \/ cpeer'[r] = cpeer[r]
          \/ (RecvOkay \/ RecvOpen) /\ cpeer'[r] = Head(toClient).arg0
        BY LearnPeer
    <2>2. RecvOkay \/ RecvOpen =>
             Head(toClient).arg0 \in Ids \cup {NoId} /\ Greeted(Head(toClient).arg0)
        BY ReceivedEffect, PacketParts DEF RecvOkay, RecvOpen, TypeOK, GreetInv
    <2>3. cpeer[r] \in Ids \cup {NoId} /\ Greeted(cpeer[r])
        BY DEF TypeOK, ClientOK, GreetInv
    <2>4. cpeer'[r] \in Ids \cup {NoId} /\ Greeted(cpeer'[r])
        BY <2>1, <2>2, <2>3
    <2>5. PICK n \in Ids \cup {NoId} : n = cpeer'[r]
        BY <2>4
    <2>6. Greeted(n)'
        BY <2>4, <2>5, GreetedStays
    <2>. QED  BY <2>5, <2>6 DEF Greeted
<1>4. Greeted(rsvc)'
    <2>1. rsvc' = rsvc \/ rsvc' = NoId \/ (ReadWrte /\ rsvc' = Head(toBridge).arg1)
        <3>1. CASE ReaderStep
            BY <3>1 DEF ReaderStep, ReadOpen, ReadOkay, ReadWrte, WriteConn, WriteConnFails,
               WriteOkay, WriteOkayFails, ReadClse, ReadFails, ReaderClose, Exit, readerVars
        <3>2. CASE ClientStep \/ AcceptReverse \/ Background \/ DrainServices \/ CloseConn
            BY <3>2, ClientFrame, BackgroundFrame, DrainFrame DEF readerVars
        <3>3. ASSUME NEW m \in Ids, ServiceStep(m) PROVE UNCHANGED rsvc
            BY <3>3, ServiceFrame DEF readerVars
        <3>. QED  BY <3>1, <3>2, <3>3, NextCases
    <2>2. ReadWrte => /\ Head(toBridge).arg1 \in Ids \cup {NoId}
                      /\ Greeted(Head(toBridge).arg1)
        BY ArrivedEffect, PacketParts DEF ReadWrte, TypeOK, GreetInv
    <2>3. rsvc \in Ids \cup {NoId} /\ Greeted(rsvc) /\ Greeted(NoId)
        BY DEF TypeOK, ReaderOK, GreetInv, Greeted
    <2>4. PICK n \in Ids \cup {NoId} : n = rsvc' /\ Greeted(n)
        BY <2>1, <2>2, <2>3
    <2>5. Greeted(n)'
        BY <2>4, GreetedStays
    <2>. QED  BY <2>4, <2>5 DEF Greeted
<1>. QED  BY <1>1, <1>2, <1>3, <1>4 DEF GreetInv

(* A CLSE stays the last word on its stream. *)
LEMMA ClseStep == ASSUME TypeOK, IdsInv, PacketInv, Next PROVE ClseInv'
<1>. USE DEF PacketInv
<1>. SUFFICES ASSUME NEW p \in Packets, NEW q \in Packets,
                     p.cmd = "CLSE", Before(toClient', p, q), p.arg1 = q.arg1
              PROVE  q.cmd = "OKAY"
    BY DEF ClseInv
<1>1. CASE Before(toClient, p, q)
    BY <1>1 DEF ClseInv
<1>2. CASE p \in Range(toClient) /\ BridgeSends(q)
    <2>1. p.arg1 \in Ids /\ \E n \in Ids : remoteID[n] = p.arg1 /\ pc[n] = "done"
        BY <1>2 DEF WireInv, OtherToClient
    <2>2. NoId \notin Ids
        BY DEF Ids, NoId
    <2>3. ASSUME NEW m \in Ids, SendWrte(m) \/ FinishClse(m), remoteID[m] = p.arg1
          PROVE  FALSE
        <3>1. pc[m] \in {"wrte", "clse"}
            BY <2>3 DEF SendWrte, FinishClse
        <3>2. pc[m] = "done"
            BY <2>1, <2>2, <2>3 DEF OwnInv
        <3>. QED  BY <3>1, <3>2
    <2>. QED  BY <1>2, <2>1, <2>2, <2>3 DEF BridgeSends, Packet
<1>. QED  BY <1>1, <1>2, OrderToClient

(* As long as a refusal may come, the client waits. *)
LEMMA RefuseStep == ASSUME TypeOK, IdsInv, PacketInv, Next PROVE RefuseInv'
<1>. USE DEF PacketInv
<1>0. NoId \notin Ids
    BY DEF Ids, NoId
<1>. SUFFICES ASSUME NEW n \in Ids, ~gone', remoteID'[n] # NoId, ~opened'[n],
                     pc'[n] # "done" \/ Refusal(remoteID'[n]) \in Range(toClient')
              PROVE  cst'[remoteID'[n]] \in {"opening", "abandoned"}
    BY DEF RefuseInv
<1>1. PICK r \in Ids : r = remoteID'[n]
    <2>1. Head(toBridge).arg0 \in Ids \/ ~(ReadOpen \/ ReadOkay)
        BY ArrivedLawful, ArrivedEffect DEF ReadOpen, ReadOkay, OpenToBridge, OtherToBridge, TypeOK
    <2>. QED  BY <2>1, LearnRemote DEF TypeOK, ServiceOK
<1>2. ~gone /\ ~opened[n]
    BY Stable
<1>3. CASE remoteID[n] = NoId
    <2>1. CASE ReadOpen /\ r = Head(toBridge).arg0
        <3>1. OpenToBridge(Head(toBridge)) /\ UNCHANGED cst
            BY <2>1, ArrivedLawful DEF ReadOpen, clientVars
        <3>. QED  BY <1>1, <1>2, <2>1, <3>1 DEF OpenToBridge
    <2>2. CASE ReadOkay /\ n \in services /\ n = Head(toBridge).arg1
        <3>1. opened'[n]
            BY <2>2 DEF ReadOkay, Ack, TypeOK, ServiceOK
        <3>. QED  BY <3>1
    <2>. QED  BY <1>0, <1>1, <1>3, <2>1, <2>2, LearnRemote
<1>4. CASE remoteID[n] # NoId
    <2>1. remoteID[n] = r
        BY <1>1, <1>4, Stable
    <2>2. kind[n] # "outbound"
        BY <1>2, <1>4 DEF StageInv, Stage
    <2>3. cst[r] \in {"opening", "abandoned"}
        <3>1. CASE pc[n] # "done"
            BY <1>2, <1>4, <2>1, <3>1 DEF RefuseInv
        <3>2. CASE pc[n] = "done"
            <4>1. Refusal(r) \in Range(toClient')
                BY <1>1, <3>2, Stable
            <4>2. ~BridgeSends(Refusal(r))
                <5>1. \A m \in Ids : FinishClse(m) => pc[m] = "clse"
                    BY DEF FinishClse
                <5>2. \A m \in Ids : remoteID[m] = r => m = n
                    BY <1>0, <2>1 DEF OwnInv
                <5>. QED  BY <3>2, <5>1, <5>2 DEF BridgeSends, Refusal, Packet
            <4>3. Refusal(r) \in Range(toClient)
                BY <4>1, <4>2, NewToClient
            <4>. QED  BY <1>2, <1>4, <2>1, <4>3 DEF RefuseInv
        <3>. QED  BY <3>1, <3>2
    <2>4. ~(RecvOkay /\ r = Head(toClient).arg1)
        <3>1. ASSUME RecvOkay, r = Head(toClient).arg1 PROVE FALSE
            <4>1. Head(toClient).arg0 = n
                BY <1>0, <2>1, <3>1, OkayPairs DEF OwnInv
            <4>2. Greeted(n)
                BY <3>1, <4>1, ReceivedEffect DEF RecvOkay, TypeOK, GreetInv
            <4>. QED  BY <1>0, <1>2, <2>2, <4>2 DEF Greeted
        <3>. QED  BY <3>1
    <2>5. ~(RecvClse /\ r = Head(toClient).arg1)
        <3>1. ASSUME RecvClse, r = Head(toClient).arg1 PROVE FALSE
            <4>. DEFINE h == Head(toClient)
            <4>1. /\ h \in Packets /\ h.cmd = "CLSE" /\ h \in Range(toClient)
                  /\ OtherToClient(h)
                  /\ \A q \in Range(toClient') : q \in Packets => Before(toClient, h, q)
                BY <3>1, ReceivedEffect, ReceivedLawful DEF RecvClse, TypeOK, Took
            <4>2. pc[n] = "done"
                BY <1>0, <2>1, <3>1, <4>1 DEF OtherToClient, OwnInv
            <4>3. Refusal(r) \in Range(toClient')
                BY <1>1, <4>2, Stable
            <4>4. Before(toClient, h, Refusal(r)) /\ Refusal(r) \in Packets
                BY <4>1, <4>3, NewToClient
            <4>. QED  BY <3>1, <4>1, <4>4 DEF ClseInv, Refusal, Packet
        <3>. QED  BY <3>1
    <2>6. CliOpen \/ RecvOpen => r # nextRid
        <3>1. CliOpen \/ RecvOpen => nextRid \in Ids /\ nextRid >= nextRid
            BY DEF CliOpen, RecvOpen, Ids
        <3>. QED  BY <2>1, <3>1 DEF FreshInv
    <2>. QED  BY <1>1, <2>3, <2>4, <2>5, <2>6, ClientMoves
<1>. QED  BY <1>3, <1>4

----------------------------------------------------------------------------
LEMMA InitPackets == Init => PacketInv
<1>. SUFFICES ASSUME Init PROVE PacketInv
    OBVIOUS
<1>1. /\ \A n \in Ids : /\ kind[n] = "none" /\ pc[n] = "idle" /\ remoteID[n] = NoId
                        /\ ~opened[n] /\ ~ackCh[n] /\ cpeer[n] = NoId /\ cst[n] = "idle"
      /\ toClient = <<>> /\ toBridge = <<>> /\ rsvc = NoId
    BY DEF Init
<1>2. Range(toClient) = {} /\ Range(toBridge) = {} /\ \A p, q : ~Before(toClient, p, q)
    BY <1>1, EmptyFifo
<1>3. NoId \notin Ids
    BY DEF Ids, NoId
<1>4. StageInv
    BY <1>1 DEF StageInv, Stage
<1>5. FreshInv /\ OwnInv
    BY <1>1, <1>2, <1>3 DEF FreshInv, OwnInv
<1>6. WireInv /\ GreetInv /\ ClseInv /\ RefuseInv
    BY <1>1, <1>2 DEF WireInv, GreetInv, Greeted, ClseInv, RefuseInv
<1>. QED  BY <1>4, <1>5, <1>6 DEF PacketInv

LEMMA StutterPackets == PacketInv /\ UNCHANGED vars => PacketInv'
<1>. SUFFICES ASSUME PacketInv, UNCHANGED vars PROVE PacketInv'
    OBVIOUS
<1>. USE DEF PacketInv, vars, wireVars, clientVars, mapVars, readerVars, serviceVars
<1>1. StageInv'
    BY DEF StageInv, Stage
<1>2. FreshInv' /\ OwnInv'
    BY DEF FreshInv, OwnInv
<1>3. WireInv'
    BY DEF WireInv, OpenToBridge, OtherToBridge, OpenToClient, OtherToClient
<1>4. GreetInv' /\ ClseInv' /\ RefuseInv'
    BY DEF GreetInv, Greeted, ClseInv, RefuseInv
<1>. QED  BY <1>1, <1>2, <1>3, <1>4

(* The packets of a session obey PacketInv. *)
THEOREM PacketsLawful == Spec => []PacketInv
<1>1. TypeOK /\ IdsInv /\ PacketInv /\ [Next]_vars => PacketInv'
    <2>1. ASSUME TypeOK, IdsInv, PacketInv, Next PROVE PacketInv'
        BY <2>1, StageStep, FreshRidStep, OwnStep, WireStep, GreetStep, ClseStep, RefuseStep
           DEF PacketInv
    <2>. QED  BY <2>1, StutterPackets
<1>. QED  BY <1>1, InitPackets, TypeCorrect, IdsAnnounced, PTL DEF Spec

(* Both ends pair the same stream ids, and a packet of a service carries the
   remote id of that service. *)
THEOREM StreamsPaired == Spec => []Pairing
<1>1. TypeOK /\ PacketInv => Pairing
    <2>. SUFFICES ASSUME TypeOK, PacketInv PROVE Pairing
        OBVIOUS
    <2>. USE DEF TypeOK, PacketInv
    <2>0. NoId \notin Ids /\ \A r \in Ids : cpeer[r] \in Ids \cup {NoId}
        BY DEF Ids, NoId, ClientOK
    <2>1. ASSUME NEW r \in Ids, cpeer[r] # NoId
          PROVE  remoteID[cpeer[r]] \in {NoId, r} /\ \A s \in Ids \ {r} : cpeer[s] # cpeer[r]
        BY <2>0, <2>1 DEF OwnInv
    <2>2. ASSUME NEW p \in Range(toClient), p.arg0 # NoId, p.arg1 # NoId
          PROVE  remoteID[p.arg0] = p.arg1 /\ cpeer[p.arg1] \in {NoId, p.arg0}
        <3>1. p.cmd # "OPEN"
            BY <2>2 DEF WireInv, OpenToClient
        <3>2. OtherToClient(p)
            BY <3>1 DEF WireInv
        <3>3. p.arg1 \in Ids /\ p.arg0 \in Ids /\ remoteID[p.arg0] = p.arg1
            BY <2>2, <3>2 DEF OtherToClient
        <3>. QED  BY <3>3 DEF OwnInv
    <2>3. \A i \in DOMAIN toClient : toClient[i] \in Range(toClient)
        BY DEF Range
    <2>. QED  BY <2>1, <2>2, <2>3 DEF Pairing
<1>. QED  BY <1>1, TypeCorrect, PacketsLawful, PTL

(* After the CLSE of a stream the client sees nothing of it but an OKAY. *)
THEOREM ClseIsLast == Spec => []OnlyOkayAfterClse
<1>1. TypeOK /\ PacketInv => OnlyOkayAfterClse
    <2>1. TypeOK => \A i \in DOMAIN toClient : toClient[i] \in Packets
        BY DEF TypeOK, WireOK
    <2>. QED  BY <2>1 DEF PacketInv, ClseInv, OnlyOkayAfterClse, Before
<1>. QED  BY <1>1, TypeCorrect, PacketsLawful, PTL

(* Nothing is on its way to a client that has gone. *)
Silenced == gone => toClient = <<>>

(* A CLSE with local id 0 only refuses an OPEN the client still waits for. *)
THEOREM RefusalIsAnswer == Spec => []RefusalBeforeOpen
<1>1. TypeOK /\ Silenced /\ PacketInv => RefusalBeforeOpen
    <2>. SUFFICES ASSUME TypeOK, Silenced, PacketInv, NEW p \in Range(toClient),
                         p.cmd = "CLSE", p.arg0 = NoId
                  PROVE  cst[p.arg1] \in {"opening", "abandoned"}
        BY DEF RefusalBeforeOpen, Range
    <2>. USE DEF PacketInv
    <2>1. ~gone /\ NoId \notin Ids /\ p \in Packets
        BY EmptyFifo, RangePackets DEF Ids, NoId, TypeOK, Silenced
    <2>2. PICK n \in Ids : remoteID[n] = p.arg1 /\ ~opened[n] /\ p.arg1 \in Ids
        BY <2>1 DEF WireInv, OtherToClient
    <2>3. Refusal(p.arg1) = p
        BY <2>1 DEF Refusal, Packet, Packets
    <2>. QED  BY <2>1, <2>2, <2>3 DEF RefuseInv
<1>2. Init => Silenced
    BY DEF Init, Silenced
<1>3. TypeOK /\ Silenced /\ [Next]_vars => Silenced'
    <2>1. ASSUME TypeOK, Silenced, Next, gone' PROVE toClient' = <<>>
        <3>1. ClientStep /\ ~gone => toClient' = <<>>
            BY <2>1 DEF ClientStep, ClientReads, ClientAnswers, CliOpen, RecvOkay, RecvWrte,
               RecvClse, RecvOpen, Received, CliEof, CliDrop, Leave, CliAccept, CliRefuse, CliAck,
               CliCloseBack, CliWrite, CliAbandon, CliClose, Closing, ClientSends, wireVars
        <3>2. ~ClientStep => gone
            BY <2>1, ReaderFrame, BackgroundFrame, DrainFrame, ServiceFrame, NextCases DEF wireVars
        <3>3. gone => toClient' = <<>>
            BY <2>1, ToClientStep DEF ClientTakes, Received, Silenced
        <3>. QED  BY <2>1, <3>1, <3>2, <3>3
    <2>. QED  BY <2>1 DEF vars, wireVars, Silenced
<1>4. Spec => []Silenced
    BY <1>2, <1>3, TypeCorrect, PTL DEF Spec
<1>. QED  BY <1>1, <1>4, TypeCorrect, PacketsLawful, PTL
=============================================================================
