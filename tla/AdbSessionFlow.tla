----------------------------- MODULE AdbSessionFlow ---------------------------
(***************************************************************************)
(* Who waits for whom in a session: at most one packet of a stream is      *)
(* unacknowledged (FlowControl), a goroutine that waits for an             *)
(* acknowledgement gets one or is released (NoLostAck), and so does the    *)
(* client (NoLostAnswer).                                                  *)
(*                                                                         *)
(* The acknowledgement a stream owes is one token, which is in the packet  *)
(* that needs it, then with the client, then in the OKAY, then in ackCh.   *)
(* FlowInv says that it is never in two places, LossInv that it is lost    *)
(* only on the way to a service that is released, and AnswerInv the same   *)
(* of the answers to the client's WRTE packets.                            *)
(***************************************************************************)
EXTENDS AdbSessionPackets, FiniteSetTheorems

(* The packets of service n that need an acknowledgement, and the
   acknowledgements of the client. *)
Carries(n, p) == p.cmd \in {"WRTE", "OPEN"} /\ p.arg0 = n
Acks(n, p)    == p.cmd = "OKAY" /\ p.arg1 = n

(* The places of the token of n; the last one is ackCh[n]. *)
Travels(n) == \E p \in Range(toClient) : Carries(n, p)
Owes(r, n) == cpeer[r] = n /\ (cowe[r] \/ cst[r] = "accepting")
Owed(n)    == \E r \in Ids : Owes(r, n)
Acked(n)   == \E p \in Range(toBridge) : Acks(n, p)

Waits == {"wait", "waitopen"}

(* The token of n is in one place, while n waits for it or has ended. *)
Token(n) ==
    /\ Travels(n) \/ Owed(n) \/ Acked(n) \/ ackCh[n] => pc[n] \in Waits \cup Ending
    /\ Travels(n) => ~Owed(n) /\ ~Acked(n) /\ ~ackCh[n]
    /\ Owed(n) => ~Acked(n) /\ ~ackCh[n]
    /\ Acked(n) => ~ackCh[n]
    /\ \A p, q \in Packets : Carries(n, p) /\ Carries(n, q) => ~Before(toClient, p, q)
    /\ \A p, q \in Packets : Acks(n, p) /\ Acks(n, q) => ~Before(toBridge, p, q)

FlowInv ==
    /\ \A n \in Ids : Token(n)
    /\ \A r \in Ids : cowe[r] => cst[r] = "open"

(* What the steps rely on besides. *)
SessionInv == TypeOK /\ IdsInv /\ PacketInv

----------------------------------------------------------------------------
(* A goroutine is moved by its own steps; it leaves a wait by TakeAck, or
   for its end. *)
LEMMA PcMoves ==
    ASSUME SessionInv, Next, NEW n \in Ids, pc'[n] # pc[n]
    PROVE  \/ ServiceStep(n)
           \/ pc[n] = "idle" /\ n = nextLocalID /\ (ReadOpen \/ AcceptReverse)
<1>. USE DEF SessionInv, TypeOK, ServiceOK
<1>1. CASE ReadOpen \/ AcceptReverse
    <2>1. PICK k, r, l : StartService(k, r, l)
        BY <1>1 DEF ReadOpen, AcceptReverse
    <2>2. n = nextLocalID
        BY <2>1 DEF StartService, Goto
    <2>3. pc[n] = "idle"
        BY <2>2 DEF IdsInv, Ids
    <2>. QED  BY <1>1, <2>2, <2>3
<1>2. CASE ReaderStep /\ ~ReadOpen
    BY <1>2, ReaderFrame
<1>3. CASE ClientStep \/ Background \/ DrainServices \/ CloseConn
    BY <1>3, ClientFrame, BackgroundFrame, DrainFrame DEF serviceVars
<1>4. ASSUME NEW m \in Ids, ServiceStep(m) PROVE ServiceStep(n)
    BY <1>4, ServiceSame DEF Same
<1>. QED  BY <1>1, <1>2, <1>3, <1>4, NextCases

LEMMA BusyStays ==
    ASSUME SessionInv, Next, NEW n \in Ids, pc[n] \in Waits \cup Ending
    PROVE  pc'[n] \in Waits \cup Ending \/ TakeAck(n)
<1>1. CASE pc'[n] = pc[n]
    BY <1>1
<1>2. CASE ServiceStep(n)
    BY <1>2 DEF ServiceStep, OpenDone, OpenFails, HandlerDone, SendOkay, SetConn, SendOpen,
       PumpRead, PumpEnds, SendWrte, WaitClosed, FinishClose, FinishRemove, FinishClse, Goto,
       Waits, Ending, SessionInv, TypeOK, ServiceOK
<1>. QED  BY <1>1, <1>2, PcMoves DEF Waits, Ending

(* The client comes to owe an acknowledgement by a WRTE on an open stream. *)
LEMMA CoweMoves ==
    ASSUME TypeOK, Next, NEW r \in Ids
    PROVE  \/ cowe'[r] = cowe[r]
           \/ cowe'[r] = FALSE
           \/ RecvWrte /\ r = Head(toClient).arg1 /\ cst[r] = "open"
<1>. USE DEF TypeOK, ClientOK
<1>1. CASE RecvWrte
    BY <1>1 DEF RecvWrte
<1>2. CASE ClientStep /\ ~RecvWrte
    BY <1>2 DEF ClientStep, ClientReads, ClientAnswers, CliOpen, RecvOkay, RecvClse, RecvOpen,
       CliEof, CliDrop, Leave, CliAccept, CliRefuse, CliAck, CliCloseBack, CliWrite, CliAbandon,
       CliClose, Closing
<1>3. CASE ReaderStep \/ AcceptReverse \/ Background \/ DrainServices \/ CloseConn
    BY <1>3, ReaderFrame, BackgroundFrame, DrainFrame DEF clientVars
<1>4. ASSUME NEW m \in Ids, ServiceStep(m) PROVE UNCHANGED cowe
    BY <1>4, ServiceFrame DEF clientVars
<1>. QED  BY <1>1, <1>2, <1>3, <1>4, NextCases

(* A token is put into ackCh by the OKAY of its stream alone. *)
LEMMA AckMoves ==
    ASSUME TypeOK, Next, NEW n \in Ids, ackCh'[n], ~ackCh[n]
    PROVE  ReadOkay /\ n = Head(toBridge).arg1 /\ UNCHANGED <<toClient, clientVars>>
<1>. USE DEF TypeOK, ServiceOK
<1>1. CASE ReadOkay
    BY <1>1, ReaderFrame DEF ReadOkay, Ack, Arrived
<1>2. CASE ReadOpen \/ AcceptReverse
    BY <1>2 DEF ReadOpen, AcceptReverse, StartService
<1>3. CASE ReaderStep /\ ~ReadOpen /\ ~ReadOkay
    BY <1>3, ReaderFrame
<1>4. CASE ClientStep \/ Background \/ DrainServices \/ CloseConn
    BY <1>4, ClientFrame, BackgroundFrame, DrainFrame DEF serviceVars
<1>5. ASSUME NEW m \in Ids, ServiceStep(m) PROVE FALSE
    BY <1>5 DEF ServiceStep, OpenDone, OpenFails, HandlerDone, SendOkay, SetConn, SendOpen,
       PumpRead, PumpEnds, SendWrte, TakeAck, WaitClosed, FinishClose, FinishRemove, FinishClse
<1>. QED  BY <1>1, <1>2, <1>3, <1>4, <1>5, NextCases

----------------------------------------------------------------------------
(* The four moves of the token, each of which takes it from where it was. *)
LEMMA TravelsMove ==
    ASSUME SessionInv, Next, NEW n \in Ids, NEW p, Carries(n, p), BridgeSends(p)
    PROVE  /\ pc[n] \in {"wrte", "dial"} /\ pc'[n] \in Waits \cup Ending
           /\ UNCHANGED <<toBridge, clientVars, ackCh>>
<1>1. SendWrte(n) \/ SendOpen(n)
    BY DEF Carries, BridgeSends, Packet
<1>2. /\ pc[n] \in {"wrte", "dial"} /\ pc'[n] \in Waits \cup Ending
      /\ UNCHANGED <<clientVars, ackCh>>
    BY <1>1 DEF SendWrte, SendOpen, Goto, OnlyMoves, Waits, Ending, SessionInv, TypeOK, ServiceOK
<1>3. UNCHANGED toBridge
    BY <1>1 DEF SendWrte, SendOpen, Sent, WriteFails, wireVars
<1>. QED  BY <1>2, <1>3

(* A packet at the head is not in the rest, if the token of n is in one place. *)
LEMMA HeadCarries ==
    ASSUME SessionInv, FlowInv, NEW n \in Ids, NEW c, Received(c), Carries(n, Head(toClient))
    PROVE  Travels(n) /\ ~Travels(n)'
<1>1. /\ Head(toClient) \in Packets /\ Head(toClient) \in Range(toClient)
      /\ Took(toClient, toClient', Head(toClient)) /\ Range(toClient) \subseteq Packets
    BY ReceivedEffect, RangePackets DEF SessionInv, TypeOK
<1>2. \A q \in Range(toClient') : q \in Packets /\ Before(toClient, Head(toClient), q)
    BY <1>1 DEF Took
<1>. QED  BY <1>1, <1>2 DEF FlowInv, Token, Travels

LEMMA HeadAcks ==
    ASSUME SessionInv, FlowInv, NEW n \in Ids, NEW c, Arrived(c), Acks(n, Head(toBridge))
    PROVE  Acked(n) /\ ~Acked(n)'
<1>1. /\ Head(toBridge) \in Packets /\ Head(toBridge) \in Range(toBridge)
      /\ Took(toBridge, toBridge', Head(toBridge)) /\ Range(toBridge) \subseteq Packets
    BY ArrivedEffect, RangePackets DEF SessionInv, TypeOK
<1>2. \A q \in Range(toBridge') : q \in Packets /\ Before(toBridge, Head(toBridge), q)
    BY <1>1 DEF Took
<1>. QED  BY <1>1, <1>2 DEF FlowInv, Token, Acked

LEMMA OwedMove ==
    ASSUME SessionInv, FlowInv, Next, NEW n \in Ids, Owed(n)', ~Owed(n)
    PROVE  Travels(n) /\ ~Travels(n)' /\ UNCHANGED <<toBridge, ackCh, pc>>
<1>. USE DEF SessionInv
<1>0. NoId \notin Ids
    BY DEF Ids, NoId
<1>1. PICK r \in Ids : cpeer'[r] = n /\ (cowe'[r] \/ cst'[r] = "accepting")
    BY DEF Owed, Owes
<1>2. ASSUME cpeer[r] # NoId PROVE cpeer[r] = n
    BY <1>1, <1>2, Stable
<1>3. CASE cowe'[r]
    <2>1. cst[r] = "open" /\ ~cowe[r]
        BY <1>1, <1>2, <1>3, CoweMoves DEF FlowInv, PacketInv, OwnInv, Owed, Owes, TypeOK, ClientOK
    <2>2. cpeer[r] = n
        BY <1>2, <2>1 DEF PacketInv, OwnInv
    <2>3. RecvWrte /\ r = Head(toClient).arg1
        BY <1>3, <2>1, CoweMoves
    <2>4. OtherToClient(Head(toClient)) /\ Head(toClient).cmd = "WRTE"
        BY <2>3, ReceivedLawful, ReceivedEffect DEF RecvWrte, PacketInv, TypeOK
    <2>5. Head(toClient).arg0 = n
        BY <1>0, <2>2, <2>3, <2>4 DEF OtherToClient, PacketInv, OwnInv
    <2>6. Received("WRTE") /\ Carries(n, Head(toClient))
        BY <2>3, <2>4, <2>5 DEF RecvWrte, Carries
    <2>. QED  BY <2>3, <2>6, HeadCarries DEF RecvWrte, Received, ClientOnly, serviceVars
<1>4. CASE cst'[r] = "accepting" /\ ~cowe'[r]
    <2>1. cst[r] # "accepting"
        BY <1>1, <1>2 DEF PacketInv, OwnInv, Owed, Owes
    <2>2. RecvOpen /\ r = nextRid
        BY <1>4, <2>1, ClientMoves
    <2>3. Received("OPEN") /\ Carries(n, Head(toClient))
        BY <1>1, <2>2, ReceivedEffect DEF RecvOpen, Carries, TypeOK, ClientOK
    <2>. QED  BY <2>2, <2>3, HeadCarries DEF RecvOpen, Received, ClientOnly, serviceVars
<1>. QED  BY <1>1, <1>3, <1>4

LEMMA AckedMove ==
    ASSUME SessionInv, FlowInv, Next, NEW n \in Ids, NEW p \in Packets, Acks(n, p), CliSends(p)
    PROVE  Owed(n) /\ ~Owed(n)' /\ UNCHANGED <<toClient, ackCh, pc>>
<1>. USE DEF SessionInv
<1>1. PICK r \in Ids : (CliAccept(r) \/ CliAck(r)) /\ cpeer[r] = n
    BY DEF CliSends, Acks, Packet
<1>2. Owes(r, n) /\ ~Owes(r, n)'
    BY <1>1 DEF CliAccept, CliAck, Owes, TypeOK, ClientOK, FlowInv
<1>3. ASSUME NEW s \in Ids \ {r} PROVE ~Owes(s, n)'
    <2>1. cpeer[s] # n
        BY <1>1 DEF PacketInv, OwnInv, Ids, NoId
    <2>. QED  BY <1>1, <2>1 DEF CliAccept, CliAck, Owes
<1>4. UNCHANGED <<toClient, ackCh, pc>>
    BY <1>1 DEF CliAccept, CliAck, ClientSends, ClientOnly, serviceVars
<1>. QED  BY <1>2, <1>3, <1>4 DEF Owed

LEMMA AckChMove ==
    ASSUME SessionInv, FlowInv, Next, NEW n \in Ids, ackCh'[n], ~ackCh[n]
    PROVE  Acked(n) /\ ~Acked(n)' /\ UNCHANGED <<toClient, clientVars, pc>>
<1>. USE DEF SessionInv
<1>1. ReadOkay /\ n = Head(toBridge).arg1 /\ UNCHANGED <<toClient, clientVars>>
    BY AckMoves
<1>2. Acks(n, Head(toBridge)) /\ Arrived("OKAY") /\ UNCHANGED pc
    BY <1>1, ArrivedEffect DEF ReadOkay, Acks, TypeOK
<1>. QED  BY <1>1, <1>2, HeadAcks

(* Where the token is after a step that has not moved it. *)
LEMMA TokenStep ==
    ASSUME SessionInv, FlowInv, Next, NEW n \in Ids
    PROVE  Token(n)'
<1>. USE DEF SessionInv
<1>1. Token(n)
    BY DEF FlowInv
<1>2. ASSUME NEW p \in Packets, NEW q \in Packets, Carries(n, p), Carries(n, q)
      PROVE  ~Before(toClient', p, q)
    <2>1. ~Before(toClient, p, q)
        BY <1>1, <1>2 DEF Token
    <2>2. p \in Range(toClient) => ~BridgeSends(q)
        <3>1. ASSUME p \in Range(toClient), BridgeSends(q) PROVE FALSE
            <4>1. pc[n] \in Waits \cup Ending
                BY <1>1, <1>2, <3>1 DEF Token, Travels
            <4>2. pc[n] \in {"wrte", "dial"}
                BY <1>2, <3>1, TravelsMove
            <4>. QED  BY <4>1, <4>2 DEF Waits, Ending
        <3>. QED  BY <3>1
    <2>. QED  BY <2>1, <2>2, OrderToClient
<1>3. ASSUME NEW p \in Packets, NEW q \in Packets, Acks(n, p), Acks(n, q)
      PROVE  ~Before(toBridge', p, q)
    <2>1. ~Before(toBridge, p, q)
        BY <1>1, <1>3 DEF Token
    <2>2. p \in Range(toBridge) => ~CliSends(q)
        BY <1>1, <1>3, AckedMove DEF Token, Acked
    <2>. QED  BY <2>1, <2>2, OrderToBridge
<1>4. ASSUME Travels(n)', ~Travels(n)
      PROVE  /\ pc[n] \in {"wrte", "dial"} /\ pc'[n] \in Waits \cup Ending
             /\ ~Owed(n)' /\ ~Acked(n)' /\ ~ackCh'[n]
    <2>1. PICK p \in Packets : Carries(n, p) /\ BridgeSends(p)
        BY <1>4, NewToClient DEF Travels
    <2>2. /\ pc[n] \in {"wrte", "dial"} /\ pc'[n] \in Waits \cup Ending
          /\ UNCHANGED <<toBridge, clientVars, ackCh>>
        BY <2>1, TravelsMove
    <2>3. ~Owed(n) /\ ~Acked(n) /\ ~ackCh[n]
        BY <1>1, <2>2 DEF Token, Waits, Ending
    <2>. QED  BY <2>2, <2>3 DEF Owed, Owes, Acked, clientVars
<1>5. ASSUME Owed(n)', ~Owed(n)
      PROVE  Travels(n) /\ ~Travels(n)' /\ UNCHANGED <<toBridge, ackCh, pc>>
    BY <1>5, OwedMove
<1>6. ASSUME Acked(n)', ~Acked(n)
      PROVE  Owed(n) /\ ~Owed(n)' /\ UNCHANGED <<toClient, ackCh, pc>>
    BY <1>6, AckedMove, NewToBridge DEF Acked
<1>7. ASSUME ackCh'[n], ~ackCh[n]
      PROVE  Acked(n) /\ ~Acked(n)' /\ UNCHANGED <<toClient, clientVars, pc>>
    BY <1>7, AckChMove
<1>8. UNCHANGED toBridge => (Acked(n)' <=> Acked(n))
    BY DEF Acked
<1>9. UNCHANGED toClient => (Travels(n)' <=> Travels(n))
    BY DEF Travels
<1>10. UNCHANGED clientVars => (Owed(n)' <=> Owed(n))
    BY DEF Owed, Owes, clientVars
<1>11. /\ Travels(n)' => ~Owed(n)' /\ ~Acked(n)' /\ ~ackCh'[n]
       /\ Owed(n)' => ~Acked(n)' /\ ~ackCh'[n]
       /\ Acked(n)' => ~ackCh'[n]
    BY <1>1, <1>4, <1>5, <1>6, <1>7, <1>8, <1>9, <1>10 DEF Token
<1>12. ASSUME Travels(n)' \/ Owed(n)' \/ Acked(n)' \/ ackCh'[n]
       PROVE  pc'[n] \in Waits \cup Ending
    <2>1. CASE Travels(n)' /\ ~Travels(n)
        BY <1>4, <2>1
    <2>2. CASE ~(Travels(n)' /\ ~Travels(n))
        <3>1. pc[n] \in Waits \cup Ending
            BY <1>1, <1>5, <1>6, <1>7, <1>12, <2>2 DEF Token
        <3>2. ASSUME TakeAck(n) PROVE FALSE
            <4>1. ackCh[n] /\ ~ackCh'[n] /\ UNCHANGED <<wireVars, clientVars>>
                BY <3>2 DEF TakeAck, OnlyMoves, TypeOK, ServiceOK
            <4>2. ~Travels(n) /\ ~Owed(n) /\ ~Acked(n)
                BY <1>1, <4>1 DEF Token
            <4>. QED  BY <1>8, <1>9, <1>10, <1>12, <4>1, <4>2 DEF wireVars
        <3>. QED  BY <3>1, <3>2, BusyStays
    <2>. QED  BY <2>1, <2>2
<1>. QED  BY <1>2, <1>3, <1>11, <1>12 DEF Token

LEMMA FlowStep == ASSUME SessionInv, FlowInv, Next PROVE FlowInv'
<1>1. ASSUME NEW r \in Ids, cowe'[r] PROVE cst'[r] = "open"
    <2>. USE DEF FlowInv, SessionInv, TypeOK, ClientOK
    <2>1. CASE RecvWrte
        BY <1>1, <2>1 DEF RecvWrte
    <2>2. CASE CliOpen \/ RecvOpen
        <3>1. nextRid \in Ids /\ nextRid >= nextRid
            BY <2>2 DEF CliOpen, RecvOpen, Ids
        <3>2. ~cowe[nextRid]
            BY <3>1 DEF PacketInv, FreshInv, OwnInv
        <3>. QED  BY <1>1, <2>2, <3>2 DEF CliOpen, RecvOpen
    <2>3. CASE (ClientReads /\ ~RecvWrte /\ ~RecvOpen) \/ CliDrop
        BY <1>1, <2>3 DEF ClientReads, RecvOkay, RecvClse, CliEof, CliDrop, Leave
    <2>4. ASSUME NEW s \in Ids, ClientAnswers(s) \/ CliWrite(s) \/ CliAbandon(s) \/ CliClose(s)
          PROVE  cst'[r] = "open"
        BY <1>1, <2>4 DEF ClientAnswers, CliAccept, CliRefuse, CliAck, CliCloseBack, CliWrite,
           CliAbandon, CliClose, Closing
    <2>5. CASE UNCHANGED <<cst, cowe>>
        BY <1>1, <2>5
    <2>6. CASE ReaderStep \/ AcceptReverse \/ Background \/ DrainServices \/ CloseConn
        BY <2>5, <2>6, ReaderFrame, BackgroundFrame, DrainFrame DEF clientVars
    <2>7. ASSUME NEW m \in Ids, ServiceStep(m) PROVE UNCHANGED <<cst, cowe>>
        BY <2>7, ServiceFrame DEF clientVars
    <2>. QED
        BY <2>1, <2>2, <2>3, <2>4, <2>5, <2>6, <2>7, NextCases DEF ClientStep, ClientReads
<1>. QED  BY <1>1, TokenStep DEF FlowInv

LEMMA InitFlow == Init => FlowInv
<1>. SUFFICES ASSUME Init PROVE FlowInv
    OBVIOUS
<1>1. /\ \A n \in Ids : ~ackCh[n] /\ cpeer[n] = NoId /\ ~cowe[n]
      /\ toClient = <<>> /\ toBridge = <<>>
    BY DEF Init
<1>2. /\ Range(toClient) = {} /\ Range(toBridge) = {} /\ NoId \notin Ids
      /\ \A p, q : ~Before(toClient, p, q) /\ ~Before(toBridge, p, q)
    BY <1>1, EmptyFifo DEF Ids, NoId
<1>. QED  BY <1>1, <1>2 DEF FlowInv, Token, Travels, Owed, Owes, Acked

LEMMA StutterFlow == FlowInv /\ UNCHANGED vars => FlowInv'
BY DEF FlowInv, Token, Travels, Owed, Owes, Acked, vars, wireVars, clientVars, serviceVars

(* The token is never in two places. *)
THEOREM OneToken == Spec => []FlowInv
<1>1. TypeOK /\ IdsInv /\ PacketInv /\ FlowInv /\ [Next]_vars => FlowInv'
    BY FlowStep, StutterFlow DEF SessionInv
<1>. QED  BY <1>1, InitFlow, TypeCorrect, IdsAnnounced, PacketsLawful, PTL DEF Spec

(* A set with no two elements has one or none. *)
LEMMA AtMostOne ==
    ASSUME NEW S, \A x, y \in S : x = y
    PROVE  Cardinality(S) = IF S = {} THEN 0 ELSE 1
<1>1. CASE S = {}
    BY <1>1, FS_EmptySet
<1>2. CASE S # {}
    <2>1. PICK x : S = {x}
        BY <1>2
    <2>. QED  BY <1>2, <2>1, FS_Singleton
<1>. QED  BY <1>1, <1>2

(* Unacked(n) counts the token of n. *)
LEMMA UnackedCount ==
    ASSUME TypeOK, PacketInv, FlowInv, NEW n \in Ids
    PROVE  Unacked(n) = IF Travels(n) \/ Owed(n) \/ Acked(n) \/ ackCh[n] THEN 1 ELSE 0
<1>. DEFINE A == {i \in DOMAIN toClient : toClient[i].cmd \in {"WRTE", "OPEN"} /\ toClient[i].arg0 = n}
            B == {r \in Ids : cpeer[r] = n /\ (cowe[r] \/ cst[r] = "accepting")}
            C == {i \in DOMAIN toBridge : toBridge[i].cmd = "OKAY" /\ toBridge[i].arg1 = n}
<1>1. Unacked(n) = Cardinality(A) + Cardinality(B) + Cardinality(C) + One(ackCh[n])
    BY DEF Unacked, Waiting
<1>2. Token(n) /\ ackCh[n] \in BOOLEAN
    BY DEF FlowInv, TypeOK, ServiceOK
<1>3. /\ \A i \in DOMAIN toClient : toClient[i] \in Packets /\ i \in Nat
      /\ \A i \in DOMAIN toBridge : toBridge[i] \in Packets /\ i \in Nat
    BY DEF TypeOK, WireOK
<1>4. Cardinality(A) = IF Travels(n) THEN 1 ELSE 0
    <2>1. A = {} <=> ~Travels(n)
        BY DEF Travels, Carries, Range
    <2>2. ASSUME NEW i \in A, NEW j \in A, i < j PROVE FALSE
        BY <1>2, <1>3, <2>2 DEF Token, Carries, Before
    <2>3. \A i, j \in A : i = j
        BY <1>3, <2>2
    <2>. QED  BY <2>1, <2>3, AtMostOne
<1>5. Cardinality(B) = IF Owed(n) THEN 1 ELSE 0
    <2>1. B = {} <=> ~Owed(n)
        BY DEF Owed, Owes
    <2>2. \A r, s \in B : r = s
        BY DEF PacketInv, OwnInv, Ids, NoId
    <2>. QED  BY <2>1, <2>2, AtMostOne
<1>6. Cardinality(C) = IF Acked(n) THEN 1 ELSE 0
    <2>1. C = {} <=> ~Acked(n)
        BY DEF Acked, Acks, Range
    <2>2. ASSUME NEW i \in C, NEW j \in C, i < j PROVE FALSE
        BY <1>2, <1>3, <2>2 DEF Token, Acks, Before
    <2>3. \A i, j \in C : i = j
        BY <1>3, <2>2
    <2>. QED  BY <2>1, <2>3, AtMostOne
<1>. HIDE DEF A, B, C
<1>7. One(ackCh[n]) = IF ackCh[n] THEN 1 ELSE 0
    BY DEF One
<1>8. Unacked(n) =   (IF Travels(n) THEN 1 ELSE 0) + (IF Owed(n) THEN 1 ELSE 0)
                   + (IF Acked(n) THEN 1 ELSE 0) + (IF ackCh[n] THEN 1 ELSE 0)
    BY <1>1, <1>4, <1>5, <1>6, <1>7
<1>9. CASE Travels(n)
    BY <1>2, <1>8, <1>9 DEF Token
<1>10. CASE ~Travels(n) /\ Owed(n)
    BY <1>2, <1>8, <1>10 DEF Token
<1>11. CASE ~Travels(n) /\ ~Owed(n)
    BY <1>2, <1>8, <1>11 DEF Token
<1>. QED  BY <1>9, <1>10, <1>11

(* At most one packet of a stream is unacknowledged, and as long as one is,
   its goroutine does not send the next. *)
THEOREM FlowIsControlled == Spec => []FlowControl
<1>1. TypeOK /\ PacketInv /\ FlowInv => FlowControl
    <2>1. ASSUME TypeOK, PacketInv, FlowInv, NEW n \in Ids
          PROVE  /\ Unacked(n) <= 1
                 /\ Unacked(n) = 1 => pc[n] \in {"wait", "waitopen"} \cup Ending
        BY <2>1, UnackedCount DEF FlowInv, Token, Waits
    <2>. QED  BY <2>1 DEF FlowControl
<1>. QED  BY <1>1, TypeCorrect, PacketsLawful, OneToken, PTL

----------------------------------------------------------------------------
(* A service that is released: its wait ends without an acknowledgement.  It
   is closed, session.close is going to close it, the connection is down, or
   the client's CLSE is on its way or owed. *)
Released(n) ==
    \/ done[n] \/ n \in victims \/ gone \/ ~connUp
    \/ \E p \in Range(toBridge) : p.cmd = "CLSE" /\ p.arg1 = n
    \/ \E r \in Ids : cpeer[r] = n /\ cst[r] = "closing"
Over(n) == Released(n) \/ pc[n] = "done"

(* Stream r of the client and service n are the two ends of one stream, as far
   as either of them knows. *)
Partner(r, n) == cpeer[r] = n \/ remoteID[n] = r

(* The client knows the peer of a stream from the answer to its OPEN on. *)
PeerInv ==
    /\ \A r \in Ids : cst[r] = "idle" => r >= nextRid
    /\ \A r \in Ids : cpeer[r] # NoId => cst[r] \in {"accepting", "open", "closing", "closed"}

(* Before the client accepts a stream of the bridge, it has sent nothing on it. *)
AcceptedInv ==
    /\ \A r \in Ids : cst[r] = "accepting" => remoteID[cpeer[r]] = NoId
    /\ \A p \in Range(toBridge) : p.cmd \in {"OKAY", "WRTE"} => cst[p.arg0] # "accepting"

(* A service sends its first WRTE after its OKAY, or after the client's. *)
Met(n) == cpeer[remoteID[n]] = n /\ cst[remoteID[n]] # "accepting"
Hello(n) == Packet("OKAY", n, remoteID[n])
MetInv ==
    /\ \A n \in Ids :
          ~gone /\ remoteID[n] # NoId /\ pc[n] \in {"read", "wrte"} \cup Waits
              => Met(n) \/ Hello(n) \in Range(toClient)
    /\ \A p \in Range(toClient) :
          p.cmd = "WRTE" => Met(p.arg0) \/ Before(toClient, Hello(p.arg0), p)

(* The client closes no stream behind the back of its service. *)
ClosedInv == \A r, n \in Ids : cst[r] = "closed" /\ Partner(r, n) => Over(n)

(* The token a goroutine waits for is somewhere, or the wait is over. *)
WaitInv ==
    \A n \in Ids : pc[n] \in Waits =>
        Travels(n) \/ Owed(n) \/ Acked(n) \/ ackCh[n] \/ Released(n)

LossInv == PeerInv /\ AcceptedInv /\ MetInv /\ ClosedInv /\ WaitInv

(* What the steps rely on besides. *)
StreamInv == SessionInv /\ ReleaseInv /\ FlowInv

----------------------------------------------------------------------------
(* A release is not taken back. *)
LEMMA ClosedStays ==
    ASSUME TypeOK, ReleaseInv, Next, NEW n \in Ids
    PROVE  /\ ~connUp => ~connUp'
           /\ done[n] => done'[n]
           /\ n \in victims => n \in victims' \/ done'[n]
<1>. DEFINE Goal == /\ ~connUp => ~connUp'
                    /\ done[n] => done'[n]
                    /\ n \in victims => n \in victims' \/ done'[n]
<1>. USE DEF TypeOK, ServiceOK, CloseOK
<1>1. ASSUME NEW m \in Ids, CloseService(m), UNCHANGED connUp, victims \ {m} \subseteq victims'
      PROVE  Goal
    BY <1>1, CloseServiceEffect
<1>2. CASE UNCHANGED <<connUp, victims, done>>
    BY <1>2
<1>3. CASE ReadClse
    <2>1. UNCHANGED <<connUp, victims>>
        BY <1>3 DEF ReadClse, closeVars
    <2>2. CASE Head(toBridge).arg1 \in services
        BY <1>1, <1>3, <2>1, <2>2 DEF ReadClse, MapOK
    <2>3. CASE Head(toBridge).arg1 \notin services
        BY <1>2, <1>3, <2>1, <2>3 DEF ReadClse
    <2>. QED  BY <2>2, <2>3
<1>4. CASE ReaderStep /\ ~ReadClse
    BY <1>2, <1>4 DEF ReaderStep, ReadOpen, ReadOkay, ReadWrte, WriteConn, WriteConnFails,
       WriteOkay, WriteOkayFails, ReadFails, ReaderClose, BeginClose, StartService, closeVars,
       serviceVars
<1>5. CASE AcceptReverse \/ ClientStep \/ WatcherClose \/ Cancel
    BY <1>2, <1>5, ClientFrame DEF AcceptReverse, StartService, WatcherClose, BeginClose, Cancel,
       closeVars, serviceVars
<1>6. CASE DrainServices
    BY <1>6 DEF DrainServices, ReleaseInv, serviceVars
<1>7. CASE CloseConn
    BY <1>7 DEF CloseConn, serviceVars
<1>8. ASSUME NEW m \in Ids, CloseVictim(m) PROVE Goal
    BY <1>1, <1>8 DEF CloseVictim
<1>9. ASSUME NEW m \in Ids, DeviceStep(m) PROVE Goal
    BY <1>2, <1>9 DEF DeviceStep, DevRead, DevWrite, DevClose, DeviceOnly, closeVars, serviceVars
<1>10. ASSUME NEW m \in Ids, ServiceStep(m) PROVE Goal
    <2>1. UNCHANGED <<connUp, victims>>
        BY <1>10, ServiceFrame DEF closeVars
    <2>2. CASE FinishClose(m)
        BY <1>1, <2>1, <2>2 DEF FinishClose
    <2>3. CASE ~FinishClose(m)
        BY <1>2, <1>10, <2>1, <2>3 DEF ServiceStep, OpenDone, OpenFails, HandlerDone, SendOkay,
           SetConn, SendOpen, PumpRead, PumpEnds, SendWrte, TakeAck, WaitClosed, FinishRemove,
           FinishClse, OnlyMoves
    <2>. QED  BY <2>2, <2>3
<1>. QED
    BY <1>3, <1>4, <1>5, <1>6, <1>7, <1>8, <1>9, <1>10 DEF Next, CloserStep

(* A packet for a service that is not in the map finds it released. *)
LEMMA LookupFails ==
    ASSUME StreamInv, NEW c, Arrived(c), c # "OPEN", Head(toBridge).arg1 \notin services
    PROVE  done[Head(toBridge).arg1] \/ Head(toBridge).arg1 \in victims
<1>1. Head(toBridge).arg1 \in Ids
    BY ArrivedLawful DEF StreamInv, SessionInv, PacketInv, OtherToBridge
<1>2. Known(Head(toBridge).arg1)
    BY ArrivedEffect, PacketsKnown DEF StreamInv, SessionInv, TypeOK
<1>3. pc[Head(toBridge).arg1] # "idle"
    BY <1>1, <1>2 DEF Known, Unannounced, Ids, NoId
<1>. QED  BY <1>1, <1>3 DEF StreamInv, ReleaseInv, Tracked

(* The CLSE the client receives is the last word of the service. *)
LEMMA ClseIsFinal ==
    ASSUME SessionInv, RecvClse, NEW n \in Ids, NEW r \in Ids, r = Head(toClient).arg1,
           Partner(r, n)
    PROVE  pc[n] = "done"
<1>1. OtherToClient(Head(toClient)) /\ Head(toClient).cmd = "CLSE"
    BY ReceivedLawful, ReceivedEffect DEF RecvClse, SessionInv, PacketInv, TypeOK
<1>2. PICK m \in Ids : remoteID[m] = r /\ pc[m] = "done"
    BY <1>1 DEF OtherToClient
<1>. QED  BY <1>2 DEF SessionInv, PacketInv, OwnInv, Partner, Ids, NoId

LEMMA OverStays == ASSUME StreamInv, Next, NEW n \in Ids, Over(n) PROVE Over(n)'
<1>. USE DEF StreamInv, SessionInv
<1>1. CASE pc[n] = "done" \/ gone
    BY <1>1, Stable DEF Over, Released
<1>2. CASE done[n] \/ n \in victims \/ ~connUp
    BY <1>2, ClosedStays DEF Over, Released
<1>3. ASSUME NEW p \in Range(toBridge), p.cmd = "CLSE", p.arg1 = n PROVE Over(n)'
    <2>1. CASE p \in Range(toBridge')
        BY <1>3, <2>1 DEF Over, Released
    <2>2. CASE p \notin Range(toBridge') /\ ~(toBridge' = <<>> /\ ~connUp')
        <3>1. PICK c \in Commands : ReaderTakes(c)
            BY <1>3, <2>2, ToBridgeStep DEF Appended, TypeOK
        <3>2. p = Head(toBridge) /\ Arrived(c)
            BY <1>3, <2>2, <3>1, ArrivedEffect DEF ReaderTakes, Took, TypeOK
        <3>3. ReadClse /\ c = "CLSE"
            BY <1>3, <3>1, <3>2
               DEF ReaderTakes, ReadOpen, ReadOkay, ReadWrte, Arrived
        <3>4. CASE n \in services
            BY <1>3, <3>2, <3>3, <3>4, CloseServiceEffect DEF ReadClse, Over, Released
        <3>5. CASE n \notin services
            <4>1. done[n] \/ n \in victims
                BY <1>3, <3>2, <3>3, <3>5, LookupFails
            <4>. QED  BY <4>1, ClosedStays DEF Over, Released
        <3>. QED  BY <3>4, <3>5
    <2>. QED  BY <2>1, <2>2 DEF Over, Released
<1>4. ASSUME NEW r \in Ids, cpeer[r] = n, cst[r] = "closing" PROVE Over(n)'
    <2>1. cpeer'[r] = n
        BY <1>4, Stable DEF Ids, NoId
    <2>2. CASE cst'[r] = "closing" \/ gone'
        BY <2>1, <2>2 DEF Over, Released
    <2>3. CASE CliCloseBack(r)
        <3>1. ClientSends(Packet("CLSE", r, n)) /\ Packet("CLSE", r, n) \in Packets
            BY <1>4, <2>3, PacketOK DEF CliCloseBack, Closing, Commands
        <3>2. Packet("CLSE", r, n) \in Range(toBridge')
            BY <3>1, ClientSendsEffect DEF Appended, TypeOK
        <3>. QED  BY <3>2 DEF Over, Released, Packet
    <2>4. CASE RecvClse /\ r = Head(toClient).arg1
        <3>1. pc[n] = "done"
            BY <1>4, <2>4, ClseIsFinal DEF Partner
        <3>. QED  BY <3>1, Stable DEF Over
    <2>5. CASE CliOpen \/ RecvOpen
        <3>1. nextRid \in Ids /\ nextRid >= nextRid
            BY <2>5 DEF CliOpen, RecvOpen, Ids
        <3>2. r # nextRid
            BY <1>4, <3>1 DEF PacketInv, FreshInv, Ids, NoId
        <3>3. cst'[r] = cst[r]
            BY <2>5, <3>2 DEF CliOpen, RecvOpen, TypeOK, ClientOK
        <3>. QED  BY <1>4, <2>2, <3>3
    <2>6. ~CliClose(r)
        BY <1>4 DEF CliClose
    <2>. QED  BY <1>4, <2>2, <2>3, <2>4, <2>5, <2>6, ClientMoves
<1>. QED  BY <1>1, <1>2, <1>3, <1>4 DEF Over, Released

----------------------------------------------------------------------------
(* The parts of LossInv are kept. *)
LEMMA PeerStep == ASSUME StreamInv, PeerInv, Next PROVE PeerInv'
<1>. USE DEF StreamInv, SessionInv
<1>1. ASSUME NEW r \in Ids, cst'[r] = "idle" PROVE r >= nextRid'
    <2>1. cst[r] = "idle"
        BY <1>1, ClientMoves
    <2>2. CASE CliOpen \/ RecvOpen
        <3>1. r # nextRid /\ nextRid' = nextRid + 1
            BY <1>1, <2>2 DEF CliOpen, RecvOpen, TypeOK, ClientOK
        <3>. QED  BY <2>1, <3>1 DEF PeerInv, TypeOK, ClientOK, Ids
    <2>. QED  BY <2>1, <2>2, NextRid DEF PeerInv
<1>2. ASSUME NEW r \in Ids, cpeer'[r] # NoId
      PROVE  cst'[r] \in {"accepting", "open", "closing", "closed"}
    <2>1. CASE cpeer[r] # NoId
        <3>1. cst[r] \in {"accepting", "open", "closing", "closed"}
            BY <2>1 DEF PeerInv
        <3>2. CASE CliOpen
            <4>1. r # nextRid
                BY <2>1, <3>2 DEF CliOpen, PacketInv, FreshInv, Ids
            <4>. QED  BY <3>1, <3>2, <4>1 DEF CliOpen, TypeOK, ClientOK
        <3>. QED  BY <3>1, <3>2, ClientMoves
    <2>2. CASE RecvOpen /\ r = nextRid
        BY <2>2 DEF RecvOpen, TypeOK, ClientOK
    <2>3. CASE RecvOkay /\ r = Head(toClient).arg1
        <3>1. Head(toClient).arg0 \in Ids /\ remoteID[Head(toClient).arg0] = r
            BY <2>3, OkayPairs DEF PacketInv
        <3>2. cst[r] # "idle"
            BY <3>1 DEF PeerInv, PacketInv, FreshInv
        <3>. QED  BY <2>3, <3>2 DEF RecvOkay, TypeOK, ClientOK
    <2>. QED  BY <1>2, <2>1, <2>2, <2>3, LearnPeer
<1>. QED  BY <1>1, <1>2 DEF PeerInv

LEMMA AcceptedStep == ASSUME StreamInv, AcceptedInv, Next PROVE AcceptedInv'
<1>. USE DEF StreamInv, SessionInv
<1>1. ASSUME NEW r \in Ids, cst'[r] = "accepting" PROVE remoteID'[cpeer'[r]] = NoId
    <2>1. CASE cst[r] = "accepting"
        <3>1. PICK n \in Ids : cpeer[r] = n /\ cpeer'[r] = n /\ remoteID[n] = NoId
            BY <2>1, Stable DEF AcceptedInv, PacketInv, OwnInv, TypeOK, ClientOK
        <3>2. ASSUME ReadOkay, n = Head(toBridge).arg1 PROVE FALSE
            <4>1. /\ Head(toBridge).arg0 \in Ids /\ cpeer[Head(toBridge).arg0] = n
                  /\ Head(toBridge) \in Range(toBridge) /\ Head(toBridge).cmd = "OKAY"
                BY <3>2, ArrivedLawful, ArrivedEffect DEF ReadOkay, PacketInv, OtherToBridge, TypeOK
            <4>2. Head(toBridge).arg0 = r
                BY <3>1, <4>1 DEF PacketInv, OwnInv, Ids, NoId
            <4>. QED  BY <2>1, <4>1, <4>2 DEF AcceptedInv
        <3>3. n # nextLocalID
            <4>1. Known(n)
                BY <3>1 DEF IdsInv
            <4>. QED  BY <4>1 DEF IdsInv, Known, Unannounced, Ids, NoId
        <3>. QED  BY <3>1, <3>2, <3>3, LearnRemote
    <2>2. CASE cst[r] # "accepting"
        <3>1. RecvOpen /\ r = nextRid
            BY <1>1, <2>2, ClientMoves
        <3>2. OpenToClient(Head(toClient)) /\ UNCHANGED remoteID
            BY <3>1, ReceivedLawful DEF RecvOpen, PacketInv, ClientOnly, serviceVars
        <3>. QED  BY <3>1, <3>2 DEF RecvOpen, OpenToClient, TypeOK, ClientOK
    <2>. QED  BY <2>1, <2>2
<1>2. ASSUME NEW p \in Range(toBridge'), p.cmd \in {"OKAY", "WRTE"} PROVE cst'[p.arg0] # "accepting"
    <2>1. CASE p \in Range(toBridge)
        <3>1. p.arg0 \in Ids /\ cst[p.arg0] # "accepting"
            BY <1>2, <2>1 DEF AcceptedInv, PacketInv, WireInv, OtherToBridge
        <3>2. CASE RecvOpen
            <4>1. nextRid \in Ids /\ nextRid >= nextRid
                BY <3>2 DEF RecvOpen, Ids
            <4>2. p.arg0 # nextRid
                BY <2>1, <4>1 DEF PacketInv, FreshInv
            <4>. QED  BY <3>1, <3>2, <4>2 DEF RecvOpen, TypeOK, ClientOK
        <3>. QED  BY <3>1, <3>2, ClientMoves
    <2>2. CASE CliSends(p)
        <3>1. PICK r \in Ids : \/ (CliAccept(r) \/ CliAck(r)) /\ p = Packet("OKAY", r, cpeer[r])
                               \/ CliWrite(r) /\ p = Packet("WRTE", r, cpeer[r])
            BY <1>2, <2>2 DEF CliSends, Packet
        <3>2. cst'[r] = "open"
            BY <3>1 DEF CliAccept, CliAck, CliWrite, TypeOK, ClientOK
        <3>. QED  BY <3>1, <3>2 DEF Packet
    <2>. QED  BY <2>1, <2>2, NewToBridge
<1>. QED  BY <1>1, <1>2 DEF AcceptedInv

LEMMA ClosedStep == ASSUME StreamInv, ClosedInv, Next PROVE ClosedInv'
<1>. USE DEF StreamInv, SessionInv
<1>. SUFFICES ASSUME NEW r \in Ids, NEW n \in Ids, cst'[r] = "closed", Partner(r, n)'
              PROVE  Over(n)'
    BY DEF ClosedInv
<1>0. NoId \notin Ids
    BY DEF Ids, NoId
<1>1. CASE cst[r] = "closed"
    <2>1. CASE Partner(r, n)
        BY <1>1, <2>1, OverStays DEF ClosedInv
    <2>2. CASE ~Partner(r, n) /\ cpeer'[r] = n
        <3>1. CASE RecvOpen /\ r = nextRid
            BY <3>1 DEF RecvOpen, TypeOK, ClientOK
        <3>2. CASE RecvOkay /\ r = Head(toClient).arg1 /\ cpeer'[r] = Head(toClient).arg0
            BY <2>2, <3>2, OkayPairs DEF PacketInv, Partner
        <3>. QED  BY <2>2, <3>1, <3>2, LearnPeer DEF Partner
    <2>3. CASE ~Partner(r, n) /\ remoteID'[n] = r
        <3>1. CASE ReadOpen /\ n = nextLocalID /\ r = Head(toBridge).arg0
            <4>1. OpenToBridge(Head(toBridge))
                BY <3>1, ArrivedLawful DEF ReadOpen, PacketInv
            <4>2. gone
                BY <1>1, <3>1, <4>1 DEF OpenToBridge
            <4>. QED  BY <4>2, Stable DEF Over, Released
        <3>2. CASE ReadOkay /\ n = Head(toBridge).arg1 /\ r = Head(toBridge).arg0
            <4>1. cpeer[r] = n
                BY <1>0, <3>2, ArrivedLawful, ArrivedEffect DEF ReadOkay, PacketInv, OtherToBridge, TypeOK
            <4>. QED  BY <2>3, <4>1 DEF Partner
        <3>. QED  BY <1>0, <2>3, <3>1, <3>2, LearnRemote DEF Partner
    <2>. QED  BY <2>1, <2>2, <2>3 DEF Partner
<1>2. CASE cst[r] # "closed"
    <2>1. CASE gone'
        BY <2>1 DEF Over, Released
    <2>2. CASE CliRefuse(r) \/ CliClose(r) \/ CliCloseBack(r)
        <3>1. cst[r] \in {"accepting", "open", "closing"} /\ cpeer[r] \in Ids
            BY <1>0, <2>2 DEF CliRefuse, CliClose, CliCloseBack, PacketInv, OwnInv, TypeOK, ClientOK
        <3>2. UNCHANGED <<cpeer, remoteID>>
            BY <2>2 DEF CliRefuse, CliClose, CliCloseBack, Closing, ClientOnly, serviceVars
        <3>3. cpeer[r] = n
            BY <1>0, <3>1, <3>2 DEF Partner, PacketInv, OwnInv
        <3>4. PICK a \in Ids \cup {NoId} : ClientSends(Packet("CLSE", a, n))
            BY <2>2, <3>3 DEF CliRefuse, CliClose, CliCloseBack, Closing
        <3>5. Packet("CLSE", a, n) \in Packets
            BY PacketOK DEF Commands
        <3>6. Packet("CLSE", a, n) \in Range(toBridge')
            BY <3>4, <3>5, ClientSendsEffect DEF Appended, TypeOK
        <3>. QED  BY <3>6 DEF Over, Released, Packet
    <2>3. CASE RecvClse /\ r = Head(toClient).arg1
        <3>1. Partner(r, n)
            BY <2>3 DEF RecvClse, ClientOnly, serviceVars, Partner
        <3>2. pc[n] = "done"
            BY <2>3, <3>1, ClseIsFinal
        <3>. QED  BY <3>2, Stable DEF Over
    <2>. QED  BY <1>2, <2>1, <2>2, <2>3, ClientMoves
<1>. QED  BY <1>1, <1>2

LEMMA MetStays == ASSUME StreamInv, Next, NEW n \in Ids, remoteID[n] # NoId, Met(n) PROVE Met(n)'
<1>. USE DEF StreamInv, SessionInv
<1>1. PICK r \in Ids : remoteID[n] = r /\ remoteID'[n] = r /\ cpeer[r] = n /\ cst[r] # "accepting"
    BY Stable DEF Met, TypeOK, ServiceOK
<1>2. cpeer'[r] = n
    BY <1>1, Stable DEF Ids, NoId
<1>3. ASSUME RecvOpen PROVE r # nextRid
    <2>1. nextRid \in Ids /\ nextRid >= nextRid
        BY <1>3 DEF RecvOpen, Ids
    <2>. QED  BY <1>1, <2>1 DEF PacketInv, FreshInv
<1>4. cst'[r] # "accepting"
    BY <1>1, <1>3, ClientMoves
<1>. QED  BY <1>1, <1>2, <1>4 DEF Met

(* The OKAY of a service introduces it to the client. *)
LEMMA HelloReceived ==
    ASSUME StreamInv, AcceptedInv, NEW n \in Ids, remoteID[n] # NoId, NEW c, ClientTakes(c),
           Hello(n) = Head(toClient)
    PROVE  Met(n)'
<1>. USE DEF StreamInv, SessionInv, TypeOK, ClientOK, ServiceOK
<1>1. Hello(n).cmd = "OKAY" /\ Hello(n).arg0 = n /\ Hello(n).arg1 = remoteID[n]
    BY DEF Hello, Packet
<1>2. RecvOkay
    BY <1>1 DEF ClientTakes, RecvOkay, RecvWrte, RecvClse, RecvOpen, Received
<1>3. PICK r \in Ids : remoteID[n] = r /\ Head(toClient).arg1 = r
    BY <1>1
<1>4. remoteID'[n] = r
    BY <1>2, <1>3 DEF RecvOkay, ClientOnly, serviceVars
<1>5. cpeer'[r] = n
    BY <1>1, <1>2, <1>3 DEF RecvOkay, PacketInv, OwnInv
<1>6. cst[r] # "accepting"
    <2>1. ASSUME cst[r] = "accepting" PROVE cpeer[r] = n
        BY <1>3, <2>1 DEF PacketInv, OwnInv
    <2>. QED  BY <1>3, <2>1 DEF AcceptedInv, Ids, NoId
<1>7. cst'[r] # "accepting"
    BY <1>2, <1>3, <1>6 DEF RecvOkay
<1>. QED  BY <1>4, <1>5, <1>7 DEF Met

LEMMA HelloMeets ==
    ASSUME StreamInv, AcceptedInv, Next, NEW n \in Ids, remoteID[n] # NoId,
           Hello(n) \in Range(toClient), Hello(n) \notin Range(toClient'), ~gone'
    PROVE  Met(n)'
<1>. USE DEF StreamInv, SessionInv, TypeOK
<1>1. PICK c \in Commands : ClientTakes(c)
    BY ToClientStep DEF Appended
<1>2. Hello(n) = Head(toClient)
    BY <1>1, ReceivedEffect DEF ClientTakes, Took
<1>. QED  BY <1>1, <1>2, HelloReceived

LEMMA MetStep == ASSUME StreamInv, AcceptedInv, MetInv, Next PROVE MetInv'
<1>. USE DEF StreamInv, SessionInv
<1>0. NoId \notin Ids
    BY DEF Ids, NoId
<1>. DEFINE Flowing == {"read", "wrte"} \cup Waits
<1>1. ASSUME NEW n \in Ids, ~gone', remoteID'[n] # NoId, pc'[n] \in Flowing
      PROVE  Met(n)' \/ Hello(n)' \in Range(toClient')
    <2>0. ~gone
        BY <1>1, Stable
    <2>1. CASE remoteID[n] # NoId /\ pc[n] \in Flowing
        <3>1. Hello(n)' = Hello(n)
            BY <2>1, Stable DEF Hello
        <3>. QED  BY <1>1, <2>0, <2>1, <3>1, MetStays, HelloMeets DEF MetInv
    <2>2. CASE remoteID[n] # NoId /\ pc[n] \notin Flowing
        <3>1. SendOkay(n) \/ SendOpen(n)
            <4>1. ServiceStep(n)
                BY <1>1, <2>2, PcMoves DEF PacketInv, StageInv, Stage, Ids
            <4>. QED
                BY <1>1, <2>2, <4>1 DEF ServiceStep, OpenDone, OpenFails, HandlerDone, SendOkay,
                   SetConn, SendOpen, PumpRead, PumpEnds, SendWrte, TakeAck, WaitClosed,
                   FinishClose, FinishRemove, FinishClse, Goto, Waits, TypeOK, ServiceOK
        <3>2. ~SendOpen(n)
            BY <2>2 DEF SendOpen, PacketInv, StageInv, Stage
        <3>3. Sent(n, Hello(n)) /\ Hello(n)' = Hello(n)
            <4>1. Hello(n)' = Hello(n)
                BY <2>2, Stable DEF Hello
            <4>. QED
                BY <1>1, <3>1, <3>2, <4>1 DEF SendOkay, Hello, Goto, Waits, TypeOK, ServiceOK
        <3>4. Hello(n) \in Packets
            BY PacketOK DEF Hello, Commands, TypeOK, ServiceOK
        <3>. QED  BY <2>0, <3>3, <3>4, SentEffect DEF Appended, TypeOK
    <2>3. CASE remoteID[n] = NoId
        <3>1. ~ReadOpen \/ n # nextLocalID
            BY <1>1 DEF ReadOpen, StartService, Goto, Waits, TypeOK, ServiceOK
        <3>2. ReadOkay /\ n = Head(toBridge).arg1 /\ remoteID'[n] = Head(toBridge).arg0
            BY <1>1, <2>3, <3>1, LearnRemote
        <3>3. /\ cpeer[Head(toBridge).arg0] = n /\ cst[Head(toBridge).arg0] # "accepting"
              /\ UNCHANGED <<cpeer, cst>>
            <4>1. Head(toBridge) \in Range(toBridge) /\ Head(toBridge).cmd = "OKAY"
                BY <3>2, ArrivedEffect DEF ReadOkay, TypeOK
            <4>. QED
                BY <3>2, <4>1, ArrivedLawful DEF ReadOkay, PacketInv, OtherToBridge, AcceptedInv,
                   clientVars
        <3>. QED  BY <3>2, <3>3 DEF Met
    <2>. QED  BY <2>1, <2>2, <2>3
<1>2. ASSUME NEW p \in Range(toClient'), p.cmd = "WRTE"
      PROVE  Met(p.arg0)' \/ Before(toClient', Hello(p.arg0)', p)
    <2>1. CASE p \in Range(toClient)
        <3>1. PICK n \in Ids : p.arg0 = n /\ remoteID[n] = p.arg1 /\ remoteID[n] # NoId
            BY <1>0, <1>2, <2>1 DEF PacketInv, WireInv, OtherToClient
        <3>2. Met(n) \/ Before(toClient, Hello(n), p)
            BY <1>2, <2>1, <3>1 DEF MetInv
        <3>3. Hello(n)' = Hello(n) /\ Hello(n) \in Packets /\ p \in Packets
            BY <2>1, <3>1, Stable, RangePackets, PacketOK DEF Hello, Commands, TypeOK, ServiceOK
        <3>4. ASSUME Before(toClient, Hello(n), p), ~Met(n)'
              PROVE  Before(toClient', Hello(n), p)
            <4>1. ~(toClient' = <<>>)
                BY <1>2, EmptyFifo
            <4>2. CASE UNCHANGED toClient
                BY <3>4, <4>2
            <4>3. ASSUME NEW q \in Packets, Appended(toClient, toClient', q)
                  PROVE  Before(toClient', Hello(n), p)
                BY <3>3, <3>4, <4>3 DEF Appended
            <4>4. ASSUME NEW c, ClientTakes(c) PROVE Before(toClient', Hello(n), p)
                <5>1. Took(toClient, toClient', Head(toClient))
                    BY <4>4, ReceivedEffect DEF ClientTakes, TypeOK
                <5>2. Hello(n) # Head(toClient)
                    BY <3>1, <3>4, <4>4, HelloReceived
                <5>. QED  BY <3>3, <3>4, <5>1, <5>2 DEF Took
            <4>. QED  BY <4>1, <4>2, <4>3, <4>4, ToClientStep
        <3>. QED  BY <3>1, <3>2, <3>3, <3>4, MetStays
    <2>2. CASE p \notin Range(toClient)
        <3>1. BridgeSends(p) /\ ~gone /\ p \in Packets
            BY <2>2, NewToClient
        <3>2. PICK n \in Ids : SendWrte(n) /\ remoteID[n] # NoId /\ p = Packet("WRTE", n, remoteID[n])
            BY <1>2, <3>1 DEF BridgeSends, Packet
        <3>3. Met(n) \/ Hello(n) \in Range(toClient)
            BY <3>1, <3>2 DEF SendWrte, MetInv
        <3>4. Hello(n)' = Hello(n) /\ Hello(n) \in Packets /\ p.arg0 = n
            BY <3>2, Stable, PacketOK DEF Hello, Packet, Commands, TypeOK, ServiceOK
        <3>5. Sent(n, p)
            BY <2>2, <3>2 DEF SendWrte, WriteFails, wireVars
        <3>6. Appended(toClient, toClient', p)
            BY <3>1, <3>5, SentEffect DEF TypeOK
        <3>. QED  BY <3>1, <3>2, <3>3, <3>4, <3>6, MetStays DEF Appended
    <2>. QED  BY <2>1, <2>2
<1>. QED  BY <1>1, <1>2 DEF MetInv

(* Where the token goes when it leaves a place: each of these steps takes it
   to the next one, or releases the service. *)
LEMMA AckTaken ==
    ASSUME TypeOK, Next, NEW n \in Ids, ackCh[n], ~ackCh'[n]
    PROVE  TakeAck(n)
<1>. USE DEF TypeOK, ServiceOK
<1>1. CASE ReadOkay
    BY <1>1 DEF ReadOkay, Ack
<1>2. CASE ReadOpen \/ AcceptReverse
    BY <1>2 DEF ReadOpen, AcceptReverse, StartService
<1>3. CASE ReaderStep /\ ~ReadOpen /\ ~ReadOkay
    BY <1>3, ReaderFrame
<1>4. CASE ClientStep \/ Background \/ DrainServices \/ CloseConn
    BY <1>4, ClientFrame, BackgroundFrame, DrainFrame DEF serviceVars
<1>5. ASSUME NEW m \in Ids, ServiceStep(m) PROVE TakeAck(n)
    BY <1>5 DEF ServiceStep, OpenDone, OpenFails, HandlerDone, SendOkay, SetConn, SendOpen,
       PumpRead, PumpEnds, SendWrte, TakeAck, WaitClosed, FinishClose, FinishRemove, FinishClse
<1>. QED  BY <1>1, <1>2, <1>3, <1>4, <1>5, NextCases

LEMMA CowePaid ==
    ASSUME TypeOK, FlowInv, Next, NEW r \in Ids, cowe[r], ~cowe'[r]
    PROVE  \/ CliAck(r) \/ CliClose(r) \/ gone'
           \/ RecvClse /\ r = Head(toClient).arg1
<1>. USE DEF TypeOK, ClientOK
<1>0. cst[r] = "open"
    BY DEF FlowInv
<1>1. CASE ClientReads \/ CliDrop \/ CliOpen
    BY <1>0, <1>1 DEF ClientReads, CliOpen, RecvOkay, RecvWrte, RecvClse, RecvOpen, CliEof,
       CliDrop, Leave
<1>2. ASSUME NEW s \in Ids, ClientAnswers(s) \/ CliWrite(s) \/ CliAbandon(s) \/ CliClose(s)
      PROVE  CliAck(r) \/ CliClose(r)
    BY <1>0, <1>2 DEF ClientAnswers, CliAccept, CliRefuse, CliAck, CliCloseBack, CliWrite,
       CliAbandon, CliClose, Closing
<1>3. CASE ReaderStep \/ AcceptReverse \/ Background \/ DrainServices \/ CloseConn
    BY <1>3, ReaderFrame, BackgroundFrame, DrainFrame DEF clientVars
<1>4. ASSUME NEW m \in Ids, ServiceStep(m) PROVE UNCHANGED cowe
    BY <1>4, ServiceFrame DEF clientVars
<1>. QED  BY <1>1, <1>2, <1>3, <1>4, NextCases DEF ClientStep

LEMMA AckedArrives ==
    ASSUME StreamInv, Next, NEW n \in Ids, Acked(n)
    PROVE  Acked(n)' \/ ackCh'[n] \/ Released(n)'
<1>. USE DEF StreamInv, SessionInv
<1>1. PICK p \in Range(toBridge) : p.cmd = "OKAY" /\ p.arg1 = n
    BY DEF Acked, Acks
<1>2. CASE p \in Range(toBridge')
    BY <1>1, <1>2 DEF Acked, Acks
<1>3. CASE toBridge' = <<>> /\ ~connUp'
    BY <1>3 DEF Released
<1>4. CASE p \notin Range(toBridge') /\ ~(toBridge' = <<>> /\ ~connUp')
    <2>1. PICK c \in Commands : ReaderTakes(c)
        BY <1>4, ToBridgeStep DEF Appended, TypeOK
    <2>2. p = Head(toBridge) /\ Arrived(c)
        BY <1>4, <2>1, ArrivedEffect DEF ReaderTakes, Took, TypeOK
    <2>3. ReadOkay /\ c = "OKAY"
        BY <1>1, <2>1, <2>2 DEF ReaderTakes, ReadOpen, ReadClse, ReadWrte, Arrived
    <2>4. CASE n \in services
        BY <1>1, <2>2, <2>3, <2>4 DEF ReadOkay, Ack, TypeOK, ServiceOK
    <2>5. CASE n \notin services
        <3>1. done[n] \/ n \in victims
            BY <1>1, <2>2, <2>3, <2>5, LookupFails
        <3>. QED  BY <3>1, ClosedStays DEF Released
    <2>. QED  BY <2>4, <2>5
<1>. QED  BY <1>2, <1>3, <1>4

LEMMA OwedArrives ==
    ASSUME StreamInv, Next, NEW n \in Ids, Owed(n), pc[n] # "done"
    PROVE  Owed(n)' \/ Acked(n)' \/ Released(n)'
<1>. USE DEF StreamInv, SessionInv
<1>1. PICK r \in Ids : Owes(r, n)
    BY DEF Owed
<1>2. cpeer[r] = n /\ cpeer'[r] = n
    BY <1>1, Stable DEF Owes, Ids, NoId
<1>3. CASE Owes(r, n)'
    BY <1>3 DEF Owed
<1>4. CASE gone'
    BY <1>4 DEF Released
<1>5. CASE CliAck(r) \/ CliAccept(r)
    <2>1. ClientSends(Packet("OKAY", r, n)) /\ Packet("OKAY", r, n) \in Packets
        BY <1>2, <1>5, PacketOK DEF CliAck, CliAccept, Commands
    <2>2. Packet("OKAY", r, n) \in Range(toBridge')
        BY <2>1, ClientSendsEffect DEF Appended, TypeOK
    <2>. QED  BY <2>2 DEF Acked, Acks, Packet
<1>6. CASE CliRefuse(r) \/ CliClose(r) \/ CliCloseBack(r)
    <2>1. PICK a \in Ids \cup {NoId} : ClientSends(Packet("CLSE", a, n))
        BY <1>2, <1>6 DEF CliRefuse, CliClose, CliCloseBack, Closing
    <2>2. Packet("CLSE", a, n) \in Packets
        BY PacketOK DEF Commands
    <2>3. Packet("CLSE", a, n) \in Range(toBridge')
        BY <2>1, <2>2, ClientSendsEffect DEF Appended, TypeOK
    <2>. QED  BY <2>3 DEF Released, Packet
<1>7. ~(RecvClse /\ r = Head(toClient).arg1)
    BY <1>2, ClseIsFinal DEF Partner
<1>8. r # nextRid \/ ~(CliOpen \/ RecvOpen)
    <2>1. CliOpen \/ RecvOpen => nextRid \in Ids /\ nextRid >= nextRid
        BY DEF CliOpen, RecvOpen, Ids
    <2>. QED  BY <1>2, <2>1 DEF PacketInv, FreshInv, Ids, NoId
<1>9. CASE cowe[r] /\ ~cowe'[r]
    BY <1>4, <1>5, <1>6, <1>7, <1>9, CowePaid
<1>10. CASE cst[r] = "accepting" /\ cst'[r] # "accepting"
    BY <1>4, <1>5, <1>6, <1>7, <1>8, <1>10, ClientMoves
<1>. QED  BY <1>1, <1>2, <1>3, <1>9, <1>10 DEF Owes

LEMMA TravelsArrives ==
    ASSUME StreamInv, PeerInv, ClosedInv, MetInv, Next, NEW n \in Ids, Travels(n), pc[n] # "done"
    PROVE  Travels(n)' \/ Owed(n)' \/ Released(n)'
<1>. USE DEF StreamInv, SessionInv
<1>0. NoId \notin Ids
    BY DEF Ids, NoId
<1>1. PICK p \in Range(toClient) : Carries(n, p)
    BY DEF Travels
<1>2. CASE p \in Range(toClient')
    BY <1>1, <1>2 DEF Travels
<1>3. CASE gone'
    BY <1>3 DEF Released
<1>4. CASE p \notin Range(toClient') /\ ~gone'
    <2>1. PICK c \in Commands : ClientTakes(c)
        BY <1>4, ToClientStep DEF Appended, TypeOK
    <2>2. p = Head(toClient) /\ p \in Packets
        BY <1>4, <2>1, ReceivedEffect DEF ClientTakes, Took, TypeOK
    <2>3. CASE p.cmd = "OPEN"
        <3>1. RecvOpen
            BY <2>1, <2>2, <2>3 DEF ClientTakes, RecvOkay, RecvWrte, RecvClse, Received
        <3>2. nextRid \in Ids /\ cst'[nextRid] = "accepting" /\ cpeer'[nextRid] = n
            BY <1>1, <2>2, <3>1 DEF RecvOpen, Carries, TypeOK, ClientOK
        <3>. QED  BY <3>2 DEF Owed, Owes
    <2>4. CASE p.cmd = "WRTE"
        <3>1. RecvWrte
            BY <2>1, <2>2, <2>4 DEF ClientTakes, RecvOkay, RecvOpen, RecvClse, Received
        <3>2. PICK r \in Ids : p.arg1 = r /\ remoteID[n] = r /\ p.arg0 = n
            BY <1>0, <1>1, <2>4 DEF PacketInv, WireInv, OtherToClient, Carries
        <3>3. ~Before(toClient, Hello(n), p)
            <4>1. ASSUME Before(toClient, Hello(n), p) PROVE FALSE
                <5>1. Hello(n) \in Packets /\ Hello(n).cmd = "OKAY"
                    BY PacketOK DEF Hello, Packet, Commands, TypeOK, ServiceOK
                <5>2. p \in Range(toClient')
                    BY <2>1, <2>2, <2>4, <4>1, <5>1, ReceivedEffect, BeforeRange
                       DEF ClientTakes, Took, TypeOK
                <5>. QED  BY <1>4, <5>2
            <4>. QED  BY <4>1
        <3>4. cpeer[r] = n /\ cst[r] # "accepting"
            BY <2>4, <3>2, <3>3 DEF MetInv, Met
        <3>5. CASE cst[r] = "open"
            BY <2>2, <3>1, <3>2, <3>4, <3>5 DEF RecvWrte, Owed, Owes, TypeOK, ClientOK
        <3>6. CASE cst[r] # "open"
            <4>1. Released(n)
                BY <1>0, <3>4, <3>6 DEF PeerInv, ClosedInv, Over, Partner, Released
            <4>. QED
                BY <3>1, <4>1 DEF RecvWrte, Received, ClientOnly, Released, closeVars, serviceVars
        <3>. QED  BY <3>5, <3>6
    <2>. QED  BY <1>1, <2>3, <2>4 DEF Carries
<1>. QED  BY <1>2, <1>3, <1>4

LEMMA WaitStep ==
    ASSUME StreamInv, LossInv, Next
    PROVE  WaitInv'
<1>. USE DEF StreamInv, SessionInv
<1>. SUFFICES ASSUME NEW n \in Ids, pc'[n] \in Waits
              PROVE  Travels(n)' \/ Owed(n)' \/ Acked(n)' \/ ackCh'[n] \/ Released(n)'
    BY DEF WaitInv
<1>1. CASE pc[n] \notin Waits
    <2>1. SendWrte(n) \/ SendOpen(n)
        <3>1. (~ReadOpen /\ ~AcceptReverse) \/ n # nextLocalID
            BY DEF ReadOpen, AcceptReverse, StartService, Goto, Waits, TypeOK, ServiceOK
        <3>2. ServiceStep(n)
            BY <1>1, <3>1, PcMoves
        <3>. QED
            BY <1>1, <3>2 DEF ServiceStep, OpenDone, OpenFails, HandlerDone, SendOkay, SetConn,
               SendOpen, PumpRead, PumpEnds, SendWrte, TakeAck, WaitClosed, FinishClose,
               FinishRemove, FinishClse, Goto, Waits, TypeOK, ServiceOK
    <2>2. PICK p \in Packets : Carries(n, p) /\ Sent(n, p)
        <3>1. Packet("WRTE", n, remoteID[n]) \in Packets /\ Packet("OPEN", n, NoId) \in Packets
            BY PacketOK DEF Commands, TypeOK, ServiceOK
        <3>2. Sent(n, Packet("WRTE", n, remoteID[n])) \/ Sent(n, Packet("OPEN", n, NoId))
            BY <2>1 DEF SendWrte, SendOpen, Goto, Waits, TypeOK, ServiceOK
        <3>. QED  BY <3>1, <3>2 DEF Carries, Packet
    <2>3. CASE gone
        BY <2>3, Stable DEF Released
    <2>4. CASE ~gone
        BY <2>2, <2>4, SentEffect DEF Appended, Travels, TypeOK
    <2>. QED  BY <2>3, <2>4
<1>2. CASE pc[n] \in Waits
    <2>1. pc[n] # "done" /\ pc'[n] # "done"
        BY <1>2 DEF Waits
    <2>2. CASE Travels(n)
        BY <2>1, <2>2, TravelsArrives DEF LossInv
    <2>3. CASE Owed(n)
        BY <2>1, <2>3, OwedArrives
    <2>4. CASE Acked(n)
        BY <2>4, AckedArrives
    <2>5. CASE ackCh[n]
        <3>1. ~TakeAck(n)
            BY DEF TakeAck, Goto, Waits, TypeOK, ServiceOK
        <3>. QED  BY <2>5, <3>1, AckTaken
    <2>6. CASE Released(n)
        BY <2>1, <2>6, OverStays DEF Over
    <2>. QED  BY <1>2, <2>2, <2>3, <2>4, <2>5, <2>6 DEF LossInv, WaitInv
<1>. QED  BY <1>1, <1>2

LEMMA LossStep == ASSUME StreamInv, LossInv, Next PROVE LossInv'
BY PeerStep, AcceptedStep, MetStep, ClosedStep, WaitStep DEF LossInv

LEMMA InitLoss == Init => LossInv
<1>. SUFFICES ASSUME Init PROVE LossInv
    OBVIOUS
<1>1. /\ \A n \in Ids : pc[n] = "idle" /\ remoteID[n] = NoId
      /\ \A r \in Ids : cst[r] = "idle" /\ cpeer[r] = NoId
      /\ nextRid = 1 /\ toClient = <<>> /\ toBridge = <<>>
    BY DEF Init
<1>2. Range(toClient) = {} /\ Range(toBridge) = {}
    BY <1>1, EmptyFifo
<1>. QED  BY <1>1, <1>2 DEF LossInv, PeerInv, AcceptedInv, MetInv, ClosedInv, WaitInv, Waits, Ids

LEMMA StutterLoss == LossInv /\ UNCHANGED vars => LossInv'
BY DEF LossInv, PeerInv, AcceptedInv, MetInv, Met, Hello, ClosedInv, Partner, Over, WaitInv,
   Released, Travels, Owed, Owes, Acked, vars, wireVars, clientVars, closeVars, serviceVars

(* An acknowledgement is lost only on the way to a service that is released. *)
THEOREM TokenIsKept == Spec => []LossInv
<1>1. TypeOK /\ IdsInv /\ ReleaseInv /\ PacketInv /\ FlowInv /\ LossInv /\ [Next]_vars => LossInv'
    BY LossStep, StutterLoss DEF StreamInv, SessionInv
<1>. QED
    BY <1>1, InitLoss, TypeCorrect, ReleaseInvariant, PacketsLawful, OneToken, PTL DEF Spec

(* A goroutine that waits for an acknowledgement can get one, or is going to
   be closed. *)
THEOREM WaitsForSomething == Spec => []NoLostAck
<1>1. TypeOK /\ PacketInv /\ FlowInv /\ LossInv => NoLostAck
    <2>1. ASSUME TypeOK, PacketInv, FlowInv, LossInv, NEW n \in Ids, pc[n] \in {"wait", "waitopen"}
          PROVE  \/ Unacked(n) = 1 \/ done[n]
                 \/ n \in victims \/ gone \/ ~connUp
                 \/ \E i \in DOMAIN toBridge : toBridge[i].cmd = "CLSE" /\ toBridge[i].arg1 = n
                 \/ \E r \in Ids : cpeer[r] = n /\ cst[r] = "closing"
        <3>1. Released(n) \/ Unacked(n) = 1
            BY <2>1, UnackedCount DEF LossInv, WaitInv, Waits
        <3>. QED  BY <3>1 DEF Released, Range
    <2>. QED  BY <2>1 DEF NoLostAck
<1>. QED  BY <1>1, TypeCorrect, PacketsLawful, OneToken, TokenIsKept, PTL

----------------------------------------------------------------------------
(* The client that waits for the answer to its WRTE has an open stream. *)
CwaitInv == \A r \in Ids : cwait[r] => ~gone /\ cst[r] = "open"

(* As long as the session is not closed, its services are in the map and its
   connection is open. *)
ServedInv ==
    /\ ~closed => \A n \in Ids : pc[n] \notin {"idle", "clse", "done"} => n \in services
    /\ rpc \in {"closing", "stopped"} => closed
    /\ ~connUp => closed

(* The reader has learnt the remote id of a service of the map before it
   handles a WRTE for it: the client's OKAY comes first. *)
Ignorant(n) == remoteID[n] = NoId /\ n \in services
Led(fifo, n) ==
    \A j \in DOMAIN fifo : fifo[j].cmd = "WRTE" /\ fifo[j].arg1 = n =>
        \E i \in DOMAIN fifo : i < j /\ Acks(n, fifo[i])
LearntInv ==
    ~closed =>
        /\ \A r \in Ids : cst[r] = "open" /\ Ignorant(cpeer[r]) => Acked(cpeer[r])
        /\ \A n \in Ids : Ignorant(n) => Led(toBridge, n)
        /\ rsvc # NoId => remoteID[rsvc] # NoId

(* The answer the client waits for is somewhere, or the stream is ending. *)
Asked(r) == \E p \in Range(toBridge) : p.cmd = "WRTE" /\ p.arg0 = r
Answer(r) == \E p \in Range(toClient) : p.cmd \in {"OKAY", "CLSE"} /\ p.arg1 = r
AnsweredInv ==
    \A r \in Ids : cwait[r] =>
        \/ Asked(r) \/ Answer(r)
        \/ rsvc = cpeer[r] \/ pc[cpeer[r]] \in Ending
        \/ closed \/ rpc = "exit"

AnswerInv == CwaitInv /\ ServedInv /\ LearntInv /\ AnsweredInv

LEMMA LedAppend ==
    ASSUME NEW s \in Seq(Packets), NEW q \in Packets, NEW n, Led(s, n),
           q.cmd = "WRTE" /\ q.arg1 = n => \E p \in Range(s) : Acks(n, p)
    PROVE  Led(Append(s, q), n)
<1>. DEFINE t == Append(s, q)
<1>1. /\ Len(t) = Len(s) + 1 /\ Len(s) \in Nat
      /\ DOMAIN t = 1 .. Len(t) /\ DOMAIN s = 1 .. Len(s)
      /\ \A i \in 1 .. Len(s) : t[i] = s[i]
      /\ t[Len(s) + 1] = q
    BY AppendProperties
<1>. HIDE DEF t
<1>2. ASSUME NEW j \in DOMAIN t, t[j].cmd = "WRTE", t[j].arg1 = n
      PROVE  \E i \in DOMAIN t : i < j /\ Acks(n, t[i])
    <2>1. CASE j \in DOMAIN s
        <3>1. PICK i \in DOMAIN s : i < j /\ Acks(n, s[i])
            BY <1>1, <1>2, <2>1 DEF Led
        <3>. QED  BY <1>1, <3>1
    <2>2. CASE j = Len(s) + 1
        <3>1. PICK i \in DOMAIN s : Acks(n, s[i])
            BY <1>1, <1>2, <2>2 DEF Range
        <3>. QED  BY <1>1, <2>2, <3>1
    <2>. QED  BY <1>1, <2>1, <2>2
<1>. QED  BY <1>2 DEF Led, t

LEMMA LedTail ==
    ASSUME NEW s \in Seq(Packets), s # <<>>, NEW n, Led(s, n)
    PROVE  /\ ~(Head(s).cmd = "WRTE" /\ Head(s).arg1 = n)
           /\ ~Acks(n, Head(s)) => Led(Tail(s), n)
<1>. DEFINE t == Tail(s)
<1>1. /\ Len(s) = Len(t) + 1 /\ Len(t) \in Nat
      /\ DOMAIN t = 1 .. Len(t) /\ DOMAIN s = 1 .. Len(s)
      /\ \A i \in 1 .. Len(t) : t[i] = s[i + 1]
      /\ Head(s) = s[1]
    BY EmptySeq, HeadTailProperties
<1>. HIDE DEF t
<1>2. ~(Head(s).cmd = "WRTE" /\ Head(s).arg1 = n)
    BY <1>1 DEF Led
<1>3. ASSUME ~Acks(n, Head(s)), NEW j \in DOMAIN t, t[j].cmd = "WRTE", t[j].arg1 = n
      PROVE  \E i \in DOMAIN t : i < j /\ Acks(n, t[i])
    <2>1. j + 1 \in DOMAIN s /\ s[j + 1].cmd = "WRTE" /\ s[j + 1].arg1 = n
        BY <1>1, <1>3
    <2>2. PICK i \in DOMAIN s : i < j + 1 /\ Acks(n, s[i])
        BY <2>1 DEF Led
    <2>3. i # 1
        BY <1>1, <1>3, <2>2
    <2>4. i - 1 \in DOMAIN t /\ i - 1 < j /\ t[i - 1] = s[i]
        BY <1>1, <1>3, <2>2, <2>3
    <2>. QED  BY <2>2, <2>4
<1>. QED  BY <1>2, <1>3 DEF Led, t

----------------------------------------------------------------------------
(* The parts of AnswerInv are kept. *)
LEMMA ClosedFrame ==
    ASSUME Next
    PROVE  /\ closed => closed'
           /\ ~closed' => ~closed
<1>1. CASE ReaderStep
    BY <1>1 DEF ReaderStep, ReadOpen, ReadOkay, ReadWrte, WriteConn, WriteConnFails, WriteOkay,
       WriteOkayFails, ReadClse, ReadFails, ReaderClose, BeginClose, closeVars
<1>2. CASE ClientStep \/ AcceptReverse \/ DrainServices \/ CloseConn
    BY <1>2, ClientFrame, DrainFrame DEF DrainServices, CloseConn, closeVars
<1>3. CASE Background
    BY <1>3 DEF Background, WatcherClose, BeginClose, Cancel, CloseVictim, DeviceStep, DevRead,
       DevWrite, DevClose, DeviceOnly, closeVars
<1>4. ASSUME NEW m \in Ids, ServiceStep(m) PROVE UNCHANGED closed
    BY <1>4, ServiceFrame DEF closeVars
<1>. QED  BY <1>1, <1>2, <1>3, <1>4, NextCases

(* Before session.close, the map changes by the start and the end of a service. *)
LEMMA MapMoves ==
    ASSUME StreamInv, Next, ~closed', NEW n \in Ids
    PROVE  \/ (n \in services' <=> n \in services)
           \/ (ReadOpen \/ AcceptReverse) /\ n = nextLocalID
           \/ FinishRemove(n)
<1>. USE DEF StreamInv, SessionInv, TypeOK, MapOK
<1>1. CASE ReadOpen \/ AcceptReverse
    BY <1>1 DEF ReadOpen, AcceptReverse, StartService, PutService
<1>2. CASE ReaderStep /\ ~ReadOpen
    BY <1>2, ReaderFrame DEF mapVars
<1>3. CASE ClientStep \/ Background
    BY <1>3, ClientFrame, BackgroundFrame DEF mapVars
<1>4. CASE DrainServices \/ CloseConn
    <2>1. closed
        BY <1>4 DEF DrainServices, CloseConn, ReleaseInv
    <2>. QED  BY <2>1, ClosedFrame
<1>5. ASSUME NEW m \in Ids, ServiceStep(m)
      PROVE  (n \in services' <=> n \in services) \/ FinishRemove(n)
    BY <1>5 DEF ServiceStep, OpenDone, OpenFails, HandlerDone, SendOkay, SetConn, SendOpen,
       PumpRead, PumpEnds, SendWrte, TakeAck, WaitClosed, FinishClose, FinishRemove, FinishClse,
       OnlyMoves, mapVars
<1>. QED  BY <1>1, <1>2, <1>3, <1>4, <1>5, NextCases

LEMMA CwaitStep == ASSUME StreamInv, CwaitInv, Next PROVE CwaitInv'
<1>. USE DEF StreamInv, SessionInv, TypeOK, ClientOK, CwaitInv
<1>1. CASE CliOpen \/ RecvOpen
    <2>1. nextRid \in Ids /\ nextRid >= nextRid
        BY <1>1 DEF CliOpen, RecvOpen, Ids
    <2>2. ~cwait[nextRid]
        BY <2>1 DEF PacketInv, FreshInv, OwnInv
    <2>. QED  BY <1>1, <2>2 DEF CliOpen, RecvOpen, ClientSends, Received
<1>2. CASE RecvOkay \/ RecvWrte \/ RecvClse
    BY <1>2 DEF RecvOkay, RecvWrte, RecvClse, Received
<1>3. CASE CliEof \/ CliDrop
    BY <1>3 DEF CliEof, CliDrop, Leave
<1>4. ASSUME NEW s \in Ids, ClientAnswers(s) \/ CliWrite(s) \/ CliAbandon(s) \/ CliClose(s)
      PROVE  CwaitInv'
    BY <1>4 DEF ClientAnswers, CliAccept, CliRefuse, CliAck, CliCloseBack, CliWrite, CliAbandon,
       CliClose, Closing, ClientSends, wireVars
<1>5. CASE UNCHANGED <<gone, cst, cwait>>
    BY <1>5
<1>6. CASE ReaderStep \/ AcceptReverse \/ Background \/ DrainServices \/ CloseConn
    BY <1>5, <1>6, ReaderFrame, BackgroundFrame, DrainFrame DEF clientVars, wireVars
<1>7. ASSUME NEW m \in Ids, ServiceStep(m) PROVE UNCHANGED <<gone, cst, cwait>>
    BY <1>7, ServiceFrame DEF clientVars
<1>. QED
    BY <1>1, <1>2, <1>3, <1>4, <1>5, <1>6, <1>7, NextCases DEF ClientStep, ClientReads

LEMMA ServedStep == ASSUME StreamInv, ServedInv, Next PROVE ServedInv'
<1>. USE DEF StreamInv, SessionInv
<1>1. ASSUME ~closed', NEW n \in Ids, pc'[n] \notin {"idle", "clse", "done"}
      PROVE  n \in services'
    <2>1. CASE (ReadOpen \/ AcceptReverse) /\ n = nextLocalID
        BY <2>1 DEF ReadOpen, AcceptReverse, StartService, PutService
    <2>2. CASE ~((ReadOpen \/ AcceptReverse) /\ n = nextLocalID)
        <3>1. pc[n] \notin {"idle", "clse", "done"} /\ ~FinishRemove(n)
            <4>1. pc'[n] = pc[n] \/ ServiceStep(n)
                BY <2>2, PcMoves
            <4>2. ASSUME ServiceStep(n) PROVE pc[n] \notin {"idle", "clse", "done"}
                BY <1>1, <4>2 DEF ServiceStep, OpenDone, OpenFails, HandlerDone, SendOkay, SetConn,
                   SendOpen, PumpRead, PumpEnds, SendWrte, TakeAck, WaitClosed, FinishClose,
                   FinishRemove, FinishClse, Goto, TypeOK, ServiceOK
            <4>3. ~FinishRemove(n)
                BY <1>1 DEF FinishRemove, Goto, TypeOK, ServiceOK
            <4>. QED  BY <1>1, <4>1, <4>2, <4>3
        <3>2. n \in services
            BY <1>1, <3>1, ClosedFrame DEF ServedInv
        <3>. QED  BY <1>1, <2>2, <3>1, <3>2, MapMoves
    <2>. QED  BY <2>1, <2>2
<1>2. ASSUME rpc' \in {"closing", "stopped"} PROVE closed'
    <2>1. rpc \in {"closing", "stopped"} => closed'
        BY ClosedFrame DEF ServedInv
    <2>2. CASE ReaderStep
        BY <1>2, <2>1, <2>2 DEF ReaderStep, ReadOpen, ReadOkay, ReadWrte, WriteConn,
           WriteConnFails, WriteOkay, WriteOkayFails, ReadClse, ReadFails, ReaderClose,
           BeginClose, Exit, readerVars, closeVars
    <2>3. CASE AcceptReverse \/ ClientStep \/ Background \/ DrainServices
        BY <1>2, <2>1, <2>3, ClientFrame, BackgroundFrame, DrainFrame DEF readerVars
    <2>4. CASE CloseConn
        BY <1>2, <2>1, <2>4 DEF CloseConn
    <2>5. ASSUME NEW m \in Ids, ServiceStep(m) PROVE UNCHANGED rpc
        BY <2>5, ServiceFrame DEF readerVars
    <2>. QED  BY <1>2, <2>1, <2>2, <2>3, <2>4, <2>5, NextCases
<1>3. ASSUME ~connUp' PROVE closed'
    <2>1. CASE CloseConn
        BY <2>1 DEF CloseConn, ReleaseInv
    <2>2. CASE UNCHANGED connUp
        BY <1>3, <2>2, ClosedFrame DEF ServedInv
    <2>3. CASE ReaderStep
        BY <2>2, <2>3 DEF ReaderStep, ReadOpen, ReadOkay, ReadWrte, WriteConn, WriteConnFails,
           WriteOkay, WriteOkayFails, ReadClse, ReadFails, ReaderClose, BeginClose, closeVars
    <2>4. CASE ClientStep \/ AcceptReverse \/ DrainServices
        BY <2>2, <2>4, ClientFrame, DrainFrame DEF DrainServices, closeVars
    <2>5. CASE Background
        BY <2>2, <2>5 DEF Background, WatcherClose, BeginClose, Cancel, CloseVictim, DeviceStep,
           DevRead, DevWrite, DevClose, DeviceOnly, closeVars
    <2>6. ASSUME NEW m \in Ids, ServiceStep(m) PROVE UNCHANGED connUp
        BY <2>6, ServiceFrame DEF closeVars
    <2>. QED  BY <2>1, <2>2, <2>3, <2>4, <2>5, <2>6, NextCases
<1>. QED  BY <1>1, <1>2, <1>3 DEF ServedInv

LEMMA EndingStays == ASSUME SessionInv, Next, NEW n \in Ids, pc[n] \in Ending PROVE pc'[n] \in Ending
<1>1. CASE pc'[n] = pc[n]
    BY <1>1
<1>2. CASE ServiceStep(n)
    BY <1>2 DEF ServiceStep, OpenDone, OpenFails, HandlerDone, SendOkay, SetConn, SendOpen,
       PumpRead, PumpEnds, SendWrte, TakeAck, WaitClosed, FinishClose, FinishRemove, FinishClse,
       Goto, Ending, SessionInv, TypeOK, ServiceOK
<1>. QED  BY <1>1, <1>2, PcMoves DEF Ending

(* The client waits for an answer from its WRTE on. *)
LEMMA CwaitMoves == ASSUME TypeOK, Next, NEW r \in Ids, cwait'[r], ~cwait[r] PROVE CliWrite(r)
<1>. USE DEF TypeOK, ClientOK
<1>1. CASE ClientReads \/ CliDrop \/ CliOpen
    BY <1>1 DEF ClientReads, CliOpen, RecvOkay, RecvWrte, RecvClse, RecvOpen, CliEof, CliDrop, Leave
<1>2. ASSUME NEW s \in Ids, ClientAnswers(s) \/ CliWrite(s) \/ CliAbandon(s) \/ CliClose(s)
      PROVE  CliWrite(r)
    BY <1>2 DEF ClientAnswers, CliAccept, CliRefuse, CliAck, CliCloseBack, CliWrite, CliAbandon,
       CliClose, Closing
<1>3. CASE ReaderStep \/ AcceptReverse \/ Background \/ DrainServices \/ CloseConn
    BY <1>3, ReaderFrame, BackgroundFrame, DrainFrame DEF clientVars
<1>4. ASSUME NEW m \in Ids, ServiceStep(m) PROVE UNCHANGED cwait
    BY <1>4, ServiceFrame DEF clientVars
<1>. QED  BY <1>1, <1>2, <1>3, <1>4, NextCases DEF ClientStep

(* What the reader works on: it takes up a WRTE, and leaves it by its answer
   or for its end. *)
LEMMA ReaderWork ==
    ASSUME TypeOK, Next
    PROVE  /\ \/ rsvc' = rsvc \/ rsvc' = NoId
              \/ ReadWrte /\ rsvc' = Head(toBridge).arg1 /\ rsvc' \in services
           /\ rsvc # NoId => rsvc' = rsvc \/ WriteOkay \/ rpc' = "exit"
           /\ rpc = "exit" => rpc' = "exit" \/ closed'
<1>. DEFINE Goal == /\ \/ rsvc' = rsvc \/ rsvc' = NoId
                       \/ ReadWrte /\ rsvc' = Head(toBridge).arg1 /\ rsvc' \in services
                    /\ rsvc # NoId => rsvc' = rsvc \/ WriteOkay \/ rpc' = "exit"
                    /\ rpc = "exit" => rpc' = "exit" \/ closed'
<1>. USE DEF TypeOK, ReaderOK
<1>1. CASE ReaderClose
    BY <1>1 DEF ReaderClose, BeginClose, closeVars
<1>2. CASE ReaderStep /\ ~ReaderClose
    BY <1>2 DEF ReaderStep, ReadOpen, ReadOkay, ReadWrte, WriteConn, WriteConnFails, WriteOkay,
       WriteOkayFails, ReadClse, ReadFails, Exit, Arrived, readerVars
<1>3. CASE AcceptReverse \/ ClientStep \/ Background \/ DrainServices
    BY <1>3, ClientFrame, BackgroundFrame, DrainFrame DEF readerVars
<1>4. CASE CloseConn
    BY <1>4 DEF CloseConn
<1>5. ASSUME NEW m \in Ids, ServiceStep(m) PROVE Goal
    BY <1>5, ServiceFrame DEF readerVars
<1>. QED  BY <1>1, <1>2, <1>3, <1>4, <1>5, NextCases

(* A service whose remote id is not known is an old one, or has just started. *)
LEMMA IgnorantStep ==
    ASSUME StreamInv, Next, ~closed', NEW n \in Ids, Ignorant(n)'
    PROVE  Ignorant(n) \/ (AcceptReverse /\ n = nextLocalID)
<1>. USE DEF StreamInv, SessionInv
<1>1. remoteID[n] = NoId /\ remoteID'[n] = NoId /\ n \in services'
    BY Stable DEF Ignorant
<1>2. ~FinishRemove(n)
    BY <1>1 DEF FinishRemove
<1>3. ~(ReadOpen /\ n = nextLocalID)
    <2>1. ASSUME ReadOpen, n = nextLocalID PROVE FALSE
        <3>1. Head(toBridge).arg0 \in Ids
            BY <2>1, ArrivedLawful DEF ReadOpen, PacketInv, OpenToBridge
        <3>2. remoteID'[n] = Head(toBridge).arg0
            BY <2>1 DEF ReadOpen, StartService, TypeOK, ServiceOK
        <3>. QED  BY <1>1, <3>1, <3>2 DEF Ids, NoId
    <2>. QED  BY <2>1
<1>. QED  BY <1>1, <1>2, <1>3, MapMoves DEF Ignorant

(* An OKAY the reader takes for a service of the map teaches its remote id. *)
LEMMA OkayTeaches ==
    ASSUME StreamInv, ReadOkay, NEW n \in services, Head(toBridge).arg1 = n
    PROVE  remoteID'[n] # NoId
<1>. USE DEF StreamInv, SessionInv
<1>1. Head(toBridge).arg0 \in Ids /\ NoId \notin Ids
    BY ArrivedLawful, ArrivedEffect DEF ReadOkay, PacketInv, OtherToBridge, TypeOK, Ids, NoId
<1>. QED  BY <1>1 DEF ReadOkay, Ack, TypeOK, MapOK, ServiceOK

LEMMA IgnorantAcked ==
    ASSUME StreamInv, ServedInv', Next, ~closed', NEW n \in Ids, Ignorant(n), Ignorant(n)', Acked(n)
    PROVE  Acked(n)'
<1>. USE DEF StreamInv, SessionInv
<1>1. PICK p \in Range(toBridge) : p.cmd = "OKAY" /\ p.arg1 = n
    BY DEF Acked, Acks
<1>2. SUFFICES ASSUME p \notin Range(toBridge') PROVE FALSE
    BY <1>1 DEF Acked, Acks
<1>3. PICK c \in Commands : ReaderTakes(c)
    BY <1>2, ToBridgeStep DEF Appended, ServedInv, TypeOK
<1>4. p = Head(toBridge)
    BY <1>2, <1>3, ArrivedEffect DEF ReaderTakes, Took, TypeOK
<1>5. ReadOkay
    BY <1>1, <1>3, <1>4 DEF ReaderTakes, ReadOpen, ReadClse, ReadWrte, Arrived
<1>. QED  BY <1>1, <1>4, <1>5, OkayTeaches DEF Ignorant

LEMMA LearntStep ==
    ASSUME StreamInv, PeerInv, LearntInv, Next, TypeOK', ServedInv'
    PROVE  LearntInv'
<1>. USE DEF StreamInv, SessionInv
<1>. SUFFICES ASSUME ~closed'
              PROVE  /\ \A r \in Ids : cst'[r] = "open" /\ Ignorant(cpeer[r])' => Acked(cpeer[r])'
                     /\ \A n \in Ids : Ignorant(n)' => Led(toBridge', n)
                     /\ rsvc' # NoId => remoteID'[rsvc'] # NoId
    BY DEF LearntInv, Ignorant, Acked
<1>0. NoId \notin Ids /\ ~closed
    BY ClosedFrame DEF Ids, NoId
<1>1. ASSUME NEW r \in Ids, NEW n \in Ids, cst'[r] = "open", cpeer'[r] = n, Ignorant(n)'
      PROVE  Acked(n)'
    <2>1. ~(AcceptReverse /\ n = nextLocalID)
        <3>1. ASSUME AcceptReverse, n = nextLocalID PROVE FALSE
            <4>1. cpeer[r] = n
                BY <1>1, <3>1 DEF AcceptReverse, clientVars
            <4>2. Known(n) /\ pc[n] = "idle"
                BY <3>1, <4>1 DEF IdsInv, Ids
            <4>. QED  BY <1>0, <4>2 DEF Known, Unannounced
        <3>. QED  BY <3>1
    <2>2. Ignorant(n)
        BY <1>1, <2>1, IgnorantStep
    <2>3. CASE cst[r] = "open"
        <3>1. cpeer[r] = n
            BY <1>0, <1>1, <2>3, Stable DEF PacketInv, OwnInv
        <3>2. Acked(n)
            BY <1>0, <2>2, <2>3, <3>1 DEF LearntInv
        <3>. QED  BY <1>1, <2>2, <3>2, IgnorantAcked
    <2>4. CASE CliAccept(r)
        <3>1. ClientSends(Packet("OKAY", r, n)) /\ Packet("OKAY", r, n) \in Packets
            BY <1>1, <2>4, PacketOK DEF CliAccept, Commands
        <3>2. Packet("OKAY", r, n) \in Range(toBridge')
            BY <3>1, ClientSendsEffect DEF Appended, TypeOK
        <3>. QED  BY <3>2 DEF Acked, Acks, Packet
    <2>5. ~(RecvOkay /\ r = Head(toClient).arg1 /\ cst[r] = "opening")
        <3>1. ASSUME RecvOkay, r = Head(toClient).arg1, cst[r] = "opening" PROVE FALSE
            <4>1. cpeer[r] = NoId
                BY <3>1 DEF PeerInv
            <4>2. n = Head(toClient).arg0
                BY <1>1, <3>1, <4>1 DEF RecvOkay, TypeOK, ClientOK
            <4>3. remoteID[n] = r
                BY <3>1, <4>2, OkayPairs DEF PacketInv
            <4>. QED  BY <1>0, <2>2, <4>3 DEF Ignorant
        <3>. QED  BY <3>1
    <2>. QED  BY <1>1, <2>3, <2>4, <2>5, ClientMoves
<1>2. ASSUME NEW n \in Ids, Ignorant(n)' PROVE Led(toBridge', n)
    <2>1. CASE AcceptReverse /\ n = nextLocalID
        <3>1. pc[n] = "idle" /\ UNCHANGED toBridge
            BY <2>1 DEF AcceptReverse, wireVars, IdsInv, Ids
        <3>2. \A j \in DOMAIN toBridge : toBridge[j].cmd = "WRTE" => toBridge[j].arg1 # n
            BY <1>0, <3>1 DEF IdsInv, Known, Unannounced
        <3>. QED  BY <3>1, <3>2 DEF Led
    <2>2. CASE ~(AcceptReverse /\ n = nextLocalID)
        <3>0. Ignorant(n) /\ Led(toBridge, n)
            BY <1>0, <1>2, <2>2, IgnorantStep DEF LearntInv
        <3>1. CASE UNCHANGED toBridge
            BY <3>0, <3>1
        <3>2. CASE toBridge' = <<>>
            BY <3>2 DEF Led
        <3>3. ASSUME NEW c \in Commands, ReaderTakes(c) PROVE Led(toBridge', n)
            <4>1. toBridge # <<>> /\ toBridge' = Tail(toBridge) /\ toBridge \in Seq(Packets)
                BY <3>3 DEF ReaderTakes, Arrived, TypeOK, WireOK
            <4>2. ASSUME Acks(n, Head(toBridge)) PROVE FALSE
                <5>1. ReadOkay
                    BY <3>3, <4>2 DEF Acks, ReaderTakes, ReadOpen, ReadClse, ReadWrte, Arrived
                <5>. QED  BY <1>2, <3>0, <4>2, <5>1, OkayTeaches DEF Acks, Ignorant
            <4>. QED  BY <3>0, <4>1, <4>2, LedTail
        <3>4. ASSUME NEW p \in Packets, CliSends(p), toBridge' = Append(toBridge, p)
              PROVE  Led(toBridge', n)
            <4>1. ASSUME p.cmd = "WRTE", p.arg1 = n PROVE \E o \in Range(toBridge) : Acks(n, o)
                <5>1. PICK r \in Ids : CliWrite(r) /\ cpeer[r] = n
                    BY <3>4, <4>1 DEF CliSends, Packet
                <5>2. Acked(n)
                    BY <1>0, <3>0, <5>1 DEF CliWrite, LearntInv
                <5>. QED  BY <5>2 DEF Acked
            <4>2. toBridge \in Seq(Packets)
                BY DEF TypeOK, WireOK
            <4>. QED  BY <3>0, <3>4, <4>1, <4>2, LedAppend
        <3>. QED  BY <3>1, <3>2, <3>3, <3>4, ToBridgeStep
    <2>. QED  BY <2>1, <2>2
<1>3. ASSUME rsvc' # NoId PROVE remoteID'[rsvc'] # NoId
    <2>1. CASE rsvc' = rsvc
        BY <1>0, <1>3, <2>1, Stable DEF LearntInv, TypeOK, ReaderOK
    <2>2. CASE ReadWrte /\ rsvc' = Head(toBridge).arg1 /\ rsvc' \in services
        <3>1. PICK n \in Ids : n = rsvc' /\ n \in services /\ Head(toBridge).arg1 = n
            BY <2>2 DEF TypeOK, MapOK
        <3>2. toBridge \in Seq(Packets) /\ toBridge # <<>> /\ Head(toBridge).cmd = "WRTE"
            BY <2>2 DEF ReadWrte, Arrived, TypeOK, WireOK
        <3>3. ~Led(toBridge, n)
            BY <3>1, <3>2, LedTail
        <3>4. remoteID[n] # NoId
            BY <1>0, <3>1, <3>3 DEF LearntInv, Ignorant
        <3>. QED  BY <3>1, <3>4, Stable
    <2>. QED  BY <1>3, <2>1, <2>2, ReaderWork
<1>4. ASSUME NEW r \in Ids, cst'[r] = "open", Ignorant(cpeer[r])' PROVE Acked(cpeer[r])'
    <2>1. PICK n \in Ids : cpeer'[r] = n /\ Ignorant(n)'
        BY <1>4 DEF Ignorant, TypeOK, MapOK
    <2>2. Acked(n)'
        BY <1>1, <1>4, <2>1
    <2>. QED  BY <2>1, <2>2 DEF Acked
<1>. QED  BY <1>2, <1>3, <1>4

LEMMA AnsweredStep ==
    ASSUME StreamInv, CwaitInv, ServedInv, LearntInv, AnsweredInv, Next, CwaitInv', ServedInv'
    PROVE  AnsweredInv'
<1>. USE DEF StreamInv, SessionInv
<1>. DEFINE Goal(r) == \/ Asked(r)' \/ Answer(r)'
                       \/ rsvc' = cpeer'[r] \/ pc'[cpeer'[r]] \in Ending
                       \/ closed' \/ rpc' = "exit"
<1>. SUFFICES ASSUME NEW r \in Ids, cwait'[r], ~closed', rpc' # "exit" PROVE Goal(r)
    BY DEF AnsweredInv, Asked, Answer
<1>0. NoId \notin Ids /\ ~closed /\ ~gone' /\ connUp'
    BY ClosedFrame DEF CwaitInv, ServedInv, Ids, NoId
<1>1. CASE CliWrite(r)
    <2>1. ClientSends(Packet("WRTE", r, cpeer[r])) /\ Packet("WRTE", r, cpeer[r]) \in Packets
        BY <1>1, PacketOK DEF CliWrite, Commands, TypeOK, ClientOK
    <2>2. Packet("WRTE", r, cpeer[r]) \in Range(toBridge')
        BY <2>1, ClientSendsEffect DEF Appended, TypeOK
    <2>. QED  BY <2>2 DEF Asked, Packet
<1>2. CASE ~CliWrite(r)
    <2>1. cwait[r] /\ cst[r] = "open"
        <3>1. cwait[r]
            BY <1>2, CwaitMoves
        <3>. QED  BY <3>1 DEF CwaitInv
    <2>2. PICK n \in Ids : cpeer[r] = n /\ cpeer'[r] = n
        BY <1>0, <2>1, Stable DEF PacketInv, OwnInv, TypeOK, ClientOK
    <2>3. CASE Asked(r)
        <3>1. PICK p \in Range(toBridge) : p.cmd = "WRTE" /\ p.arg0 = r
            BY <2>3 DEF Asked
        <3>2. CASE p \in Range(toBridge')
            BY <3>1, <3>2 DEF Asked
        <3>3. CASE p \notin Range(toBridge')
            <4>1. PICK c \in Commands : ReaderTakes(c)
                BY <1>0, <3>3, ToBridgeStep DEF Appended, TypeOK
            <4>2. p = Head(toBridge)
                BY <3>3, <4>1, ArrivedEffect DEF ReaderTakes, Took, TypeOK
            <4>3. ReadWrte
                BY <3>1, <4>1, <4>2 DEF ReaderTakes, ReadOpen, ReadClse, ReadOkay, Arrived
            <4>4. p.arg1 = n
                BY <1>0, <2>2, <3>1 DEF PacketInv, WireInv, OtherToBridge
            <4>5. CASE n \in services
                BY <2>2, <4>2, <4>3, <4>4, <4>5 DEF ReadWrte
            <4>6. CASE n \notin services
                <5>1. pc[n] # "idle"
                    <6>1. Known(n)
                        BY <3>1, <4>4, PacketsKnown
                    <6>. QED  BY <1>0, <6>1 DEF Known, Unannounced
                <5>2. pc[n] \in Ending
                    BY <1>0, <4>6, <5>1 DEF ServedInv, Ending
                <5>. QED  BY <2>2, <5>2, EndingStays
            <4>. QED  BY <4>5, <4>6
        <3>. QED  BY <3>2, <3>3
    <2>4. CASE Answer(r)
        <3>1. PICK p \in Range(toClient) : p.cmd \in {"OKAY", "CLSE"} /\ p.arg1 = r
            BY <2>4 DEF Answer
        <3>2. CASE p \in Range(toClient')
            BY <3>1, <3>2 DEF Answer
        <3>3. CASE p \notin Range(toClient')
            <4>1. PICK c \in Commands : ClientTakes(c)
                BY <1>0, <3>3, ToClientStep DEF Appended, TypeOK
            <4>2. p = Head(toClient)
                BY <3>3, <4>1, ReceivedEffect DEF ClientTakes, Took, TypeOK
            <4>3. RecvOkay \/ RecvClse
                BY <3>1, <4>1, <4>2 DEF ClientTakes, RecvWrte, RecvOpen, Received
            <4>4. ~cwait'[r]
                BY <3>1, <4>2, <4>3 DEF RecvOkay, RecvClse, TypeOK, ClientOK
            <4>. QED  BY <4>4
        <3>. QED  BY <3>2, <3>3
    <2>5. CASE rsvc = n
        <3>1. CASE rsvc' = n
            BY <2>2, <3>1
        <3>2. CASE WriteOkay
            <4>1. remoteID[n] = r
                BY <1>0, <2>2, <2>5 DEF LearntInv, PacketInv, OwnInv
            <4>2. Sent(NoId, Packet("OKAY", n, r)) /\ Packet("OKAY", n, r) \in Packets /\ ~gone
                BY <1>0, <2>1, <2>5, <3>2, <4>1, PacketOK DEF WriteOkay, Commands, CwaitInv
            <4>3. Packet("OKAY", n, r) \in Range(toClient')
                BY <4>2, SentEffect DEF Appended, TypeOK
            <4>. QED  BY <4>3 DEF Answer, Packet
        <3>. QED  BY <1>0, <2>5, <3>1, <3>2, ReaderWork
    <2>6. CASE pc[n] \in Ending
        BY <2>2, <2>6, EndingStays
    <2>7. rpc # "exit"
        BY ReaderWork
    <2>. QED  BY <1>0, <2>1, <2>2, <2>3, <2>4, <2>5, <2>6, <2>7 DEF AnsweredInv
<1>. QED  BY <1>1, <1>2

LEMMA AnswerStep == ASSUME StreamInv, PeerInv, AnswerInv, Next, TypeOK' PROVE AnswerInv'
<1>1. CwaitInv' /\ ServedInv'
    BY CwaitStep, ServedStep DEF AnswerInv
<1>2. LearntInv'
    BY <1>1, LearntStep DEF AnswerInv
<1>3. AnsweredInv'
    BY <1>1, AnsweredStep DEF AnswerInv
<1>. QED  BY <1>1, <1>2, <1>3 DEF AnswerInv

LEMMA InitAnswer == Init => AnswerInv
<1>. SUFFICES ASSUME Init PROVE AnswerInv
    OBVIOUS
<1>1. /\ \A n \in Ids : pc[n] = "idle"
      /\ \A r \in Ids : cst[r] = "idle" /\ ~cwait[r]
      /\ services = {} /\ rsvc = NoId /\ rpc = "read" /\ connUp = TRUE
    BY DEF Init
<1>. QED  BY <1>1 DEF AnswerInv, CwaitInv, ServedInv, LearntInv, Ignorant, AnsweredInv

LEMMA StutterAnswer == AnswerInv /\ UNCHANGED vars => AnswerInv'
<1>. SUFFICES ASSUME AnswerInv, UNCHANGED vars PROVE AnswerInv'
    OBVIOUS
<1>. USE DEF vars, wireVars, clientVars, closeVars, mapVars, readerVars, serviceVars
<1>1. CwaitInv' /\ ServedInv'
    BY DEF AnswerInv, CwaitInv, ServedInv
<1>2. LearntInv'
    BY DEF AnswerInv, LearntInv, Ignorant, Acked, Led
<1>3. AnsweredInv'
    BY DEF AnswerInv, AnsweredInv, Asked, Answer
<1>. QED  BY <1>1, <1>2, <1>3 DEF AnswerInv

(* A WRTE of the client is answered, or its stream or the session ends. *)
THEOREM AnswerIsKept == Spec => []AnswerInv
<1>1. TypeOK /\ IdsInv /\ ReleaseInv /\ PacketInv /\ FlowInv /\ LossInv /\ AnswerInv
        /\ (TypeOK)' /\ [Next]_vars => AnswerInv'
    BY AnswerStep, StutterAnswer DEF StreamInv, SessionInv, LossInv
<1>. QED
    BY <1>1, InitAnswer, TypeCorrect, ReleaseInvariant, PacketsLawful, OneToken, TokenIsKept, PTL
       DEF Spec

(* A client that waits for the OKAY of its WRTE gets it, or the CLSE of the
   stream: the reader drops a WRTE only for a stream that is ending. *)
THEOREM WritesAreAnswered == Spec => []NoLostAnswer
<1>1. AnswerInv => NoLostAnswer
    BY DEF AnswerInv, AnsweredInv, Asked, Answer, NoLostAnswer, Range
<1>. QED  BY <1>1, AnswerIsKept, PTL
=============================================================================
