---------------------------- MODULE HdcStreamsProofs ----------------------------
(***************************************************************************)
(* Proofs about a stream of HdcStreams, for every capacity of its pipe,    *)
(* every number of requests, chunks and attempts, and every set of kinds.  *)
(***************************************************************************)
EXTENDS HdcStreams, SequenceTheorems, TLAPS

----------------------------------------------------------------------------
(* The inductive invariant                                                 *)

PushLabels == {"push", "begin", "data", "finish"}
SyncLabels == {"read", "emit", "send", "marker", "recv", "gone"} \cup PushLabels
ShellLabels == {"copy", "put", "exit", "close", "gone"}
ForwardLabels == {"setup", "dial", "probe", "live", "gone"}

\* Each kind of stream has its own code to be in.
KindInv ==
    /\ kind = "sync" => srv \in SyncLabels /\ inp = "gone"
    /\ IsShell => srv \in ShellLabels
    /\ kind = "forward" => srv \in ForwardLabels /\ inp = "gone"

\* What a sync server has to write at a time.
Outputs == {<<>>, <<"STAT">>, <<"DENT", "DONE">>, <<"DONE">>, <<"FAIL">>, <<"OKAY">>, <<"DATA">>}

\* The sync server holds a temporary file only within a SEND, where it has every DATA
\* given so far, and a channel only within a RECV or the transfer to the device.
SyncInv ==
    /\ out \in Outputs /\ (srv # "emit" => out = <<>>)
    /\ tmp => srv \in {"send", "emit"} \cup PushLabels /\ kind = "sync"
    /\ srv \in {"send"} \cup PushLabels => stored = given
    /\ kind = "sync" /\ chan = "open" =>
          srv \in {"marker", "recv", "emit", "begin", "data", "finish"}
    /\ kind = "sync" /\ srv = "gone" => sClosed

\* closeBoth is one step for the channel and the pipe, and has run when the output copy
\* is at its end.
ShellInv ==
    IsShell =>
        /\ chan \in {"open", "closed"} /\ (chan = "closed" <=> sClosed)
        /\ srv = "gone" => sClosed

\* Only the rule of the attempt in hand is neither removed nor lost to a failed command.
ForwardInv ==
    /\ srv \in {"dial", "probe", "live"} => tries # 0
    /\ kind # "forward" => rules = {}
    /\ kind = "forward" => /\ chan = "none"
                           /\ rules \subseteq failed \cup {tries}
                           /\ srv \in {"setup", "gone"} => rules \subseteq failed

IInv ==
    /\ TypeOK /\ KindInv /\ SyncInv /\ ShellInv /\ ForwardInv
    /\ ReleasedAtEnd /\ OkayMeansStored

----------------------------------------------------------------------------
(* Types                                                                   *)

(* A message joins a queue that has room, and the first one leaves it. *)
LEMMA QueueAppend ==
    ASSUME NEW M, NEW q \in Seq(M), NEW m \in M, Len(q) < Cap
    PROVE  Append(q, m) \in Seq(M) /\ Len(Append(q, m)) <= Cap
BY HdcAssumption, AppendProperties

LEMMA QueueTail ==
    ASSUME NEW M, NEW q \in Seq(M), q # <<>>, Len(q) <= Cap
    PROVE  Tail(q) \in Seq(M) /\ Len(Tail(q)) <= Cap /\ Head(q) \in M
BY HdcAssumption, HeadTailProperties

LEMMA OutputsAreAnswers == Outputs \subseteq Seq(Answers)
BY DEF Outputs, Answers

LEMMA InitTypeOK == Init => TypeOK
<1>. SUFFICES ASSUME Init PROVE TypeOK
    OBVIOUS
<1>1. /\ in \in Seq(Requests) /\ Len(in) <= Cap
      /\ outq \in Seq(Answers) /\ Len(outq) <= Cap /\ out \in Seq(Answers)
    BY HdcAssumption DEF Init
<1>2. srv \in {"read", "copy", "setup"}
    BY DEF Init
<1>3. chan \in {"none", "open", "closed"} /\ dev \in 0 .. Chunks /\ tries \in 0 .. Retries
      /\ sent \in 0 .. MaxRequests
    BY HdcAssumption DEF Init
<1>. QED  BY <1>1, <1>2, <1>3 DEF Init, TypeOK

(* The bridge's end keeps the types. *)
LEMMA ClientTypeOK ==
    ASSUME TypeOK, (\E r \in Requests : ClientWrites(r)) \/ ClientReads \/ ClientCloses
                   \/ ShellInput \/ DeviceTakes
    PROVE  TypeOK'
<1>. USE DEF TypeOK, goVars, fwdVars, pushVars
<1>1. ASSUME NEW r \in Requests, ClientWrites(r) PROVE TypeOK'
    <2>1. in' \in Seq(Requests) /\ Len(in') <= Cap
        BY <1>1, QueueAppend DEF ClientWrites
    <2>2. sent' \in 0 .. MaxRequests
        BY <1>1, HdcAssumption DEF ClientWrites
    <2>. QED  BY <1>1, <2>1, <2>2 DEF ClientWrites
<1>2. CASE ClientReads
    <2>1. outq' \in Seq(Answers) /\ Len(outq') <= Cap
        BY <1>2, QueueTail DEF ClientReads
    <2>. QED  BY <1>2, <2>1 DEF ClientReads
<1>3. CASE ClientCloses
    BY <1>3 DEF ClientCloses
<1>4. CASE ShellInput
    <2>1. sent' \in 0 .. MaxRequests
        BY <1>4, HdcAssumption DEF ShellInput
    <2>2. inp' \in {"read", "write", "close", "gone"}
        BY ZenonT(60), <1>4 DEF ShellInput
    <2>3. UNCHANGED <<kind, cClosed, sClosed, in, outq, srv, out, then, chan, dev, tmp, fwdVars,
                      pushVars>>
        BY <1>4 DEF ShellInput
    <2>. QED  BY <2>1, <2>2, <2>3
<1>5. CASE DeviceTakes
    <2>1. got' \in Nat
        BY <1>5 DEF DeviceTakes
    <2>. QED  BY <1>5, <2>1 DEF DeviceTakes, pipeVars
<1>. QED  BY <1>1, <1>2, <1>3, <1>4, <1>5

(* The sync server takes one request at a time from the queue. *)
LEMMA TakenOK ==
    ASSUME TypeOK, in # <<>>, in' = Tail(in)
    PROVE  in' \in Seq(Requests) /\ Len(in') <= Cap /\ Head(in) \in Requests
BY QueueTail DEF TypeOK

LEMMA ReadFailsOK ==
    ASSUME TypeOK, ReadFails
    PROVE  in' \in Seq(Requests) /\ Len(in') <= Cap
BY TakenOK DEF ReadFails, TypeOK

LEMMA AnswerOK ==
    ASSUME NEW a \in Outputs, NEW l \in {"read", "recv", "quit"}, Answer(a, l)
    PROVE  /\ out' \in Outputs /\ out' \in Seq(Answers)
           /\ then' \in {"read", "recv", "quit"} /\ srv' = "emit"
BY OutputsAreAnswers DEF Answer

LEMMA SyncTypeOK ==
    ASSUME TypeOK, SyncStep
    PROVE  TypeOK'
<1>. USE DEF TypeOK, fwdVars, pushVars
<1>1. CASE SyncEof
    BY <1>1, ReadFailsOK DEF SyncEof
<1>2. CASE SyncRequest
    <2>1. out' \in Seq(Answers) /\ then' \in {"read", "recv", "quit"} /\ srv' = "emit"
        BY <1>2, AnswerOK DEF SyncRequest, ListAnswers, Outputs
    <2>2. in' \in Seq(Requests) /\ Len(in') <= Cap
        BY <1>2, TakenOK DEF SyncRequest
    <2>. QED  BY <1>2, <2>1, <2>2 DEF SyncRequest
<1>3. CASE SyncSend
    <2>0. given' \in Nat /\ stored' \in Nat /\ fed' \in Nat /\ got' \in Nat
        BY <1>3 DEF SyncSend
    <2>1. /\ out' \in Seq(Answers) /\ then' \in {"read", "recv", "quit"}
          /\ srv' \in {"emit", "send"} /\ tmp' \in BOOLEAN
        BY <1>3, AnswerOK DEF SyncSend, Outputs
    <2>2. in' \in Seq(Requests) /\ Len(in') <= Cap
        BY <1>3, TakenOK DEF SyncSend
    <2>. QED  BY <1>3, <2>0, <2>1, <2>2 DEF SyncSend
<1>4. CASE SyncRecv
    <2>1. /\ out' \in Seq(Answers) /\ then' \in {"read", "recv", "quit"}
          /\ srv' \in {"emit", "marker"} /\ chan' \in {"none", "open", "closed"}
          /\ dev' \in 0 .. Chunks
        BY <1>4, AnswerOK, HdcAssumption DEF SyncRecv, Outputs
    <2>2. in' \in Seq(Requests) /\ Len(in') <= Cap
        BY <1>4, TakenOK DEF SyncRecv
    <2>. QED  BY <1>4, <2>1, <2>2 DEF SyncRecv
<1>5. CASE SendData \/ SendEnds
    <2>1. /\ out' \in Seq(Answers) /\ then' \in {"read", "recv", "quit"}
          /\ srv' \in {"emit", "send", "push"} /\ given' \in Nat /\ stored' \in Nat
        BY <1>5, AnswerOK DEF SendData, SendEnds, Outputs
    <2>2. in' \in Seq(Requests) /\ Len(in') <= Cap
        BY <1>5, TakenOK DEF SendData, SendEnds
    <2>3. UNCHANGED <<kind, cClosed, sClosed, outq, sent, inp, chan, dev, tmp, fed, got, fwdVars>>
        BY <1>5 DEF SendData, SendEnds
    <2>. QED  BY <2>1, <2>2, <2>3
<1>6. CASE SendEof
    BY ZenonT(60), <1>6, ReadFailsOK DEF SendEof
<1>7. CASE PushOpen \/ PushBegin \/ PushData \/ PushFinish \/ RecvMarker
    <2>1. /\ out' \in Seq(Answers) /\ then' \in {"read", "recv", "quit"}
          /\ srv' \in {"emit", "begin", "data", "finish", "recv"} /\ fed' \in Nat
          /\ chan' \in {"none", "open", "closed"}
        BY <1>7, AnswerOK DEF PushOpen, PushBegin, PushData, PushFinish, PushFails, RecvMarker,
                              Outputs
    <2>2. UNCHANGED <<kind, pipeVars, inp, dev, tmp, fwdVars, given, stored, got>>
        BY <1>7 DEF PushOpen, PushBegin, PushData, PushFinish, RecvMarker
    <2>. QED  BY ZenonT(60), <2>1, <2>2 DEF pipeVars
<1>8. CASE RecvData
    <2>1. /\ out' \in Seq(Answers) /\ then' \in {"read", "recv", "quit"} /\ srv' = "emit"
        BY <1>8, AnswerOK DEF RecvData, Outputs
    <2>2. dev' \in 0 .. Chunks
        BY <1>8, HdcAssumption DEF RecvData
    <2>. QED  BY <1>8, <2>1, <2>2 DEF RecvData, pipeVars
<1>9. CASE EmitWrite
    <2>1. Head(out) \in Answers /\ Tail(out) \in Seq(Answers)
        BY <1>9, HeadTailProperties DEF EmitWrite
    <2>2. outq' \in Seq(Answers) /\ Len(outq') <= Cap
        BY <1>9, <2>1, QueueAppend DEF EmitWrite
    <2>. QED  BY <1>9, <2>1, <2>2 DEF EmitWrite
<1>10. CASE EmitDone
    <2>1. srv' \in {"gone", "read", "send", "recv"} /\ sClosed' \in BOOLEAN
        BY <1>10 DEF EmitDone
    <2>2. tmp' \in BOOLEAN /\ chan' \in {"none", "open", "closed"} /\ dev' \in 0 .. Chunks
        <3>1. CASE then = "recv"
            BY <1>10, <3>1 DEF EmitDone
        <3>2. CASE then # "recv"
            <4>1. 0 \in 0 .. Chunks
                BY HdcAssumption
            <4>. QED  BY <1>10, <3>2, <4>1 DEF EmitDone
        <3>. QED  BY <3>1, <3>2
    <2>3. UNCHANGED <<kind, cClosed, in, outq, sent, inp, out, then, fwdVars, pushVars>>
        BY <1>10 DEF EmitDone
    <2>. QED  BY <2>1, <2>2, <2>3
<1>. QED  BY <1>1, <1>2, <1>3, <1>4, <1>5, <1>6, <1>7, <1>8, <1>9, <1>10 DEF SyncStep

LEMMA ShellTypeOK ==
    ASSUME TypeOK, ShellInputStep \/ ShellOutputStep
    PROVE  TypeOK'
<1>. USE DEF TypeOK, pipeVars, fwdVars, pushVars
<1>1. CASE ShellInputStep
    BY ZenonT(60), <1>1 DEF ShellInputStep, ShellInputEof, ShellInputWrite, ShellInputClose
<1>2. CASE ShellRead
    <2>1. dev' \in 0 .. Chunks
        BY <1>2, HdcAssumption DEF ShellRead
    <2>. QED  BY <1>2, <2>1 DEF ShellRead
<1>3. CASE ShellPut \/ ShellExit \/ ShellClose
    BY ZenonT(60), <1>3 DEF ShellPut, ShellExit, ShellClose
<1>. QED  BY <1>1, <1>2, <1>3 DEF ShellOutputStep

\* Needs to know that there has been an attempt when a connection is tried.
LEMMA ForwardTypeOK ==
    ASSUME TypeOK, ForwardInv, ForwardStep
    PROVE  TypeOK'
<1>. USE DEF TypeOK, pipeVars, pushVars
<1>1. CASE Setup
    <2>0. UNCHANGED <<kind, pipeVars, inp, out, then, chan, dev, tmp, pushVars>>
        BY <1>1 DEF Setup
    <2>1. CASE tries = Retries
        <3>1. srv' = "gone" /\ UNCHANGED <<tries, rules, failed>>
            BY <1>1, <2>1 DEF Setup
        <3>. QED  BY <2>0, <3>1
    <2>2. CASE tries # Retries
        <3>1. tries' = tries + 1 /\ tries' \in 0 .. Retries /\ tries' \in 1 .. Retries
            BY <1>1, <2>2, HdcAssumption DEF Setup
        <3>2. /\ rules' \subseteq 1 .. Retries /\ failed' \subseteq 1 .. Retries
              /\ srv' \in {"setup", "dial", "gone"}
            BY <1>1, <2>2, <3>1 DEF Setup
        <3>. QED  BY <2>0, <3>1, <3>2
    <2>. QED  BY <2>1, <2>2
<1>2. CASE ForwardDial \/ ForwardProbe \/ ForwardClose
    <2>1. UNCHANGED <<kind, pipeVars, inp, out, then, chan, dev, tmp, tries, pushVars>>
        BY <1>2 DEF ForwardDial, ForwardProbe, ForwardClose
    <2>2. Cleanup \/ UNCHANGED <<rules, failed>>
        BY <1>2 DEF ForwardDial, ForwardProbe, ForwardClose
    <2>3. srv' \in {"probe", "setup", "live", "gone"}
        BY <1>2 DEF ForwardDial, ForwardProbe, ForwardClose
    <2>4. tries \in 1 .. Retries
        BY <1>2 DEF ForwardDial, ForwardProbe, ForwardClose, ForwardInv
    <2>5. rules' \subseteq 1 .. Retries /\ failed' \subseteq 1 .. Retries
        BY <2>2, <2>4 DEF Cleanup
    <2>. QED  BY <2>1, <2>3, <2>5
<1>. QED  BY <1>1, <1>2 DEF ForwardStep

----------------------------------------------------------------------------
(* The invariant                                                           *)

LEMMA InitInv == Init => IInv
<1>. SUFFICES ASSUME Init PROVE IInv
    OBVIOUS
<1>1. kind \in AllKinds
    BY HdcAssumption DEF Init
<1>2. KindInv /\ ShellInv /\ ForwardInv /\ ReleasedAtEnd /\ OkayMeansStored
    BY <1>1 DEF Init, AllKinds, IsShell, KindInv, ShellInv, ForwardInv, ReleasedAtEnd, Over,
                OkayMeansStored, SyncLabels, PushLabels, ShellLabels, ForwardLabels
<1>3. SyncInv
    BY <1>1 DEF Init, AllKinds, IsShell, SyncInv, Outputs
<1>. QED  BY <1>2, <1>3, InitTypeOK DEF IInv

(* What the client does at its end gives the backend nothing and takes nothing. *)
LEMMA ClientInv ==
    ASSUME IInv, (\E r \in Requests : ClientWrites(r)) \/ ClientReads \/ ClientCloses
                 \/ ShellInput \/ DeviceTakes
    PROVE  IInv'
<1>1. TypeOK'
    BY ClientTypeOK DEF IInv
<1>. USE DEF IInv
<1>2. /\ UNCHANGED <<kind, sClosed, srv, out, then, chan, tmp, fwdVars, given, stored>>
      /\ got' = got \/ srv # "emit"
      /\ inp' = inp \/ (IsShell /\ inp' # "gone")
    BY DEF ClientWrites, ClientReads, ClientCloses, ShellInput, DeviceTakes, goVars, pushVars,
           pipeVars
<1>3. KindInv' /\ SyncInv' /\ ShellInv' /\ ForwardInv' /\ OkayMeansStored'
    BY <1>2 DEF KindInv, SyncInv, ShellInv, ForwardInv, OkayMeansStored, IsShell, fwdVars
<1>4. ReleasedAtEnd'
    BY <1>2 DEF ReleasedAtEnd, Over, fwdVars
<1>. QED  BY <1>1, <1>3, <1>4

(* The sync server: what it may be writing, and what it holds meanwhile. *)
LEMMA OutputFacts ==
    /\ \A a \in {<<>>, <<"STAT">>, <<"DENT", "DONE">>, <<"DONE">>, <<"FAIL">>, <<"DATA">>} :
          a # <<"OKAY">>
    /\ \A a \in {<<>>, <<"STAT">>, <<"DENT", "DONE">>, <<"OKAY">>, <<"FAIL">>, <<"DATA">>} :
          a # <<"DONE">>
    /\ \A a \in {<<>>, <<"STAT">>, <<"DONE">>, <<"OKAY">>, <<"FAIL">>, <<"DATA">>} :
          a # <<"DENT", "DONE">>
OBVIOUS

LEMMA OutputTail ==
    ASSUME NEW a \in Outputs, a # <<>>
    PROVE  /\ a = <<"DENT", "DONE">> => Tail(a) = <<"DONE">>
           /\ a # <<"DENT", "DONE">> => Tail(a) = <<>>
<1>1. CASE a = <<"DENT", "DONE">>
    BY <1>1
<1>2. CASE a # <<"DENT", "DONE">>
    <2>1. PICK x \in Answers : a = <<x>>
        BY <1>2 DEF Outputs, Answers
    <2>. QED  BY <1>2, <2>1
<1>. QED  BY <1>1, <1>2

LEMMA SyncKind ==
    ASSUME IInv, SyncStep
    PROVE  /\ kind = "sync" /\ inp = "gone" /\ rules = {}
           /\ UNCHANGED <<kind, inp, rules>>
           /\ srv \in {"read", "send", "marker", "recv", "emit"} \cup PushLabels
<1>1. srv \in {"read", "send", "marker", "recv", "emit"} \cup PushLabels
    BY DEF SyncStep, SyncEof, SyncRequest, SyncSend, SyncRecv, SendData, SendEnds, SendEof,
           PushOpen, PushBegin, PushData, PushFinish, RecvMarker, RecvData, EmitWrite, EmitDone,
           PushLabels
<1>2. kind \in AllKinds
    BY HdcAssumption DEF IInv, TypeOK
<1>3. kind = "sync"
    BY <1>1, <1>2 DEF AllKinds, IInv, KindInv, IsShell, PushLabels, ShellLabels, ForwardLabels
<1>4. UNCHANGED <<kind, inp, rules>>
    BY DEF SyncStep, SyncEof, SyncRequest, SyncSend, SyncRecv, SendData, SendEnds, SendEof,
           PushOpen, PushBegin, PushData, PushFinish, RecvMarker, RecvData, EmitWrite, EmitDone, fwdVars
<1>. QED  BY <1>1, <1>3, <1>4 DEF IInv, KindInv, ForwardInv

LEMMA SyncStepInv ==
    ASSUME IInv, SyncStep
    PROVE  IInv'
<1>. DEFINE Held == SyncInv' /\ OkayMeansStored' /\ srv' \in SyncLabels
<1>1. TypeOK'
    BY SyncTypeOK DEF IInv
<1>2. kind = "sync" /\ inp = "gone" /\ rules = {} /\ UNCHANGED <<kind, inp, rules>>
    BY SyncKind
<1>. USE <1>2, OutputFacts
         DEF IInv, SyncInv, OkayMeansStored, SyncLabels, PushLabels, IsShell, Answer,
             fwdVars, pushVars
<1>3. ASSUME SyncEof PROVE Held
    BY <1>3 DEF SyncEof
<1>4. ASSUME SyncRequest PROVE Held
    BY <1>4 DEF SyncRequest, ListAnswers, Outputs
<1>5. ASSUME SyncSend PROVE Held
    BY <1>5 DEF SyncSend, Outputs
<1>6. ASSUME SyncRecv PROVE Held
    BY <1>6 DEF SyncRecv, Outputs
<1>7. ASSUME SendData PROVE Held
    BY <1>7 DEF SendData, Outputs
<1>8. ASSUME SendEnds PROVE Held
    BY <1>8 DEF SendEnds, Outputs
<1>9. ASSUME SendEof PROVE Held
    BY <1>9 DEF SendEof
<1>10. ASSUME PushOpen \/ PushBegin \/ PushData PROVE Held
    BY <1>10 DEF PushOpen, PushBegin, PushData, PushFails, Outputs, pipeVars
<1>10a. ASSUME PushFinish PROVE Held
    BY <1>10a DEF PushFinish, PushFails, Outputs, pipeVars
<1>11. ASSUME RecvMarker PROVE Held
    BY <1>11 DEF RecvMarker, Outputs, pipeVars
<1>12. ASSUME RecvData PROVE Held
    BY <1>12 DEF RecvData, Outputs, pipeVars
<1>13. ASSUME EmitWrite PROVE Held
    BY <1>13, OutputTail DEF EmitWrite, Outputs
<1>14. ASSUME EmitDone PROVE Held
    BY <1>14 DEF EmitDone, Outputs, TypeOK
<1>15. Held
    BY <1>3, <1>4, <1>5, <1>6, <1>7, <1>8, <1>9, <1>10, <1>10a, <1>11, <1>12, <1>13,
       <1>14 DEF SyncStep
<1>16. KindInv' /\ ShellInv' /\ ForwardInv'
    BY <1>15 DEF KindInv, ShellInv, ForwardInv
<1>17. ReleasedAtEnd'
    BY <1>15 DEF ReleasedAtEnd, Over
<1>. QED  BY <1>1, <1>15, <1>16, <1>17

(* The two copies of a shell end together with the channel and the pipe. *)
LEMMA ShellKind ==
    ASSUME IInv, ShellInputStep \/ ShellOutputStep
    PROVE  IsShell /\ UNCHANGED <<kind, tmp, out, then, given, got, fwdVars, cClosed>> /\ ~tmp
<1>1. kind \in AllKinds /\ (inp = "close" => IsShell)
    BY HdcAssumption DEF IInv, TypeOK, KindInv, AllKinds, IsShell
<1>2. IsShell /\ UNCHANGED <<kind, tmp, out, then, given, got, fwdVars, cClosed>>
    BY <1>1 DEF ShellInputStep, ShellOutputStep, ShellInputEof, ShellInputWrite, ShellInputClose,
                ShellRead, ShellPut, ShellExit, ShellClose, pipeVars, pushVars
<1>. QED  BY <1>2 DEF IInv, SyncInv, IsShell

LEMMA ShellStepInv ==
    ASSUME IInv, ShellInputStep \/ ShellOutputStep
    PROVE  IInv'
<1>1. TypeOK'
    BY ShellTypeOK DEF IInv
<1>2. IsShell /\ UNCHANGED <<kind, tmp, out, then, given, got, fwdVars, cClosed>> /\ ~tmp
    BY ShellKind
<1>3. IsShell' /\ kind \notin {"sync", "forward"} /\ srv \in ShellLabels /\ rules = {} /\ rules' = {}
    BY <1>2 DEF IsShell, IInv, KindInv, ForwardInv, fwdVars
<1>. DEFINE Held == ShellInv' /\ srv' \in ShellLabels
<1>. USE <1>2, <1>3
<1>4. ASSUME ShellInputStep PROVE Held
    <2>. USE DEF IInv, ShellInv, ShellLabels
    <2>1. ASSUME ShellInputEof PROVE Held
        BY <2>1 DEF ShellInputEof, Broken, pipeVars, pushVars
    <2>2. ASSUME ShellInputWrite PROVE Held
        BY <2>2 DEF ShellInputWrite, pipeVars
    <2>3. ASSUME ShellInputClose PROVE Held
        BY <2>3 DEF ShellInputClose, pushVars
    <2>. QED  BY <1>4, <2>1, <2>2, <2>3 DEF ShellInputStep
<1>5. ASSUME ShellOutputStep PROVE Held
    <2>. USE DEF IInv, ShellInv, ShellLabels
    <2>1. ASSUME ShellRead PROVE Held
        BY <2>1, HdcAssumption DEF ShellRead, pipeVars, TypeOK
    <2>2. ASSUME ShellPut PROVE Held
        BY <2>2 DEF ShellPut, Broken, pipeVars, pushVars
    <2>3. ASSUME ShellExit PROVE Held
        BY <2>3 DEF ShellExit, pipeVars, pushVars
    <2>4. ASSUME ShellClose PROVE Held
        BY <2>4 DEF ShellClose, pushVars
    <2>. QED  BY <1>5, <2>1, <2>2, <2>3, <2>4 DEF ShellOutputStep
<1>6. Held
    BY <1>4, <1>5
<1>7. KindInv' /\ ForwardInv'
    BY <1>6 DEF KindInv, ForwardInv, ShellLabels, IInv
<1>8. SyncInv' /\ OkayMeansStored'
    BY <1>6 DEF SyncInv, OkayMeansStored, PushLabels, ShellLabels, IInv
<1>9. ReleasedAtEnd'
    BY <1>6 DEF ReleasedAtEnd, Over, ShellInv
<1>. QED  BY <1>1, <1>6, <1>7, <1>8, <1>9 DEF IInv

(* The rule of an attempt is removed, or its command has failed, before the next. *)
LEMMA ForwardStepInv ==
    ASSUME IInv, ForwardStep
    PROVE  IInv'
<1>1. TypeOK'
    BY ForwardTypeOK DEF IInv
<1>2. /\ UNCHANGED <<kind, pipeVars, inp, out, then, chan, dev, tmp, pushVars>>
      /\ srv \in {"setup", "dial", "probe", "live"}
    BY DEF ForwardStep, Setup, ForwardDial, ForwardProbe, ForwardClose
<1>3. kind = "forward"
    <2>1. kind \in AllKinds
        BY HdcAssumption DEF IInv, TypeOK
    <2>. QED  BY <1>2, <2>1 DEF AllKinds, IInv, KindInv, SyncLabels, PushLabels, ShellLabels, IsShell
<1>4. srv' \in ForwardLabels /\ ForwardInv'
    <2>1. CASE Setup
        <3>1. CASE tries = Retries
            BY <1>2, <1>3, <2>1, <3>1 DEF Setup, ForwardLabels, IInv, ForwardInv
        <3>2. CASE tries # Retries
            <4>1. tries' = tries + 1 /\ tries' # 0
                BY <2>1, <3>2, HdcAssumption DEF Setup, IInv, TypeOK
            <4>2. rules \subseteq failed
                BY <1>3, <2>1 DEF Setup, IInv, ForwardInv
            <4>3. /\ srv' \in {"dial", "setup", "gone"} /\ rules' \subseteq failed' \cup {tries'}
                  /\ srv' \in {"setup", "gone"} => rules' \subseteq failed'
                BY <2>1, <3>2, <4>2 DEF Setup
            <4>. QED  BY <1>2, <1>3, <4>1, <4>3 DEF ForwardLabels, IInv, ForwardInv
        <3>. QED  BY <3>1, <3>2
    <2>2. CASE ForwardDial \/ ForwardProbe \/ ForwardClose
        <3>1. /\ tries' = tries /\ tries # 0
              /\ \/ srv' \in {"probe", "live"} /\ UNCHANGED <<rules, failed>>
                 \/ srv' \in {"setup", "gone"} /\ Cleanup
            BY <2>2 DEF ForwardDial, ForwardProbe, ForwardClose, IInv, ForwardInv
        <3>2. Cleanup => rules' \subseteq failed'
            BY <1>3 DEF Cleanup, IInv, ForwardInv
        <3>. QED  BY <1>2, <1>3, <3>1, <3>2 DEF ForwardLabels, IInv, ForwardInv
    <2>. QED  BY <2>1, <2>2 DEF ForwardStep
<1>5. KindInv' /\ SyncInv' /\ ShellInv'
    BY <1>2, <1>3, <1>4 DEF KindInv, SyncInv, ShellInv, IsShell, PushLabels,
                                 ForwardLabels, IInv, pushVars
<1>6. ReleasedAtEnd' /\ OkayMeansStored'
    BY <1>2, <1>3, <1>4, <1>5 DEF ReleasedAtEnd, Over, OkayMeansStored, IsShell,
                            ForwardLabels, ForwardInv, IInv, SyncInv
<1>. QED  BY <1>1, <1>4, <1>5, <1>6 DEF IInv

(* The invariant holds in every state of a stream. *)
LEMMA Invariance == Spec => []IInv
<1>1. IInv /\ [Next]_vars => IInv'
    <2>. SUFFICES ASSUME IInv, [Next]_vars PROVE IInv'
        OBVIOUS
    <2>1. CASE Next
        BY <2>1, ClientInv, SyncStepInv, ShellStepInv, ForwardStepInv DEF Next
    <2>2. CASE UNCHANGED vars
        BY <2>2 DEF vars, pipeVars, goVars, fwdVars, pushVars, IInv, TypeOK, KindInv, SyncInv,
                    ShellInv, ForwardInv, ReleasedAtEnd, OkayMeansStored,
                    IsShell, Over
    <2>. QED  BY <2>1, <2>2
<1>. QED  BY <1>1, InitInv, PTL DEF Spec

----------------------------------------------------------------------------
(* The stream's safety                                                     *)

(* Queues, goroutines, channel and rules keep their types. *)
THEOREM TypeCorrect == Spec => []TypeOK
BY Invariance, PTL DEF IInv

(* A stream that is over has let go of its channel, its end of the pipe, its temporary
   file and its fport rules, on every path of the sync, shell and forward code. *)
THEOREM Released == Spec => []ReleasedAtEnd
BY Invariance, PTL DEF IInv

(* A SEND is answered OKAY only when the device has taken every DATA the client has given
   for it, however its chunks and the device's reads of them interleave. *)
THEOREM OkayIsTrue == Spec => []OkayMeansStored
BY Invariance, PTL DEF IInv

=============================================================================
