------------------------------- MODULE HdcStreams -------------------------------
(***************************************************************************)
(* One stream of the hdc backend, from Backend.OpenService to its end:     *)
(* the sync server behind a buffered pipe (internal/hdcserver/sync.go,     *)
(* file_transfer.go), the two copies of a shell behind net.Pipe            *)
(* (shell.go, channel.go), or an fport rule and a connection through it    *)
(* (forward.go).                                                           *)
(*                                                                         *)
(* The bridge's end of the connection belongs to a service of module       *)
(* AdbSession: the session's reader writes to it, the service's goroutine  *)
(* reads from it, either closes it.  The hdc server and the device are     *)
(* choices: every command may fail, and reading ends by its deadline.      *)
(***************************************************************************)
EXTENDS Naturals, Sequences

CONSTANTS
    Kinds,        \* the services opened: a subset of AllKinds
    Cap,          \* capacity of each direction of the buffered pipe, in messages
    MaxRequests,  \* bound: messages the client sends
    Chunks,       \* bound: chunks the device sends on a channel
    Retries       \* forwardSetupRetries

AllKinds == {"sync", "shell", "shell_v2", "forward"}

ASSUME HdcAssumption ==
    /\ Kinds \subseteq AllKinds
    /\ Cap \in Nat \ {0} /\ MaxRequests \in Nat /\ Chunks \in Nat /\ Retries \in Nat

Requests == {"STAT", "LIST", "SEND", "DATA", "DONE", "RECV", "QUIT", "OTHER", "BAD"}
Answers == {"STAT", "DENT", "DONE", "OKAY", "FAIL", "DATA"}

VARIABLES
    kind,       \* the service that was opened
    cClosed,    \* the bridge has closed its end
    sClosed,    \* the backend has closed its end
    in, outq,   \* the two directions of the buffered pipe
    sent,       \* messages sent by the client
    srv,        \* the backend's goroutine: see each part
    inp,        \* of a shell: its input copy, "read", "write", "close", "gone"
    out,        \* answers about to be written
    then,       \* where srv goes when they are
    chan,       \* its hdc channel: "none", "open", "closed"
    dev,        \* chunks the device has still to send on it
    tmp,        \* the temporary file of a SEND exists
    stored,     \* the DATA of that SEND it holds
    fed,        \* of those, the ones written to the hdc channel
    got,        \* of those, the ones the device has taken
    tries,      \* attempts to set up a forward
    rules,      \* the attempts whose fport rule exists
    given,      \* history: the DATA the client has given for the present SEND
    failed      \* history: the attempts whose fport command failed

pipeVars  == <<cClosed, sClosed, in, outq, sent>>
goVars    == <<srv, inp, out, then>>
fwdVars   == <<tries, rules, failed>>
pushVars  == <<given, stored, fed, got>>
vars == <<kind, pipeVars, goVars, chan, dev, tmp, fwdVars, pushVars>>

IsShell == kind \in {"shell", "shell_v2"}

\* OpenService.  A channel that cannot be opened fails it: there is no stream.
Init ==
    /\ kind \in Kinds
    /\ cClosed = FALSE /\ sClosed = FALSE
    /\ in = <<>> /\ outq = <<>> /\ sent = 0
    /\ srv = CASE kind = "sync" -> "read" [] IsShell -> "copy" [] OTHER -> "setup"
    /\ inp = IF IsShell THEN "read" ELSE "gone"
    /\ out = <<>> /\ then = "read"
    /\ chan = IF IsShell THEN "open" ELSE "none"
    /\ dev = IF IsShell THEN Chunks ELSE 0
    /\ tmp = FALSE
    /\ tries = 0 /\ rules = {} /\ failed = {}
    /\ given = 0 /\ stored = 0 /\ fed = 0 /\ got = 0

----------------------------------------------------------------------------
(* The bridge's end                                                        *)

\* bufferedPipeConn.Write, by the session's reader; it waits while the queue is full.
ClientWrites(r) ==
    /\ kind = "sync" /\ ~cClosed /\ sent < MaxRequests
    /\ Len(in) < Cap
    /\ in' = Append(in, r) /\ sent' = sent + 1
    /\ UNCHANGED <<kind, cClosed, sClosed, outq, goVars, chan, dev, tmp, fwdVars, pushVars>>

\* bufferedPipeConn.Read, by the service's goroutine.
ClientReads ==
    /\ kind = "sync" /\ ~cClosed /\ outq # <<>>
    /\ outq' = Tail(outq)
    /\ UNCHANGED <<kind, cClosed, sClosed, in, sent, goVars, chan, dev, tmp, fwdVars, pushVars>>

\* The bridge closes its end; of a forward, once there is one.
ClientCloses ==
    /\ ~cClosed /\ (kind = "forward" => srv = "live")
    /\ cClosed' = TRUE
    /\ UNCHANGED <<kind, sClosed, in, outq, sent, goVars, chan, dev, tmp, fwdVars, pushVars>>

----------------------------------------------------------------------------
(* serveSync: srv is "read", "emit", "gone", in handleSend "send",  *)
(* in pushFile "push", "begin", "data", "finish", in handleRecv "marker", "recv" *)

\* Write the answers a, and then go to next.
Answer(a, next) == out' = a /\ then' = next /\ srv' = "emit"

\* remoteList, on a channel of its own: entries, none, or an error.
ListAnswers == {<<"DENT", "DONE">>, <<"DONE">>, <<"FAIL">>}

\* readSyncRequest fails: the client has closed its end, or the message is too long.
ReadFails ==
    \/ in = <<>> /\ cClosed /\ UNCHANGED in
    \/ in # <<>> /\ Head(in) = "BAD" /\ in' = Tail(in)

\* Mutant: the server does not see that the client has closed the pipe.
SyncEof_Ignored ==
    /\ kind = "sync" /\ srv = "read" /\ in # <<>> /\ Head(in) = "BAD"
    /\ in' = Tail(in)
    /\ srv' = "gone" /\ sClosed' = TRUE
    /\ UNCHANGED <<kind, cClosed, outq, sent, inp, out, then, chan, dev, tmp, fwdVars, pushVars>>

\* serveSync returns.
SyncEof ==
    /\ kind = "sync" /\ srv = "read" /\ ReadFails
    /\ srv' = "gone" /\ sClosed' = TRUE
    /\ UNCHANGED <<kind, cClosed, outq, sent, inp, out, then, chan, dev, tmp, fwdVars, pushVars>>

\* A request that is answered at once: STAT, LIST, QUIT, or one that is unknown here.
SyncRequest ==
    /\ kind = "sync" /\ srv = "read" /\ in # <<>>
    /\ in' = Tail(in)
    /\ \/ Head(in) = "STAT" /\ Answer(<<"STAT">>, "read")
       \/ /\ Head(in) = "LIST"
          /\ \E a \in ListAnswers : Answer(a, "read")
       \/ Head(in) = "QUIT" /\ Answer(<<>>, "quit")
       \/ Head(in) \in {"DATA", "DONE", "OTHER"} /\ Answer(<<"FAIL">>, "quit")
    /\ UNCHANGED <<kind, cClosed, sClosed, outq, sent, inp, chan, dev, tmp, fwdVars, pushVars>>

\* handleSend: a directory, a bad path, or a temporary file to collect the data in.
SyncSend ==
    /\ kind = "sync" /\ srv = "read" /\ in # <<>> /\ Head(in) = "SEND"
    /\ in' = Tail(in)
    /\ given' = 0 /\ stored' = 0 /\ fed' = 0 /\ got' = 0
    /\ \/ \E a \in {<<"OKAY">>, <<"FAIL">>} : Answer(a, "read") /\ UNCHANGED tmp
       \/ srv' = "send" /\ tmp' = TRUE /\ UNCHANGED <<out, then>>
    /\ UNCHANGED <<kind, cClosed, sClosed, outq, sent, inp, chan, dev, fwdVars>>

\* A DATA of the transfer is stored, or ends it.
SendData ==
    /\ srv = "send" /\ in # <<>> /\ Head(in) = "DATA"
    /\ in' = Tail(in) /\ given' = given + 1
    /\ \/ stored' = stored + 1 /\ UNCHANGED <<srv, out, then>>
       \/ Answer(<<"FAIL">>, "read") /\ UNCHANGED stored
    /\ UNCHANGED <<kind, cClosed, sClosed, outq, sent, inp, chan, dev, tmp, fed, got, fwdVars>>

\* DONE leads to pushFile; any other request ends the transfer, without its own answer.
SendEnds ==
    /\ srv = "send" /\ in # <<>> /\ Head(in) \notin {"DATA", "BAD"}
    /\ in' = Tail(in)
    /\ IF Head(in) = "DONE" THEN srv' = "push" /\ UNCHANGED <<out, then>>
                            ELSE Answer(<<"FAIL">>, "read")
    /\ UNCHANGED <<kind, cClosed, sClosed, outq, sent, inp, chan, dev, tmp, fwdVars, pushVars>>

\* The transfer breaks off, and the request loop goes on.
SendEof ==
    /\ srv = "send" /\ ReadFails
    /\ srv' = "read" /\ tmp' = FALSE
    /\ UNCHANGED <<kind, cClosed, sClosed, outq, sent, inp, out, then, chan, dev, fwdVars,
                   pushVars>>

\* pushFile returns an error, and closes the channel it may have.
PushFails == Answer(<<"FAIL">>, "read") /\ chan' = "none"

\* pushFile opens the file, makes the directory and opens a channel for the transfer.
PushOpen ==
    /\ srv = "push"
    /\ \/ srv' = "begin" /\ chan' = "open" /\ UNCHANGED <<out, then>>
       \/ PushFails
    /\ UNCHANGED <<kind, pipeVars, inp, dev, tmp, fwdVars, pushVars>>

\* FileInit is answered with the wake-up and FileCheck, which tells the size; FileBegin.
PushBegin ==
    /\ srv = "begin"
    /\ \/ srv' = "data" /\ UNCHANGED <<out, then, chan>>
       \/ PushFails
    /\ UNCHANGED <<kind, pipeVars, inp, dev, tmp, fwdVars, pushVars>>

\* A FileData for each chunk of the file, up to its end.
PushData ==
    /\ srv = "data"
    /\ \/ fed < stored /\ fed' = fed + 1 /\ UNCHANGED <<srv, out, then, chan>>
       \/ fed = stored /\ srv' = "finish" /\ UNCHANGED <<fed, out, then, chan>>
       \/ PushFails /\ UNCHANGED fed
    /\ UNCHANGED <<kind, pipeVars, inp, dev, tmp, fwdVars, given, stored, got>>

\* The device takes a chunk from the channel.
DeviceTakes ==
    /\ srv \in {"data", "finish"} /\ got < fed
    /\ got' = got + 1
    /\ UNCHANGED <<kind, pipeVars, goVars, chan, dev, tmp, fwdVars, given, stored, fed>>

\* Mutant: the end of the file is the end of the transfer.
PushFinish_NotAwaited ==
    /\ srv = "finish"
    /\ \/ Answer(<<"OKAY">>, "read") /\ chan' = "none"
       \/ PushFails
    /\ UNCHANGED <<kind, pipeVars, inp, dev, tmp, fwdVars, pushVars>>

\* FileFinish, which the device sends when it has as much as FileCheck told it.  The
\* transfer fails too when the channel cannot be closed in order afterwards.
PushFinish ==
    /\ srv = "finish"
    /\ \/ got = stored /\ Answer(<<"OKAY">>, "read") /\ chan' = "none"
       \/ PushFails
    /\ UNCHANGED <<kind, pipeVars, inp, dev, tmp, fwdVars, pushVars>>

\* handleRecv: the channel of the pull, or an error.
SyncRecv ==
    /\ kind = "sync" /\ srv = "read" /\ in # <<>> /\ Head(in) = "RECV"
    /\ in' = Tail(in)
    /\ \/ Answer(<<"FAIL">>, "read") /\ UNCHANGED <<chan, dev>>
       \/ srv' = "marker" /\ chan' = "open" /\ dev' = Chunks /\ UNCHANGED <<out, then>>
    /\ UNCHANGED <<kind, cClosed, sClosed, outq, sent, inp, tmp, fwdVars, pushVars>>

\* The marker tells whether the file can be read.
RecvMarker ==
    /\ srv = "marker"
    /\ \/ srv' = "recv" /\ UNCHANGED <<out, then>>
       \/ Answer(<<"FAIL">>, "read")
    /\ UNCHANGED <<kind, pipeVars, inp, chan, dev, tmp, fwdVars, pushVars>>

\* A chunk, or the end of the connection, which looks the same whether the file is at its
\* end or the server has gone, or an error, the deadline included.
RecvData ==
    /\ srv = "recv"
    /\ \/ dev > 0 /\ dev' = dev - 1 /\ Answer(<<"DATA">>, "recv")
       \/ \E a \in {<<"DONE">>, <<"FAIL">>} : Answer(a, "read") /\ UNCHANGED dev
    /\ UNCHANGED <<kind, pipeVars, inp, chan, tmp, fwdVars, pushVars>>

\* An answer is written; it waits while the queue is full, for ever if nobody reads.
EmitWrite ==
    /\ srv = "emit" /\ out # <<>> /\ Len(outq) < Cap
    /\ outq' = Append(outq, Head(out)) /\ out' = Tail(out)
    /\ UNCHANGED <<kind, cClosed, sClosed, in, sent, srv, inp, then, chan, dev, tmp, fwdVars,
                   pushVars>>

\* All are written.  A handler that returns removes its file and closes its channel;
\* serveSync that returns closes the pipe.
EmitDone ==
    /\ srv = "emit" /\ out = <<>>
    /\ IF then = "quit" THEN srv' = "gone" /\ sClosed' = TRUE
                        ELSE srv' = then /\ UNCHANGED sClosed
    /\ tmp' = FALSE
    /\ IF then = "recv" THEN UNCHANGED <<chan, dev>> ELSE chan' = "none" /\ dev' = 0
    /\ UNCHANGED <<kind, cClosed, in, outq, sent, inp, out, then, fwdVars, pushVars>>

----------------------------------------------------------------------------
(* serveShell: srv is "copy", "put", "exit", "close", "gone"               *)

Broken == cClosed \/ sClosed      \* net.Pipe: either end closed

\* The client writes: stdin, a window size, or, as the end of the input copy, CloseStdin.
ShellInput ==
    /\ IsShell /\ inp = "read" /\ ~Broken /\ sent < MaxRequests
    /\ sent' = sent + 1
    /\ \/ inp' = "write"
       \/ kind = "shell_v2" /\ inp' \in {"read", "close"}
    /\ UNCHANGED <<kind, cClosed, sClosed, in, outq, srv, out, then, chan, dev, tmp, fwdVars,
                   pushVars>>

ShellInputEof ==
    /\ IsShell /\ inp = "read" /\ Broken
    /\ inp' = "close"
    /\ UNCHANGED <<kind, pipeVars, srv, out, then, chan, dev, tmp, fwdVars, pushVars>>

\* The input goes to the channel, which may be closed, or ended by the device.
ShellInputWrite ==
    /\ IsShell /\ inp = "write"
    /\ \/ chan = "open" /\ inp' = "read"
       \/ inp' = "close"
    /\ UNCHANGED <<kind, pipeVars, srv, out, then, chan, dev, tmp, fwdVars, pushVars>>

\* closeBoth, by the input copy.
ShellInputClose ==
    /\ inp = "close"
    /\ inp' = "gone" /\ sClosed' = TRUE /\ chan' = "closed"
    /\ UNCHANGED <<kind, cClosed, in, outq, sent, srv, out, then, dev, tmp, fwdVars, pushVars>>

\* The output copy reads: a chunk, the end, or an error, which the idle deadline gives.
ShellRead ==
    /\ IsShell /\ srv = "copy"
    /\ \/ chan = "open" /\ dev > 0 /\ dev' = dev - 1 /\ srv' = "put"
       \/ srv' = "exit" /\ UNCHANGED dev
    /\ UNCHANGED <<kind, pipeVars, inp, out, then, chan, tmp, fwdVars, pushVars>>

\* The client takes the chunk, or the pipe is closed.
ShellPut ==
    /\ IsShell /\ srv = "put"
    /\ \/ ~Broken /\ srv' = "copy"
       \/ Broken /\ srv' = "exit"
    /\ UNCHANGED <<kind, pipeVars, inp, out, then, chan, dev, tmp, fwdVars, pushVars>>

\* A v2 shell says exit 0, whatever ended the output; it waits for the client to take it.
ShellExit ==
    /\ IsShell /\ srv = "exit"
    /\ srv' = "close"
    /\ UNCHANGED <<kind, pipeVars, inp, out, then, chan, dev, tmp, fwdVars, pushVars>>

\* closeBoth, by the output copy.
ShellClose ==
    /\ IsShell /\ srv = "close"
    /\ srv' = "gone" /\ sClosed' = TRUE /\ chan' = "closed"
    /\ UNCHANGED <<kind, cClosed, in, outq, sent, inp, out, then, dev, tmp, fwdVars, pushVars>>

----------------------------------------------------------------------------
(* openForward: srv is "setup", "dial", "probe", "live", "gone"            *)

\* "fport rm", which may fail and leave the rule.
Cleanup ==
    \/ rules' = rules \ {tries} /\ UNCHANGED failed
    \/ failed' = failed \cup {tries} /\ UNCHANGED rules

\* Mutant: one attempt too many.
Setup_OneMore ==
    /\ srv = "setup"
    /\ IF tries > Retries
         THEN srv' = "gone" /\ UNCHANGED <<tries, rules, failed>>
         ELSE /\ tries' = tries + 1
              /\ \/ srv' = "dial" /\ rules' = rules \cup {tries'} /\ UNCHANGED failed
                 \/ UNCHANGED <<srv, rules, failed>>
    /\ UNCHANGED <<kind, pipeVars, inp, out, then, chan, dev, tmp, pushVars>>

\* "fport": the rule is set up; its port is taken; or it fails, in effect or not.
Setup ==
    /\ srv = "setup"
    /\ IF tries = Retries
         THEN srv' = "gone" /\ UNCHANGED <<tries, rules, failed>>
         ELSE /\ tries' = tries + 1
              /\ \/ srv' = "dial" /\ rules' = rules \cup {tries'} /\ UNCHANGED failed
                 \/ UNCHANGED <<srv, rules, failed>>
                 \/ /\ srv' = "gone" /\ failed' = failed \cup {tries'}
                    /\ rules' \in {rules, rules \cup {tries'}}
    /\ UNCHANGED <<kind, pipeVars, inp, out, then, chan, dev, tmp, pushVars>>

\* Mutant: a failed dial leaves the rule.
ForwardDial_KeepsRule ==
    /\ srv = "dial"
    /\ \/ srv' = "probe" /\ UNCHANGED <<rules, failed>>
       \/ srv' = "setup" /\ UNCHANGED <<rules, failed>>
    /\ UNCHANGED <<kind, pipeVars, inp, out, then, chan, dev, tmp, tries, pushVars>>

ForwardDial ==
    /\ srv = "dial"
    /\ \/ srv' = "probe" /\ UNCHANGED <<rules, failed>>
       \/ srv' = "setup" /\ Cleanup
    /\ UNCHANGED <<kind, pipeVars, inp, out, then, chan, dev, tmp, tries, pushVars>>

\* ensureForwardAlive: data or silence is a live connection, an end is none.
ForwardProbe ==
    /\ srv = "probe"
    /\ \/ srv' = "live" /\ UNCHANGED <<rules, failed>>
       \/ srv' = "gone" /\ Cleanup
    /\ UNCHANGED <<kind, pipeVars, inp, out, then, chan, dev, tmp, tries, pushVars>>

\* forwardConn.Close, within the bridge's close.
ForwardClose ==
    /\ srv = "live" /\ cClosed
    /\ srv' = "gone" /\ Cleanup
    /\ UNCHANGED <<kind, pipeVars, inp, out, then, chan, dev, tmp, tries, pushVars>>

----------------------------------------------------------------------------
SyncStep ==
    \/ SyncEof \/ SyncRequest \/ SyncSend \/ SyncRecv
    \/ SendData \/ SendEnds \/ SendEof
    \/ PushOpen \/ PushBegin \/ PushData \/ PushFinish
    \/ RecvMarker \/ RecvData \/ EmitWrite \/ EmitDone
ShellInputStep == ShellInputEof \/ ShellInputWrite \/ ShellInputClose
ShellOutputStep == ShellRead \/ ShellPut \/ ShellExit \/ ShellClose
ForwardStep == Setup \/ ForwardDial \/ ForwardProbe \/ ForwardClose

Next ==
    \/ \E r \in Requests : ClientWrites(r)
    \/ ClientReads \/ ClientCloses \/ ShellInput \/ DeviceTakes
    \/ SyncStep \/ ShellInputStep \/ ShellOutputStep \/ ForwardStep

Spec == Init /\ [][Next]_vars

(***************************************************************************)
(* Fairness: the goroutines of the stream run; what they ask of the hdc    *)
(* server ends by a deadline.  Nothing is asked of the client: a write to  *)
(* net.Pipe need only end when the pipe is closed.                         *)
(***************************************************************************)
Fairness ==
    /\ WF_vars(SyncStep) /\ WF_vars(ShellInputStep)
    /\ WF_vars(ShellRead \/ ShellClose \/ (Broken /\ (ShellPut \/ ShellExit))
                 \/ (kind = "shell" /\ ShellExit))
    /\ WF_vars(ForwardStep)

FairSpec == Spec /\ Fairness

----------------------------------------------------------------------------
(* Properties                                                              *)

\* Every variable keeps to its type.
TypeOK ==
    /\ kind \in Kinds
    /\ cClosed \in BOOLEAN /\ sClosed \in BOOLEAN
    /\ in \in Seq(Requests) /\ Len(in) <= Cap
    /\ outq \in Seq(Answers) /\ Len(outq) <= Cap
    /\ sent \in 0 .. MaxRequests
    /\ srv \in {"read", "emit", "send", "push", "begin", "data", "finish", "marker", "recv",
                "copy", "put", "exit", "close", "setup", "dial", "probe", "live", "gone"}
    /\ inp \in {"read", "write", "close", "gone"}
    /\ out \in Seq(Answers) /\ then \in {"read", "recv", "quit"}
    /\ chan \in {"none", "open", "closed"} /\ dev \in 0 .. Chunks
    /\ tmp \in BOOLEAN
    /\ tries \in 0 .. Retries /\ rules \subseteq 1 .. Retries /\ failed \subseteq 1 .. Retries
    /\ given \in Nat /\ stored \in Nat /\ fed \in Nat /\ got \in Nat

Over == srv = "gone" /\ inp = "gone"

\* A stream that is over has let go of all it held: its channel, its end of the pipe,
\* the temporary file, and the fport rules, but for those whose command failed.
ReleasedAtEnd ==
    Over => /\ ~tmp /\ chan # "open" /\ (kind # "forward" => sClosed)
            /\ rules \subseteq failed

\* A SEND is answered OKAY only when the device has taken every DATA the client has given
\* for it: none was lost on the way to the temporary file, to the channel, or on it.
OkayMeansStored == (srv = "emit" /\ out = <<"OKAY">>) => got = given

\* A stream whose client has closed it comes to an end, with all that belongs to it,
\* unless its sync server waits for room in a queue nobody will read.
Stuck == srv = "emit" /\ out # <<>> /\ Len(outq) = Cap
StreamEnds == cClosed ~> (Over \/ Stuck)
=============================================================================
