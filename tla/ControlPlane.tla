------------------------------ MODULE ControlPlane ------------------------------
(***************************************************************************)
(* Daemon processes and the atb commands that talk to them: the control    *)
(* socket (internal/daemon/server.go, handler.go), the client that starts  *)
(* a daemon when none answers (internal/client/client.go, main.go) and the *)
(* restart that hands the listeners to a new process                       *)
(* (internal/daemon/upgrade_unix.go).                                      *)
(*                                                                         *)
(* A process is numbered in the order of creation.  A socket is named by   *)
(* the process that bound it; a connection queued at it is taken by any    *)
(* process that has a descriptor of it.  A bridge is named by its          *)
(* listener, which Start creates and a restart only passes on; the         *)
(* registry within one process is module DaemonManager.                    *)
(***************************************************************************)
EXTENDS Naturals, FiniteSets

CONSTANTS
    Clients,      \* atb commands, each one call
    Ops,          \* what a command may be: a subset of AllOps
    MaxProcs,     \* bound: daemon processes
    MaxBridges,   \* bound: bridges started
    MaxCrashes    \* bound: daemons that die

AllOps == {"start", "stop", "restart", "shutdown"}

ASSUME ControlAssumption ==
    /\ Ops \subseteq AllOps
    /\ MaxProcs \in Nat \ {0} /\ MaxBridges \in Nat /\ MaxCrashes \in Nat

None == 0
Procs == 1 .. MaxProcs
Bridges == 1 .. MaxBridges
Leftover == MaxProcs + 1      \* the socket of a daemon that died earlier
Sockets == Procs \cup {Leftover}

VARIABLES
    path,       \* the socket the file at socketPath belongs to, or None
    at,         \* of a process: where Run, or what precedes it, is
    sock,       \* the socket its udsListener belongs to
    open,       \* the udsListener is open
    unlinks,    \* closing it removes the file
    root,       \* rootCtx is cancelled
    restarting, \* s.restarting
    handedOff,  \* s.handedOff
    brg,        \* the bridges it serves
    hand,       \* its handoff: "off", "snapshot", "dup", "spawn", "wait"
    snap,       \* the bridges of the snapshot
    child,      \* the process it started
    todo,       \* of a child: the inherited bridges not adopted yet
    ready,      \* of a child: it wrote the ready byte
    cl,         \* of a command: where it is
    op,         \* the call it makes
    conn,       \* the socket its connection is queued at
    by,         \* the process that handles, or answered, its call
    asked,      \* of a restart: the process that took it
    crashes,    \* daemons that died
    kept,       \* ghost: the bridges nobody asked to end
    stolen      \* ghost: the file of a socket in use was removed

loopVars   == <<at, sock, open, unlinks>>
stateVars  == <<root, restarting, handedOff, brg>>
handVars   == <<hand, snap, child, todo, ready>>
clientVars == <<cl, op, conn, by, asked>>
ghostVars  == <<kept, stolen>>
vars == <<path, loopVars, stateVars, handVars, clientVars, crashes, ghostVars>>

Running(p) == at[p] \in {"top", "accept", "close", "clean", "join"}
Alive(p) == at[p] \notin {"none", "gone", "dead"}

\* A process has a descriptor of its socket: the listener, or the handoff's copy.
Holds(p, s) == sock[p] = s /\ Alive(p) /\ (open[p] \/ hand[p] \in {"spawn", "wait"})
Listening(s) == \E p \in Procs : Holds(p, s)

\* The next process, if there may be one.
IsNew(p) == at[p] = "none" /\ \A q \in Procs : q < p => at[q] # "none"

\* A daemon that runs with bridge 1, or none with or without a file left behind.
Init ==
    /\ \E up \in BOOLEAN :
          /\ path \in IF up THEN {1} ELSE {None, Leftover}
          /\ at = [p \in Procs |-> IF up /\ p = 1 THEN "top" ELSE "none"]
          /\ sock = [p \in Procs |-> IF up /\ p = 1 THEN 1 ELSE None]
          /\ open = [p \in Procs |-> up /\ p = 1]
          /\ unlinks = open
          /\ brg = [p \in Procs |-> IF up /\ p = 1 THEN Bridges \cap {1} ELSE {}]
          /\ kept = IF up THEN Bridges \cap {1} ELSE {}
    /\ root = [p \in Procs |-> FALSE] /\ restarting = [p \in Procs |-> FALSE]
    /\ handedOff = [p \in Procs |-> FALSE]
    /\ hand = [p \in Procs |-> "off"] /\ snap = [p \in Procs |-> {}]
    /\ child = [p \in Procs |-> None]
    /\ todo = [p \in Procs |-> {}] /\ ready = [p \in Procs |-> FALSE]
    /\ cl = [c \in Clients |-> "new"] /\ op = [c \in Clients |-> "none"]
    /\ conn = [c \in Clients |-> None] /\ by = [c \in Clients |-> None]
    /\ asked = [c \in Clients |-> None]
    /\ crashes = 0 /\ stolen = FALSE

Goto(p, label) == at' = [at EXCEPT ![p] = label]
ClientAt(c, label) == cl' = [cl EXCEPT ![c] = label]

\* p is over: its descriptors are closed, its memory is gone.
Ends(p, how) ==
    /\ Goto(p, how)
    /\ sock' = [sock EXCEPT ![p] = None]
    /\ open' = [open EXCEPT ![p] = FALSE] /\ unlinks' = [unlinks EXCEPT ![p] = FALSE]
    /\ root' = [root EXCEPT ![p] = FALSE]
    /\ brg' = [brg EXCEPT ![p] = {}]
    /\ snap' = [snap EXCEPT ![p] = {}] /\ todo' = [todo EXCEPT ![p] = {}]

\* A command ends; of its call, nothing is left.
ClientEnds(c) ==
    /\ ClientAt(c, "end")
    /\ op' = [op EXCEPT ![c] = "none"]
    /\ conn' = [conn EXCEPT ![c] = None]
    /\ by' = [by EXCEPT ![c] = None] /\ asked' = [asked EXCEPT ![c] = None]

\* The bridges that survive the death of p: another process serves them or is about to,
\* and has not left them to a new daemon.
KeptWithout(p) ==
    {b \in kept : \E q \in Procs \ {p} :
        /\ Alive(q) /\ ~handedOff[q] /\ ~(hand[q] = "wait" /\ ready[child[q]])
        /\ b \in brg[q] \cup todo[q]}

\* The file belongs to a socket in use, not counting the listener of p itself.
Steals(p) ==
    /\ path # None
    /\ \E q \in Procs : /\ Alive(q) /\ sock[q] = path
                        /\ (q # p /\ open[q]) \/ hand[q] \in {"spawn", "wait"}

----------------------------------------------------------------------------
(* Server.Run until it listens                                             *)

\* prepareSocket: the file is looked for ...
PrepareStat(p) ==
    /\ at[p] = "stat"
    /\ Goto(p, IF path = None THEN "listen" ELSE "dial")
    /\ UNCHANGED <<path, sock, open, unlinks, stateVars, handVars, clientVars, crashes,
                   ghostVars>>

\* ... a daemon that listens on it is not disturbed ...
PrepareDial(p) ==
    /\ at[p] = "dial"
    /\ Goto(p, IF path # None /\ Listening(path) THEN "gone" ELSE "remove")
    /\ UNCHANGED <<path, sock, open, unlinks, stateVars, handVars, clientVars, crashes,
                   ghostVars>>

\* ... else it is removed, whatever it has become since.
PrepareRemove(p) ==
    /\ at[p] = "remove"
    /\ path' = None
    /\ stolen' = (stolen \/ Steals(p))
    /\ Goto(p, "listen")
    /\ UNCHANGED <<sock, open, unlinks, stateVars, handVars, clientVars, crashes, kept>>

\* net.Listen: it fails if there is a file again.
Listen(p) ==
    /\ at[p] = "listen"
    /\ IF path # None
         THEN Goto(p, "gone") /\ UNCHANGED <<path, sock, open, unlinks>>
         ELSE /\ path' = p
              /\ sock' = [sock EXCEPT ![p] = p]
              /\ open' = [open EXCEPT ![p] = TRUE]
              /\ unlinks' = [unlinks EXCEPT ![p] = TRUE]
              /\ Goto(p, "top")
    /\ UNCHANGED <<stateVars, handVars, clientVars, crashes, ghostVars>>

----------------------------------------------------------------------------
(* Server.Run: the accept loop and the end                                 *)

\* The top of the loop: while restarting is set it sleeps.
LoopTop(p) ==
    /\ at[p] = "top"
    /\ IF restarting[p] THEN root[p] /\ Goto(p, "close") ELSE Goto(p, "accept")
    /\ UNCHANGED <<path, sock, open, unlinks, stateVars, handVars, clientVars, crashes,
                   ghostVars>>

\* Accept returns the connection of a command.
AcceptConn(p, c) ==
    /\ at[p] = "accept" /\ open[p]
    /\ cl[c] \in {"queued", "probing"} /\ conn[c] = sock[p]
    /\ ClientAt(c, IF cl[c] = "queued" THEN "handle" ELSE "version")
    /\ conn' = [conn EXCEPT ![c] = None] /\ by' = [by EXCEPT ![c] = p]
    /\ Goto(p, "top")
    /\ UNCHANGED <<path, sock, open, unlinks, stateVars, handVars, op, asked, crashes,
                   ghostVars>>

\* Accept returns a connection without a request: ensureDaemon and prepareSocket
\* dial only to see, and a probe that timed out has left.
AcceptEmpty(p) ==
    /\ at[p] = "accept" /\ open[p]
    /\ Goto(p, "top")
    /\ UNCHANGED <<path, sock, open, unlinks, stateVars, handVars, clientVars, crashes,
                   ghostVars>>

\* The listener was closed.
AcceptFails(p) ==
    /\ at[p] = "accept" /\ ~open[p]
    /\ Goto(p, "close")
    /\ UNCHANGED <<path, sock, open, unlinks, stateVars, handVars, clientVars, crashes,
                   ghostVars>>

\* listener.Close, by the goroutine that waits for rootCtx or by Run's defer.
CloseListener(p) ==
    /\ Running(p) /\ open[p] /\ (root[p] \/ at[p] = "close")
    /\ open' = [open EXCEPT ![p] = FALSE]
    /\ path' = IF unlinks[p] THEN None ELSE path
    /\ stolen' = (stolen \/ (unlinks[p] /\ ~handedOff[p] /\ Steals(p)))
    /\ UNCHANGED <<at, sock, unlinks, stateVars, handVars, clientVars, crashes, kept>>

\* Mutant: Run returns with its listener open.
Returns_LeavesOpen(p) ==
    /\ at[p] = "close"
    /\ Goto(p, "clean")
    /\ UNCHANGED <<path, sock, open, unlinks, stateVars, handVars, clientVars, crashes,
                   ghostVars>>

Returns(p) ==
    /\ at[p] = "close" /\ ~open[p]
    /\ Goto(p, "clean")
    /\ UNCHANGED <<path, sock, open, unlinks, stateVars, handVars, clientVars, crashes,
                   ghostVars>>

\* A daemon that has not handed off removes the file and stops its bridges.
CleanUp(p) ==
    /\ at[p] = "clean"
    /\ Goto(p, "join")
    /\ IF handedOff[p]
         THEN UNCHANGED <<path, brg, ghostVars>>
         ELSE /\ path' = None
              /\ stolen' = (stolen \/ Steals(p))
              /\ brg' = [brg EXCEPT ![p] = {}]
              /\ kept' = kept \ brg[p]
    /\ UNCHANGED <<sock, open, unlinks, root, restarting, handedOff, handVars, clientVars,
                   crashes>>

Handling(c) == cl[c] \in {"handle", "version", "act", "cancel"}

\* Run has waited for its handlers, each of which may last: see Fairness.  The process ends, a handoff under way with it.
Exit(p) ==
    /\ at[p] = "join"
    /\ \A c \in Clients : Handling(c) => by[c] # p
    /\ Ends(p, "gone")
    /\ restarting' = [restarting EXCEPT ![p] = FALSE] /\ hand' = [hand EXCEPT ![p] = "off"]
    /\ UNCHANGED <<path, handedOff, child, ready, clientVars, crashes, ghostVars>>

----------------------------------------------------------------------------
(* The handlers of a daemon                                                *)

\* dispatch of a Start or a Stop: refused during a restart.
Gate(c) ==
    /\ cl[c] = "handle" /\ op[c] \in {"start", "stop"}
    /\ IF restarting[by[c]]
         THEN ClientEnds(c)
         ELSE ClientAt(c, "act") /\ UNCHANGED <<op, conn, by, asked>>
    /\ UNCHANGED <<path, loopVars, stateVars, handVars, crashes, ghostVars>>

\* Manager.Start: a new bridge, or an error.
DoStart(c) ==
    /\ cl[c] = "act" /\ op[c] = "start"
    /\ LET p == by[c]
           unused == Bridges \ UNION {brg[q] \cup todo[q] \cup snap[q] : q \in Procs}
       IN \/ \E b \in unused :
                /\ \A d \in unused : b <= d
                /\ brg' = [brg EXCEPT ![p] = @ \cup {b}]
                /\ kept' = IF hand[p] \in {"off", "snapshot"} /\ ~handedOff[p] /\ ~root[p]
                             THEN kept \cup {b} ELSE kept
          \/ UNCHANGED <<brg, kept>>
    /\ ClientEnds(c)
    /\ UNCHANGED <<path, loopVars, root, restarting, handedOff, handVars, crashes, stolen>>

\* Manager.Stop of a bridge, or of none it knows.
DoStop(c) ==
    /\ cl[c] = "act" /\ op[c] = "stop"
    /\ LET p == by[c] IN
          \/ \E b \in brg[p] : brg' = [brg EXCEPT ![p] = @ \ {b}] /\ kept' = kept \ {b}
          \/ UNCHANGED <<brg, kept>>
    /\ ClientEnds(c)
    /\ UNCHANGED <<path, loopVars, root, restarting, handedOff, handVars, crashes, stolen>>

\* handleRestart: one at a time; the handoff runs in a goroutine of its own.
DoRestart(c) ==
    /\ cl[c] = "handle" /\ op[c] = "restart"
    /\ LET p == by[c] IN
          IF restarting[p]
            THEN ClientEnds(c) /\ UNCHANGED <<restarting, hand>>
            ELSE /\ restarting' = [restarting EXCEPT ![p] = TRUE]
                 /\ hand' = [hand EXCEPT ![p] = "snapshot"]
                 /\ asked' = [asked EXCEPT ![c] = p] /\ by' = [by EXCEPT ![c] = None]
                 /\ ClientAt(c, "probe") /\ UNCHANGED <<op, conn>>
    /\ UNCHANGED <<path, loopVars, root, handedOff, brg, snap, child, todo, ready, crashes,
                   ghostVars>>

\* handleConn answers a shutdown ...
DoShutdown(c) ==
    /\ cl[c] = "handle" /\ op[c] = "shutdown"
    /\ ClientAt(c, "cancel")
    /\ UNCHANGED <<path, loopVars, stateVars, handVars, op, conn, by, asked, crashes, ghostVars>>

\* ... and then cancels rootCtx.
Cancel(c) ==
    /\ cl[c] = "cancel"
    /\ root' = [root EXCEPT ![by[c]] = TRUE]
    /\ ClientEnds(c)
    /\ UNCHANGED <<path, loopVars, restarting, handedOff, brg, handVars, crashes, ghostVars>>

\* The answer to WaitReady's probe.
DoVersion(c) ==
    /\ cl[c] = "version"
    /\ ClientEnds(c)
    /\ UNCHANGED <<path, loopVars, stateVars, handVars, crashes, ghostVars>>

\* A bridge ends by itself: the reaper, an error of its listener, a cancelled context.
BridgeEnds(p) ==
    /\ Running(p) /\ ~handedOff[p]
    /\ \E b \in brg[p] : brg' = [brg EXCEPT ![p] = @ \ {b}] /\ kept' = kept \ {b}
    /\ UNCHANGED <<path, loopVars, root, restarting, handedOff, handVars, clientVars, crashes,
                   stolen>>

----------------------------------------------------------------------------
(* handoff, in a goroutine of the old daemon                               *)

\* Mutant: failHandoff leaves the gate closed.
FailHandoff_KeepsGate(p) ==
    /\ hand' = [hand EXCEPT ![p] = "off"]
    /\ UNCHANGED restarting

\* failHandoff
FailHandoff(p) ==
    /\ hand' = [hand EXCEPT ![p] = "off"]
    /\ restarting' = [restarting EXCEPT ![p] = FALSE]

\* Manager.Snapshot
Snapshot(p) ==
    /\ hand[p] = "snapshot"
    /\ snap' = [snap EXCEPT ![p] = brg[p]]
    /\ hand' = [hand EXCEPT ![p] = "dup"]
    /\ UNCHANGED <<path, loopVars, stateVars, child, todo, ready, clientVars, crashes, ghostVars>>

\* Mutant: the listener goes on removing the file when it is closed.
DupListeners_Unlinks(p) ==
    /\ hand[p] = "dup"
    /\ IF open[p] /\ snap[p] \subseteq brg[p]
         THEN hand' = [hand EXCEPT ![p] = "spawn"] /\ UNCHANGED restarting
         ELSE FailHandoff(p)
    /\ UNCHANGED <<path, loopVars, root, handedOff, brg, snap, child, todo, ready, clientVars,
                   crashes, ghostVars>>

\* SetUnlinkOnClose(false), then a copy of every descriptor; a listener closed since
\* the snapshot fails it.
DupListeners(p) ==
    /\ hand[p] = "dup"
    /\ unlinks' = [unlinks EXCEPT ![p] = FALSE]
    /\ IF open[p] /\ snap[p] \subseteq brg[p]
         THEN hand' = [hand EXCEPT ![p] = "spawn"] /\ UNCHANGED restarting
         ELSE FailHandoff(p)
    /\ UNCHANGED <<path, at, sock, open, root, handedOff, brg, snap, child, todo, ready,
                   clientVars, crashes, ghostVars>>

\* Start the new daemon with the descriptors, or fail.
Spawn(p) ==
    /\ hand[p] = "spawn"
    /\ \/ \E q \in Procs :
             /\ IsNew(q)
             /\ Goto(q, "restore")
             /\ sock' = [sock EXCEPT ![q] = sock[p]] /\ open' = [open EXCEPT ![q] = TRUE]
             /\ todo' = [todo EXCEPT ![q] = snap[p]]
             /\ child' = [child EXCEPT ![p] = q]
             /\ hand' = [hand EXCEPT ![p] = "wait"]
             /\ UNCHANGED restarting
       \/ FailHandoff(p) /\ UNCHANGED <<at, sock, open, todo, child>>
    /\ UNCHANGED <<path, unlinks, root, handedOff, brg, snap, ready, clientVars, crashes,
                   ghostVars>>

\* Mutant: the end of the pipe counts as the ready byte.
WaitOver_AnyRead(p) ==
    /\ hand[p] = "wait" /\ (ready[child[p]] \/ ~Alive(child[p]))
    /\ handedOff' = [handedOff EXCEPT ![p] = TRUE] /\ root' = [root EXCEPT ![p] = TRUE]
    /\ hand' = [hand EXCEPT ![p] = "off"]
    /\ UNCHANGED <<path, loopVars, restarting, brg, snap, child, todo, ready, clientVars,
                   crashes, ghostVars>>

\* The ready byte was read.
WaitOver(p) ==
    /\ hand[p] = "wait" /\ ready[child[p]]
    /\ handedOff' = [handedOff EXCEPT ![p] = TRUE] /\ root' = [root EXCEPT ![p] = TRUE]
    /\ hand' = [hand EXCEPT ![p] = "off"]
    /\ UNCHANGED <<path, loopVars, restarting, brg, snap, child, todo, ready, clientVars,
                   crashes, ghostVars>>

\* Mutant: the child is not killed.
WaitFails_NoKill(p) ==
    /\ hand[p] = "wait"
    /\ FailHandoff(p)
    /\ UNCHANGED <<path, loopVars, root, handedOff, brg, snap, child, todo, ready, clientVars,
                   crashes, ghostVars>>

\* Mutant: no deadline.
WaitFails_NoDeadline(p) ==
    /\ hand[p] = "wait" /\ ~Alive(child[p])
    /\ FailHandoff(p)
    /\ UNCHANGED <<path, loopVars, root, handedOff, brg, snap, child, todo, ready, clientVars,
                   crashes, ghostVars>>

\* End of file, or restartReadyWait is over, though the byte may be there by now:
\* kill the child and go on.
WaitFails(p) ==
    /\ hand[p] = "wait"
    /\ LET q == child[p] IN
          /\ Ends(q, IF Alive(q) THEN "dead" ELSE at[q])
          /\ kept' = kept \ (brg[q] \ brg[p])
          /\ hand' = [hand EXCEPT ![q] = "off", ![p] = "off"]
          /\ restarting' = [restarting EXCEPT ![q] = FALSE, ![p] = FALSE]
    /\ UNCHANGED <<path, handedOff, child, ready, clientVars, crashes, stolen>>

----------------------------------------------------------------------------
(* RestoreInherited, in the new daemon                                     *)

\* Adopt the next bridge: it serves at once ...
Adopt(q) ==
    /\ at[q] = "restore"
    /\ \E b \in todo[q] :
          /\ \A d \in todo[q] : b <= d
          /\ todo' = [todo EXCEPT ![q] = @ \ {b}]
          /\ brg' = [brg EXCEPT ![q] = @ \cup {b}]
    /\ UNCHANGED <<path, loopVars, root, restarting, handedOff, hand, snap, child, ready,
                   clientVars, crashes, ghostVars>>

\* ... or the new daemon gives up,
RestoreFails(q) ==
    /\ at[q] = "restore"
    /\ Ends(q, "gone")
    /\ kept' = KeptWithout(q)
    /\ UNCHANGED <<path, restarting, handedOff, hand, child, ready, clientVars, crashes, stolen>>

\* and with all of them writes the ready byte, read or not, and runs.
RestoreReady(q) ==
    /\ at[q] = "restore" /\ todo[q] = {}
    /\ ready' = [ready EXCEPT ![q] = TRUE]
    /\ Goto(q, "top")
    /\ UNCHANGED <<path, sock, open, unlinks, stateVars, hand, snap, child, todo, clientVars,
                   crashes, ghostVars>>

\* A daemon dies; a child that waits for nothing lives on.
Crash(p) ==
    /\ Alive(p) /\ crashes < MaxCrashes
    /\ crashes' = crashes + 1
    /\ Ends(p, "dead")
    /\ restarting' = [restarting EXCEPT ![p] = FALSE] /\ hand' = [hand EXCEPT ![p] = "off"]
    /\ kept' = KeptWithout(p)
    /\ UNCHANGED <<path, handedOff, child, ready, clientVars, stolen>>

----------------------------------------------------------------------------
(* A command                                                               *)

\* Its connection is queued at the socket the file belongs to.
Dials(c, label) ==
    /\ path # None /\ Listening(path)
    /\ conn' = [conn EXCEPT ![c] = path]
    /\ ClientAt(c, label)
CannotDial == path = None \/ ~Listening(path)

\* call: dial, or have ensureDaemon start a daemon, which only Start does here.
Dial(c) ==
    /\ cl[c] = "new"
    /\ \/ /\ Dials(c, "queued")
          /\ \E o \in Ops : op' = [op EXCEPT ![c] = o]
          /\ UNCHANGED <<at, by, asked>>
       \/ /\ CannotDial /\ "start" \in Ops
          /\ \E p \in Procs : IsNew(p) /\ Goto(p, "stat")
          /\ ClientAt(c, "poll") /\ op' = [op EXCEPT ![c] = "start"]
          /\ UNCHANGED <<conn, by, asked>>
       \/ CannotDial /\ ClientEnds(c) /\ UNCHANGED at
    /\ UNCHANGED <<path, sock, open, unlinks, stateVars, handVars, crashes, ghostVars>>

\* ensureDaemon polls until something listens, or for StartTimeout.
Poll(c) ==
    /\ cl[c] = "poll"
    /\ \/ ~CannotDial /\ ClientAt(c, "redial") /\ UNCHANGED <<op, conn, by, asked>>
       \/ ClientEnds(c)
    /\ UNCHANGED <<path, loopVars, stateVars, handVars, crashes, ghostVars>>

\* call's second dial.
Redial(c) ==
    /\ cl[c] = "redial"
    /\ \/ Dials(c, "queued") /\ UNCHANGED <<op, by, asked>>
       \/ CannotDial /\ ClientEnds(c)
    /\ UNCHANGED <<path, loopVars, stateVars, handVars, crashes, ghostVars>>

\* WaitReady, after a restart was accepted: dial and ask for the version ...
Probe(c) ==
    /\ cl[c] = "probe"
    /\ Dials(c, "probing")
    /\ UNCHANGED <<path, loopVars, stateVars, handVars, op, by, asked, crashes, ghostVars>>

\* ... again when there is no answer within 2 s or the connection breaks ...
ProbeAgain(c) ==
    /\ cl[c] = "probing"
    /\ ClientAt(c, "probe") /\ conn' = [conn EXCEPT ![c] = None]
    /\ UNCHANGED <<path, loopVars, stateVars, handVars, op, by, asked, crashes, ghostVars>>

\* ... until the deadline.
ProbeOver(c) ==
    /\ cl[c] \in {"probe", "probing"}
    /\ ClientEnds(c)
    /\ UNCHANGED <<path, loopVars, stateVars, handVars, crashes, ghostVars>>

\* Its connection breaks: nobody listens on the socket any more, or the daemon that
\* handled the call is dead.
Broken(c) ==
    /\ \/ cl[c] = "queued" /\ ~Listening(conn[c])
       \/ Handling(c) /\ at[by[c]] = "dead"
    /\ IF cl[c] = "version"
         THEN /\ ClientAt(c, "probe") /\ by' = [by EXCEPT ![c] = None]
              /\ UNCHANGED <<op, conn, asked>>
         ELSE ClientEnds(c)
    /\ UNCHANGED <<path, loopVars, stateVars, handVars, crashes, ghostVars>>

----------------------------------------------------------------------------
Loop(p) ==
    \/ PrepareStat(p) \/ PrepareDial(p) \/ PrepareRemove(p) \/ Listen(p)
    \/ LoopTop(p) \/ AcceptFails(p) \/ CloseListener(p)
    \/ Returns(p) \/ CleanUp(p) \/ Exit(p)

HandoffStep(p) ==
    Snapshot(p) \/ DupListeners(p) \/ Spawn(p) \/ WaitOver(p) \/ WaitFails(p)

Restoring(p) == Adopt(p) \/ RestoreFails(p) \/ RestoreReady(p)

Handler(c) ==
    /\ Handling(c) => Alive(by[c])
    /\ \/ Gate(c) \/ DoStart(c) \/ DoStop(c) \/ DoRestart(c)
       \/ DoShutdown(c) \/ Cancel(c) \/ DoVersion(c)

Caller(c) == Dial(c) \/ Poll(c) \/ Redial(c) \/ ProbeOver(c) \/ Broken(c)

Next ==
    \/ \E p \in Procs :
          \/ Loop(p) \/ AcceptEmpty(p) \/ HandoffStep(p) \/ Restoring(p)
          \/ BridgeEnds(p) \/ Crash(p)
    \/ \E c \in Clients :
          \/ Caller(c) \/ Handler(c) \/ Probe(c) \/ ProbeAgain(c)
          \/ \E p \in Procs : AcceptConn(p, c)

Spec == Init /\ [][Next]_vars

(***************************************************************************)
(* Fairness: goroutines that can run do; a queued connection is taken in   *)
(* its turn when its listener is accepted on again and again; StartTimeout *)
(* and the deadlines of handoff and WaitReady pass.                        *)
(*                                                                         *)
(* Two things may last for ever.  Manager.Start asks the device for its    *)
(* properties without a deadline, so nothing is asked of DoStart.  Run     *)
(* waits for its handlers, such a Start or one that reads a connection on  *)
(* which no request comes, so nothing is asked of Exit.  And nothing is    *)
(* asked of a new daemon that restores: it may be any program.             *)
(***************************************************************************)
Starting(c) == cl[c] = "act" /\ op[c] = "start"

Fairness ==
    /\ \A p \in Procs :
          WF_vars(at[p] # "join" /\ Loop(p)) /\ WF_vars(HandoffStep(p))
    /\ \A c \in Clients :
          /\ WF_vars(Caller(c) \/ (~Starting(c) /\ Handler(c)))
          /\ SF_vars(\E p \in Procs : AcceptConn(p, c))

FairSpec == Spec /\ Fairness

----------------------------------------------------------------------------
(* Properties                                                              *)

\* Every variable keeps to its type, and what is over holds no listener.
TypeOK ==
    /\ path \in Sockets \cup {None}
    /\ at \in [Procs -> {"none", "stat", "dial", "remove", "listen", "restore", "top", "accept",
                         "close", "clean", "join", "gone", "dead"}]
    /\ sock \in [Procs -> Procs \cup {None}]
    /\ open \in [Procs -> BOOLEAN] /\ unlinks \in [Procs -> BOOLEAN]
    /\ \A p \in Procs : open[p] => at[p] \in {"restore", "top", "accept", "close"}
    /\ root \in [Procs -> BOOLEAN] /\ restarting \in [Procs -> BOOLEAN]
    /\ handedOff \in [Procs -> BOOLEAN]
    /\ brg \in [Procs -> SUBSET Bridges]
    /\ hand \in [Procs -> {"off", "snapshot", "dup", "spawn", "wait"}]
    /\ snap \in [Procs -> SUBSET Bridges] /\ child \in [Procs -> Procs \cup {None}]
    /\ todo \in [Procs -> SUBSET Bridges] /\ ready \in [Procs -> BOOLEAN]
    /\ cl \in [Clients -> {"new", "poll", "redial", "queued", "handle", "act", "cancel",
                           "probe", "probing", "version", "end"}]
    /\ op \in [Clients -> Ops \cup {"none"}]
    /\ conn \in [Clients -> Sockets \cup {None}]
    /\ by \in [Clients -> Procs \cup {None}] /\ asked \in [Clients -> Procs \cup {None}]
    /\ crashes \in 0 .. MaxCrashes
    /\ kept \subseteq Bridges /\ stolen \in BOOLEAN

\* A restart, failed or not, loses no bridge: one that nobody stopped, and whose Start
\* was not past the gate when the snapshot was taken, is served by a living daemon.
RestartKeepsBridges ==
    \A b \in kept : \E p \in Procs : Alive(p) /\ b \in brg[p] \cup todo[p]

\* A handoff that has failed has ended the process it started, ready or not, whatever
\* that one had done by then.
FailedHandoffEndsChild ==
    \A p \in Procs : (Running(p) /\ child[p] # None /\ hand[p] # "wait" /\ ~handedOff[p])
        => ~Alive(child[p])

\* After a handoff the file leads to the new daemon: the leaving one, which closes its
\* listener at any time later, does not take it away.
HandoffKeepsPath ==
    \A p \in Procs : LET q == child[p] IN
        (handedOff[p] /\ Running(q) /\ ~root[q] /\ ~stolen) => path = sock[q]

\* A restart comes to an end, whatever the new binary does: the gate opens again, or the
\* old daemon has let go of its socket and waits for nothing but its handlers.
RestartSettles == []<>(\A p \in Procs : restarting[p] => at[p] = "join")

\* Every command comes to an end, also one that queued while accept was paused, unless it
\* is a Start that hangs in its device, or the old daemon was shut down or died and the
\* new one hangs: a call has no deadline.
Orphaned == \E p \in Procs : child[p] # None /\ ~Alive(p) /\ at[child[p]] = "restore"
CallEnds == \A c \in Clients : []<>(cl[c] \in {"new", "end"} \/ Starting(c) \/ Orphaned)

\* WaitReady's comment: the answer it takes for the new daemon's is the new daemon's.
\* (Violated: the old daemon takes one more connection, and goes on after a failure.)
ReadyMeansReplaced ==
    \A c \in Clients : cl[c] = "version" => by[c] # asked[c]
=============================================================================
