--------------------------- MODULE ControlPlaneProofs ---------------------------
(***************************************************************************)
(* The safety invariants of ControlPlane, for any number of processes,     *)
(* commands, bridges and crashes.  The inductive invariant says what a     *)
(* process at each stage of its life may hold, what a handoff knows of its *)
(* child, who handles a call, which socket the file belongs to, and which  *)
(* process answers for a bridge that nobody asked to end.                  *)
(***************************************************************************)
EXTENDS ControlPlane, TLAPS

\* A process that does not serve yet, and one that may still hand off.
Young(p) == at[p] \in {"none", "stat", "dial", "remove", "listen"}
Fresh(p) == Young(p) \/ at[p] = "restore"

\* What a process holds at each stage of its life.
Life(p) ==
    /\ Fresh(p) => /\ hand[p] = "off" /\ child[p] = None /\ ~ready[p]
                   /\ ~handedOff[p] /\ ~restarting[p]
    /\ Young(p) => brg[p] = {} /\ todo[p] = {}
    /\ todo[p] # {} => at[p] = "restore"
    /\ at[p] = "restore" => open[p]
    /\ Running(p) \/ at[p] = "restore" => sock[p] # None
    /\ Running(p) /\ ~root[p] => open[p] /\ at[p] \in {"top", "accept"}
LifeInv == \A p \in Procs : Life(p)

\* A handoff runs in a daemon that serves, with its gate closed; from the copies on,
\* closing the listener leaves the file alone.
Handing(p) ==
    /\ hand[p] # "off" => Running(p) /\ restarting[p] /\ ~handedOff[p]
    /\ handedOff[p] /\ Alive(p) => restarting[p]
    /\ hand[p] = "wait" \/ handedOff[p] => child[p] # None
    /\ hand[p] \in {"spawn", "wait"} \/ handedOff[p] => ~unlinks[p]
HandInv == \A p \in Procs : Handing(p)

\* The child that is waited for and has not written the ready byte.
Expects(p, q) == hand[p] = "wait" /\ q = child[p] /\ Alive(q) /\ ~ready[q]

\* A child is another process that was started; until it is ready, it restores what the
\* snapshot gave it; when its parent no longer waits for it, it is over or has taken over.
Parent(p) ==
    /\ child[p] # None => child[p] # p /\ at[child[p]] # "none"
    /\ Expects(p, child[p]) => at[child[p]] = "restore" /\ todo[child[p]] \subseteq snap[p]
ParentInv == \A p \in Procs : Parent(p)

\* The process that handles a call serves, or died.
ServedInv == \A c \in Clients :
    Handling(c) => by[c] # None /\ (Running(by[c]) \/ at[by[c]] = "dead")

\* As long as no file of a socket in use was removed, the file is that of every
\* listener, and of every handoff's copy.
PathInv == ~stolen => \A p \in Procs :
    open[p] \/ hand[p] \in {"spawn", "wait"} => path = sock[p]

\* q answers for the bridges it has: it has not left them to a new daemon.
Answers(q) == Alive(q) /\ ~handedOff[q] /\ ~(hand[q] = "wait" /\ ready[child[q]])

\* Every kept bridge has a process that answers for it.
AnswerInv == \A b \in kept : \E q \in Procs : Answers(q) /\ b \in brg[q] \cup todo[q]

\* Of the kept bridges, a snapshot has those of the daemon, and a child that is not ready
\* has those of the snapshot; a daemon about to exit has none left.
Keeps(p) ==
    /\ hand[p] \in {"dup", "spawn", "wait"} => \A b \in kept : b \in snap[p] <=> b \in brg[p]
    /\ Expects(p, child[p]) =>
          \A b \in kept : b \in snap[p] => b \in brg[child[p]] \cup todo[child[p]]
    /\ at[p] = "join" /\ ~handedOff[p] => \A b \in kept : b \notin brg[p]
KeepInv == \A p \in Procs : Keeps(p)

KeptInv == AnswerInv /\ KeepInv

\* The stages of processes and calls; the file; the bridges.
Stages == TypeOK /\ LifeInv /\ HandInv /\ ParentInv /\ FailedHandoffEndsChild /\ ServedInv
IInv == Stages /\ PathInv /\ KeptInv

----------------------------------------------------------------------------
(* Types                                                                   *)

\* A process and a command have one place each.
LEMMA TypeInit == Init => TypeOK
<1>. SUFFICES ASSUME Init PROVE TypeOK
    OBVIOUS
<1>1. 0 \in 0 .. MaxCrashes
    BY ControlAssumption
<1>2. PICK up \in BOOLEAN :
        /\ path \in IF up THEN {1} ELSE {None, Leftover}
        /\ at = [p \in Procs |-> IF up /\ p = 1 THEN "top" ELSE "none"]
        /\ sock = [p \in Procs |-> IF up /\ p = 1 THEN 1 ELSE None]
        /\ open = [p \in Procs |-> up /\ p = 1]
        /\ unlinks = open
        /\ brg = [p \in Procs |-> IF up /\ p = 1 THEN Bridges \cap {1} ELSE {}]
        /\ kept = IF up THEN Bridges \cap {1} ELSE {}
    BY DEF Init
<1>3. 1 \in Procs
    BY ControlAssumption DEF Procs
<1>4. open \in [Procs -> BOOLEAN] /\ unlinks \in [Procs -> BOOLEAN]
    BY <1>2
<1>5. \A p \in Procs : open[p] => at[p] \in {"restore", "top", "accept", "close"}
    BY <1>2
<1>. QED  BY <1>1, <1>2, <1>3, <1>4, <1>5 DEF Init, TypeOK, Sockets

\* Spawn starts a new process q, or gives up.
SpawnStep(p, q) ==
    /\ hand[p] = "spawn" /\ IsNew(q)
    /\ Goto(q, "restore")
    /\ sock' = [sock EXCEPT ![q] = sock[p]] /\ open' = [open EXCEPT ![q] = TRUE]
    /\ todo' = [todo EXCEPT ![q] = snap[p]]
    /\ child' = [child EXCEPT ![p] = q]
    /\ hand' = [hand EXCEPT ![p] = "wait"]
    /\ UNCHANGED <<path, unlinks, root, restarting, handedOff, brg, snap, ready, clientVars,
                   crashes, ghostVars>>

LEMMA SpawnCases ==
    ASSUME NEW p \in Procs, Spawn(p)
    PROVE  \/ UNCHANGED <<at, sock, open, todo, child>> /\ FailHandoff(p)
           \/ \E q \in Procs : SpawnStep(p, q)
BY DEF Spawn, SpawnStep

LEMMA TypeStep == TypeOK /\ [Next]_vars => TypeOK'
<1>. SUFFICES ASSUME TypeOK, [Next]_vars PROVE TypeOK'
    OBVIOUS
<1>. USE ControlAssumption
<1>1. ASSUME NEW p \in Procs, PrepareStat(p) PROVE TypeOK'
    BY <1>1 DEF PrepareStat, Goto, stateVars, handVars, clientVars, ghostVars, TypeOK
<1>2. ASSUME NEW p \in Procs, PrepareDial(p) PROVE TypeOK'
    BY <1>2 DEF PrepareDial, Goto, stateVars, handVars, clientVars, ghostVars, TypeOK
<1>3. ASSUME NEW p \in Procs, PrepareRemove(p) PROVE TypeOK'
    BY <1>3 DEF PrepareRemove, Goto, Steals, stateVars, handVars, clientVars, TypeOK
<1>4. ASSUME NEW p \in Procs, Listen(p) PROVE TypeOK'
    <2>1. CASE path # None
        BY <1>4, <2>1
        DEF Listen, Goto, stateVars, handVars, clientVars, ghostVars, TypeOK
    <2>2. CASE path = None
        <3>1. /\ path' = p /\ sock' = [sock EXCEPT ![p] = p]
              /\ open' = [open EXCEPT ![p] = TRUE] /\ unlinks' = [unlinks EXCEPT ![p] = TRUE]
              /\ at' = [at EXCEPT ![p] = "top"]
              /\ UNCHANGED <<stateVars, handVars, clientVars, crashes, ghostVars>>
            BY <1>4, <2>2 DEF Listen, Goto
        <3>2. path' \in Sockets
            BY <3>1 DEF Sockets
        <3>. QED  BY <3>1, <3>2 DEF stateVars, handVars, clientVars, ghostVars, TypeOK
    <2>. QED  BY <2>1, <2>2
<1>5. ASSUME NEW p \in Procs, LoopTop(p) PROVE TypeOK'
    BY <1>5 DEF LoopTop, Goto, stateVars, handVars, clientVars, ghostVars, TypeOK
<1>6. ASSUME NEW p \in Procs, AcceptEmpty(p) PROVE TypeOK'
    BY <1>6 DEF AcceptEmpty, Goto, stateVars, handVars, clientVars, ghostVars, TypeOK
<1>7. ASSUME NEW p \in Procs, AcceptFails(p) PROVE TypeOK'
    BY <1>7 DEF AcceptFails, Goto, stateVars, handVars, clientVars, ghostVars, TypeOK
<1>8. ASSUME NEW p \in Procs, CloseListener(p) PROVE TypeOK'
    BY <1>8 DEF CloseListener, Steals, stateVars, handVars, clientVars, TypeOK
<1>9. ASSUME NEW p \in Procs, Returns(p) PROVE TypeOK'
    BY <1>9 DEF Returns, Goto, stateVars, handVars, clientVars, ghostVars, TypeOK
<1>10. ASSUME NEW p \in Procs, CleanUp(p) PROVE TypeOK'
    BY <1>10 DEF CleanUp, Goto, Steals, handVars, clientVars, ghostVars, TypeOK
<1>11. ASSUME NEW p \in Procs, Exit(p) PROVE TypeOK'
    BY <1>11 DEF Exit, Goto, Ends, clientVars, ghostVars, TypeOK
<1>12. ASSUME NEW p \in Procs, Snapshot(p) PROVE TypeOK'
    BY <1>12 DEF Snapshot, loopVars, stateVars, clientVars, ghostVars, TypeOK
<1>13. ASSUME NEW p \in Procs, DupListeners(p) PROVE TypeOK'
    BY <1>13 DEF DupListeners, FailHandoff, clientVars, ghostVars, TypeOK
<1>14. ASSUME NEW p \in Procs, Spawn(p) PROVE TypeOK'
    <2>1. CASE UNCHANGED <<at, sock, open, todo, child>> /\ FailHandoff(p)
        BY <1>14, <2>1 DEF Spawn, FailHandoff, clientVars, ghostVars, TypeOK
    <2>2. ASSUME NEW q \in Procs, SpawnStep(p, q) PROVE TypeOK'
        BY <1>14, <2>2 DEF SpawnStep, Goto, clientVars, ghostVars, TypeOK
    <2>. QED  BY <1>14, <2>1, <2>2, SpawnCases
<1>15. ASSUME NEW p \in Procs, WaitOver(p) PROVE TypeOK'
    BY <1>15 DEF WaitOver, loopVars, clientVars, ghostVars, TypeOK
<1>16. ASSUME NEW p \in Procs, WaitFails(p) PROVE TypeOK'
    BY <1>16 DEF WaitFails, Goto, Ends, clientVars, TypeOK
<1>17. ASSUME NEW p \in Procs, Adopt(p) PROVE TypeOK'
    BY <1>17 DEF Adopt, loopVars, clientVars, ghostVars, TypeOK
<1>18. ASSUME NEW p \in Procs, RestoreFails(p) PROVE TypeOK'
    BY <1>18 DEF RestoreFails, Goto, Ends, KeptWithout, clientVars, TypeOK
<1>19. ASSUME NEW p \in Procs, RestoreReady(p) PROVE TypeOK'
    BY <1>19 DEF RestoreReady, Goto, stateVars, clientVars, ghostVars, TypeOK
<1>20. ASSUME NEW p \in Procs, BridgeEnds(p) PROVE TypeOK'
    BY <1>20 DEF BridgeEnds, loopVars, handVars, clientVars, TypeOK
<1>21. ASSUME NEW p \in Procs, Crash(p) PROVE TypeOK'
    BY <1>21 DEF Crash, Goto, Ends, KeptWithout, clientVars, TypeOK
<1>22. ASSUME NEW p \in Procs, NEW c \in Clients, AcceptConn(p, c) PROVE TypeOK'
    BY <1>22 DEF AcceptConn, Goto, ClientAt, stateVars, handVars, ghostVars, TypeOK
<1>23. ASSUME NEW c \in Clients, Gate(c) PROVE TypeOK'
    BY <1>23
    DEF Gate, ClientAt, ClientEnds, loopVars, stateVars, handVars, ghostVars, TypeOK
<1>24. ASSUME NEW c \in Clients, DoStart(c) PROVE TypeOK'
    BY <1>24 DEF DoStart, ClientAt, ClientEnds, loopVars, handVars, TypeOK
<1>25. ASSUME NEW c \in Clients, DoStop(c) PROVE TypeOK'
    BY SMTT(20), <1>25 DEF DoStop, ClientAt, ClientEnds, loopVars, handVars, TypeOK
<1>26. ASSUME NEW c \in Clients, DoRestart(c) PROVE TypeOK'
    <2>1. CASE restarting[by[c]]
        BY <1>26, <2>1
        DEF DoRestart, ClientAt, ClientEnds, loopVars, ghostVars, TypeOK
    <2>2. CASE ~restarting[by[c]]
        BY <1>26, <2>2 DEF DoRestart, ClientAt, loopVars, ghostVars, TypeOK
    <2>. QED  BY <2>1, <2>2
<1>27. ASSUME NEW c \in Clients, DoShutdown(c) PROVE TypeOK'
    BY <1>27 DEF DoShutdown, ClientAt, loopVars, stateVars, handVars, ghostVars, TypeOK
<1>28. ASSUME NEW c \in Clients, Cancel(c) PROVE TypeOK'
    BY <1>28 DEF Cancel, ClientAt, ClientEnds, loopVars, handVars, ghostVars, TypeOK
<1>29. ASSUME NEW c \in Clients, DoVersion(c) PROVE TypeOK'
    BY <1>29
    DEF DoVersion, ClientAt, ClientEnds, loopVars, stateVars, handVars, ghostVars,
        TypeOK
<1>30. ASSUME NEW c \in Clients, Dial(c) PROVE TypeOK'
    BY SMTT(20), <1>30
    DEF Dial, Goto, ClientAt, ClientEnds, Dials, CannotDial, IsNew, stateVars, handVars,
        ghostVars, TypeOK
<1>31. ASSUME NEW c \in Clients, Poll(c) PROVE TypeOK'
    BY <1>31
    DEF Poll, ClientAt, ClientEnds, CannotDial, loopVars, stateVars, handVars,
        ghostVars, TypeOK
<1>32. ASSUME NEW c \in Clients, Redial(c) PROVE TypeOK'
    BY <1>32
    DEF Redial, ClientAt, ClientEnds, Dials, CannotDial, loopVars, stateVars, handVars,
        ghostVars, TypeOK
<1>33. ASSUME NEW c \in Clients, Probe(c) PROVE TypeOK'
    BY <1>33 DEF Probe, ClientAt, Dials, loopVars, stateVars, handVars, ghostVars, TypeOK
<1>34. ASSUME NEW c \in Clients, ProbeAgain(c) PROVE TypeOK'
    BY <1>34 DEF ProbeAgain, ClientAt, loopVars, stateVars, handVars, ghostVars, TypeOK
<1>35. ASSUME NEW c \in Clients, ProbeOver(c) PROVE TypeOK'
    BY <1>35
    DEF ProbeOver, ClientAt, ClientEnds, loopVars, stateVars, handVars, ghostVars,
        TypeOK
<1>36. ASSUME NEW c \in Clients, Broken(c) PROVE TypeOK'
    BY <1>36
    DEF Broken, ClientAt, ClientEnds, loopVars, stateVars, handVars, ghostVars, TypeOK
<1>37. CASE UNCHANGED vars
    BY <1>37 DEF TypeOK, vars, loopVars, stateVars, handVars, clientVars, ghostVars
<1>. QED  BY <1>1, <1>2, <1>3, <1>4, <1>5, <1>6, <1>7, <1>8, <1>9, <1>10, <1>11,
             <1>12, <1>13, <1>14, <1>15, <1>16, <1>17, <1>18, <1>19, <1>20,
             <1>21, <1>22, <1>23, <1>24, <1>25, <1>26, <1>27, <1>28, <1>29,
             <1>30, <1>31, <1>32, <1>33, <1>34, <1>35, <1>36, <1>37
          DEF Next, Loop, HandoffStep, Restoring, Caller, Handler

----------------------------------------------------------------------------
(* The steps                                                               *)

\* A step of a command that changes nothing in a daemon.
daemonVars == <<path, loopVars, stateVars, handVars, ghostVars>>
LEMMA CommandFrame ==
    ASSUME IInv, TypeOK', ServedInv', UNCHANGED daemonVars
    PROVE  IInv'
BY DEF daemonVars, loopVars, stateVars, handVars, ghostVars, IInv, Stages, LifeInv, Life, Young,
       Fresh, Running, Alive, HandInv, Handing, ParentInv, Parent, Expects, FailedHandoffEndsChild,
       PathInv, KeptInv, AnswerInv, Answers, KeepInv, Keeps

\* Run, from the socket file to the exit.
LEMMA LoopKeeps ==
    ASSUME IInv, TypeOK', NEW p \in Procs, Loop(p)
    PROVE  IInv'
<1>. USE DEF IInv, Stages, TypeOK, LifeInv, Life, Young, Fresh, Running, Alive, HandInv,
             Handing, ParentInv, Parent, Expects, FailedHandoffEndsChild, ServedInv, Handling
<1>1. ASSUME PrepareStat(p) PROVE IInv'
    BY <1>1
    DEF PrepareStat, Goto, stateVars, handVars, clientVars, ghostVars, PathInv, KeptInv,
        AnswerInv, Answers, KeepInv, Keeps
<1>2. ASSUME PrepareDial(p) PROVE IInv'
    BY <1>2
    DEF PrepareDial, Goto, stateVars, handVars, clientVars, ghostVars, PathInv, KeptInv,
        AnswerInv, Answers, KeepInv, Keeps
<1>3. ASSUME PrepareRemove(p) PROVE IInv'
    <2>1. Stages'
        BY <1>3 DEF PrepareRemove, Goto, Steals, stateVars, handVars, clientVars
    <2>2. PathInv'
        BY <1>3 DEF PrepareRemove, Goto, Steals, stateVars, handVars, clientVars, PathInv
    <2>3. KeptInv'
        BY <1>3
        DEF PrepareRemove, Goto, Steals, stateVars, handVars, clientVars, KeptInv,
            AnswerInv, Answers, KeepInv, Keeps
    <2>. QED  BY <2>1, <2>2, <2>3
<1>4. ASSUME Listen(p) PROVE IInv'
    <2>1. /\ at[p] = "listen"
          /\ UNCHANGED <<root, restarting, handedOff, brg, handVars, clientVars, ghostVars>>
        BY <1>4 DEF Listen, stateVars
    <2>2. CASE path # None
        <3>1. at' = [at EXCEPT ![p] = "gone"] /\ UNCHANGED <<path, sock, open, unlinks>>
            BY <1>4, <2>2 DEF Listen, Goto
        <3>. QED  BY <2>1, <3>1 DEF handVars, clientVars, ghostVars, PathInv, KeptInv,
                                    AnswerInv, Answers, KeepInv, Keeps
    <2>3. CASE path = None
        <3>1. /\ path' = p /\ at' = [at EXCEPT ![p] = "top"]
              /\ sock' = [sock EXCEPT ![p] = p] /\ open' = [open EXCEPT ![p] = TRUE]
              /\ unlinks' = [unlinks EXCEPT ![p] = TRUE]
            BY <1>4, <2>3 DEF Listen, Goto
        <3>2. p # None
            BY DEF Procs, None
        <3>3. LifeInv'
            BY <2>1, <3>1, <3>2 DEF handVars
        <3>4. HandInv' /\ ParentInv' /\ FailedHandoffEndsChild' /\ ServedInv'
            BY <2>1, <3>1, <3>2 DEF handVars, clientVars
        <3>5. PathInv'
            BY <2>1, <2>3, <3>1 DEF handVars, ghostVars, PathInv
        <3>6. KeptInv'
            BY <2>1, <3>1 DEF handVars, ghostVars, KeptInv, AnswerInv, Answers, KeepInv, Keeps
        <3>. QED  BY <3>3, <3>4, <3>5, <3>6
    <2>. QED  BY <2>2, <2>3
<1>5. ASSUME LoopTop(p) PROVE IInv'
    BY SMTT(20), <1>5
    DEF LoopTop, Goto, stateVars, handVars, clientVars, ghostVars, PathInv, KeptInv,
        AnswerInv, Answers, KeepInv, Keeps
<1>6. ASSUME AcceptFails(p) PROVE IInv'
    BY <1>6
    DEF AcceptFails, Goto, stateVars, handVars, clientVars, ghostVars, PathInv, KeptInv,
        AnswerInv, Answers, KeepInv, Keeps
<1>7. ASSUME CloseListener(p) PROVE IInv'
    <2>1. Stages'
        BY <1>7 DEF CloseListener, Steals, stateVars, handVars, clientVars
    <2>2. PathInv'
        BY <1>7 DEF CloseListener, Steals, stateVars, handVars, clientVars, PathInv
    <2>3. KeptInv'
        BY <1>7
        DEF CloseListener, Steals, stateVars, handVars, clientVars, KeptInv,
            AnswerInv, Answers, KeepInv, Keeps
    <2>. QED  BY <2>1, <2>2, <2>3
<1>8. ASSUME Returns(p) PROVE IInv'
    BY <1>8
    DEF Returns, Goto, stateVars, handVars, clientVars, ghostVars, PathInv, KeptInv,
        AnswerInv, Answers, KeepInv, Keeps
<1>9. ASSUME CleanUp(p) PROVE IInv'
    <2>1. Stages'
        BY <1>9 DEF CleanUp, Goto, Steals, handVars, clientVars, ghostVars
    <2>2. PathInv'
        BY <1>9 DEF CleanUp, Goto, Steals, handVars, clientVars, ghostVars, PathInv
    <2>3. KeptInv'
        BY SMTT(20), <1>9
        DEF CleanUp, Goto, Steals, handVars, clientVars, ghostVars, KeptInv,
            AnswerInv, Answers, KeepInv, Keeps
    <2>. QED  BY <2>1, <2>2, <2>3
<1>10. ASSUME Exit(p) PROVE IInv'
    <2>1. Stages'
        BY <1>10 DEF Exit, Goto, Ends, clientVars, ghostVars
    <2>2. PathInv'
        BY <1>10 DEF Exit, Goto, Ends, clientVars, ghostVars, PathInv
    <2>3. KeptInv'
        BY <1>10
        DEF Exit, Goto, Ends, clientVars, ghostVars, KeptInv, AnswerInv, Answers,
            KeepInv, Keeps
    <2>. QED  BY <2>1, <2>2, <2>3
<1>. QED  BY <1>1, <1>2, <1>3, <1>4, <1>5, <1>6, <1>7, <1>8, <1>9, <1>10 DEF Loop

\* The handoff of the old daemon.
LEMMA HandoffKeeps ==
    ASSUME IInv, TypeOK', NEW p \in Procs, HandoffStep(p)
    PROVE  IInv'
<1>. USE DEF IInv, Stages, TypeOK, LifeInv, Life, Young, Fresh, Running, Alive, HandInv,
             Handing, ParentInv, Parent, Expects, FailedHandoffEndsChild, ServedInv, Handling
<1>1. ASSUME Snapshot(p) PROVE IInv'
    <2>1. Stages'
        BY <1>1 DEF Snapshot, loopVars, stateVars, clientVars, ghostVars
    <2>2. PathInv'
        BY <1>1 DEF Snapshot, loopVars, stateVars, clientVars, ghostVars, PathInv
    <2>3. KeptInv'
        BY <1>1
        DEF Snapshot, loopVars, stateVars, clientVars, ghostVars, KeptInv,
            AnswerInv, Answers, KeepInv, Keeps
    <2>. QED  BY <2>1, <2>2, <2>3
<1>2. ASSUME DupListeners(p) PROVE IInv'
    <2>1. Stages'
        BY <1>2 DEF DupListeners, FailHandoff, clientVars, ghostVars
    <2>2. PathInv'
        BY <1>2 DEF DupListeners, FailHandoff, clientVars, ghostVars, PathInv
    <2>3. KeptInv'
        BY <1>2
        DEF DupListeners, FailHandoff, clientVars, ghostVars, KeptInv, AnswerInv,
            Answers, KeepInv, Keeps
    <2>. QED  BY <2>1, <2>2, <2>3
<1>3. ASSUME Spawn(p) PROVE IInv'
    <2>1. ASSUME UNCHANGED <<at, sock, open, todo, child>>, FailHandoff(p) PROVE IInv'
        BY <1>3, <2>1 DEF Spawn, FailHandoff, clientVars, ghostVars, PathInv, KeptInv,
                          AnswerInv, Answers, KeepInv, Keeps
    <2>2. ASSUME NEW q \in Procs, SpawnStep(p, q) PROVE IInv'
        <3>1. q # None /\ Young(q) /\ p # q
            BY <2>2 DEF SpawnStep, IsNew, Procs, None
        <3>2. LifeInv'
            BY <2>2, <3>1 DEF SpawnStep, IsNew, Goto
        <3>3. HandInv'
            BY <2>2, <3>1 DEF SpawnStep, IsNew, Goto
        <3>4. ParentInv' /\ FailedHandoffEndsChild' /\ ServedInv'
            BY <2>2, <3>1 DEF SpawnStep, IsNew, Goto, clientVars
        <3>5. PathInv'
            BY <2>2 DEF SpawnStep, IsNew, Goto, ghostVars, PathInv
        <3>6. KeptInv'
            BY <2>2, <3>1 DEF SpawnStep, IsNew, Goto, ghostVars, KeptInv, AnswerInv, Answers,
                              KeepInv, Keeps
        <3>. QED  BY <3>2, <3>3, <3>4, <3>5, <3>6
    <2>. QED  BY <1>3, <2>1, <2>2, SpawnCases
<1>4. ASSUME WaitOver(p) PROVE IInv'
    <2>1. Stages'
        BY <1>4 DEF WaitOver, loopVars, clientVars, ghostVars
    <2>2. PathInv'
        BY <1>4 DEF WaitOver, loopVars, clientVars, ghostVars, PathInv
    <2>3. KeptInv'
        BY <1>4
        DEF WaitOver, loopVars, clientVars, ghostVars, KeptInv, AnswerInv, Answers,
            KeepInv, Keeps
    <2>. QED  BY <2>1, <2>2, <2>3
<1>5. ASSUME WaitFails(p) PROVE IInv'
    <2>1. PICK q \in Procs : q = child[p] /\ q # None /\ q # p /\ at[q] # "none"
        BY <1>5 DEF WaitFails
    <2>2. LifeInv' /\ HandInv'
        BY <1>5, <2>1 DEF WaitFails, Goto, Ends
    <2>3. ParentInv' /\ FailedHandoffEndsChild'
        BY <1>5, <2>1 DEF WaitFails, Goto, Ends
    <2>4. ServedInv'
        BY <1>5, <2>1 DEF WaitFails, Goto, Ends, clientVars
    <2>5. PathInv'
        BY <1>5, <2>1 DEF WaitFails, Goto, Ends, PathInv
    <2>6. AnswerInv'
        BY SMTT(20), <1>5, <2>1 DEF WaitFails, Goto, Ends, KeptInv, AnswerInv, Answers, KeepInv, Keeps
    <2>7. KeepInv'
        BY <1>5, <2>1 DEF WaitFails, Goto, Ends, KeptInv, KeepInv, Keeps
    <2>. QED  BY <2>2, <2>3, <2>4, <2>5, <2>6, <2>7 DEF KeptInv
<1>. QED  BY <1>1, <1>2, <1>3, <1>4, <1>5 DEF HandoffStep

\* The new daemon restores what it inherited.
LEMMA RestoreKeeps ==
    ASSUME IInv, TypeOK', NEW p \in Procs, Restoring(p)
    PROVE  IInv'
<1>. USE DEF IInv, Stages, TypeOK, LifeInv, Life, Young, Fresh, Running, Alive, HandInv,
             Handing, ParentInv, Parent, Expects, FailedHandoffEndsChild, ServedInv, Handling
<1>1. ASSUME Adopt(p) PROVE IInv'
    BY <1>1
    DEF Adopt, loopVars, clientVars, ghostVars, PathInv, KeptInv, AnswerInv, Answers,
        KeepInv, Keeps
<1>2. ASSUME RestoreFails(p) PROVE IInv'
    <2>1. Stages'
        BY <1>2 DEF RestoreFails, Goto, Ends, KeptWithout, clientVars
    <2>2. PathInv'
        BY <1>2 DEF RestoreFails, Goto, Ends, KeptWithout, clientVars, PathInv
    <2>3. KeptInv'
        BY <1>2
        DEF RestoreFails, Goto, Ends, KeptWithout, clientVars, KeptInv, AnswerInv,
            Answers, KeepInv, Keeps
    <2>. QED  BY <2>1, <2>2, <2>3
<1>3. ASSUME RestoreReady(p) PROVE IInv'
    <2>1. Stages'
        BY <1>3 DEF RestoreReady, Goto, stateVars, clientVars, ghostVars
    <2>2. PathInv'
        BY <1>3 DEF RestoreReady, Goto, stateVars, clientVars, ghostVars, PathInv
    <2>3. KeptInv'
        BY <1>3
        DEF RestoreReady, Goto, stateVars, clientVars, ghostVars, KeptInv,
            AnswerInv, Answers, KeepInv, Keeps
    <2>. QED  BY <2>1, <2>2, <2>3
<1>. QED  BY <1>1, <1>2, <1>3 DEF Restoring

\* What else happens in a daemon.
LEMMA DaemonKeeps ==
    ASSUME IInv, TypeOK', NEW p \in Procs, AcceptEmpty(p) \/ BridgeEnds(p) \/ Crash(p)
    PROVE  IInv'
<1>. USE DEF IInv, Stages, TypeOK, LifeInv, Life, Young, Fresh, Running, Alive, HandInv,
             Handing, ParentInv, Parent, Expects, FailedHandoffEndsChild, ServedInv, Handling
<1>1. ASSUME AcceptEmpty(p) PROVE IInv'
    BY <1>1
    DEF AcceptEmpty, Goto, stateVars, handVars, clientVars, ghostVars, PathInv, KeptInv,
        AnswerInv, Answers, KeepInv, Keeps
<1>2. ASSUME BridgeEnds(p) PROVE IInv'
    BY <1>2
    DEF BridgeEnds, loopVars, handVars, clientVars, PathInv, KeptInv, AnswerInv,
        Answers, KeepInv, Keeps
<1>3. ASSUME Crash(p) PROVE IInv'
    <2>1. Stages'
        BY <1>3 DEF Crash, Goto, Ends, KeptWithout, clientVars
    <2>2. PathInv'
        BY <1>3 DEF Crash, Goto, Ends, KeptWithout, clientVars, PathInv
    <2>3. KeptInv'
        BY <1>3
        DEF Crash, Goto, Ends, KeptWithout, clientVars, KeptInv, AnswerInv, Answers,
            KeepInv, Keeps
    <2>. QED  BY <2>1, <2>2, <2>3
<1>. QED  BY <1>1, <1>2, <1>3

\* The handlers of a daemon.
LEMMA HandlerKeeps ==
    ASSUME IInv, TypeOK', NEW c \in Clients, Handler(c)
    PROVE  IInv'
<1>. USE DEF IInv, Stages, TypeOK, LifeInv, Life, Young, Fresh, Running, Alive, HandInv,
             Handing, ParentInv, Parent, Expects, FailedHandoffEndsChild, ServedInv, Handling
<1>1. ASSUME Gate(c), Alive(by[c]) PROVE IInv'
    <2>1. ServedInv' /\ UNCHANGED daemonVars
        BY <1>1
        DEF daemonVars, Gate, ClientAt, ClientEnds, loopVars, stateVars, handVars,
            ghostVars
    <2>. QED  BY <2>1, CommandFrame
<1>2. ASSUME DoStart(c), Alive(by[c]) PROVE IInv'
    <2>1. Stages'
        BY <1>2 DEF DoStart, ClientAt, ClientEnds, loopVars, handVars
    <2>2. PathInv'
        BY <1>2 DEF DoStart, loopVars, handVars, PathInv
    <2>3. by[c] \in Procs /\ Running(by[c])
        BY <1>2 DEF DoStart
    <2>4. ASSUME UNCHANGED <<brg, kept>> PROVE KeptInv'
        BY <1>2, <2>4
        DEF DoStart, loopVars, handVars, KeptInv, AnswerInv, Answers, KeepInv, Keeps
    <2>5. ASSUME NEW p \in Procs, p = by[c], NEW b \in Bridges,
                 \A q \in Procs : b \notin brg[q] \cup todo[q] \cup snap[q],
                 brg' = [brg EXCEPT ![p] = @ \cup {b}],
                 kept' = IF hand[p] \in {"off", "snapshot"} /\ ~handedOff[p] /\ ~root[p]
                           THEN kept \cup {b} ELSE kept
          PROVE  KeptInv'
        <3>1. UNCHANGED <<at, hand, handedOff, child, ready, todo, snap, root>>
            BY <1>2 DEF DoStart, loopVars, handVars
        <3>2. KeptInv => b \notin kept
            BY <2>5 DEF KeptInv, AnswerInv
        <3>3. AnswerInv'
            BY <2>3, <2>5, <3>1 DEF KeptInv, AnswerInv, Answers
        <3>4. KeepInv'
            BY <2>3, <2>5, <3>1, <3>2 DEF KeptInv, KeepInv, Keeps
        <3>. QED  BY <3>3, <3>4 DEF KeptInv
    <2>6. KeptInv'
        BY SMTT(20), <1>2, <2>3, <2>4, <2>5 DEF DoStart
    <2>. QED  BY <2>1, <2>2, <2>6
<1>3. ASSUME DoStop(c), Alive(by[c]) PROVE IInv'
    <2>1. Stages'
        BY <1>3 DEF DoStop, ClientAt, ClientEnds, loopVars, handVars
    <2>2. PathInv'
        BY <1>3 DEF DoStop, loopVars, handVars, PathInv
    <2>3. UNCHANGED <<at, hand, handedOff, child, ready, todo, snap>>
        BY <1>3 DEF DoStop, loopVars, handVars
    <2>4. ASSUME UNCHANGED <<brg, kept>> PROVE KeptInv'
        BY <2>3, <2>4 DEF KeptInv, AnswerInv, Answers, KeepInv, Keeps
    <2>5. ASSUME NEW p \in Procs, NEW b \in Bridges,
                 brg' = [brg EXCEPT ![p] = @ \ {b}], kept' = kept \ {b}
          PROVE  KeptInv'
        <3>1. AnswerInv'
            BY <2>3, <2>5 DEF KeptInv, AnswerInv, Answers
        <3>2. KeepInv'
            BY <2>3, <2>5 DEF KeptInv, KeepInv, Keeps
        <3>. QED  BY <3>1, <3>2 DEF KeptInv
    <2>6. by[c] \in Procs
        BY <1>3 DEF DoStop
    <2>7. KeptInv'
        BY <1>3, <2>4, <2>5, <2>6 DEF DoStop
    <2>. QED  BY <2>1, <2>2, <2>7
<1>4. ASSUME DoRestart(c), Alive(by[c]) PROVE IInv'
    BY SMTT(20), <1>4
    DEF DoRestart, ClientAt, ClientEnds, loopVars, ghostVars, PathInv, KeptInv,
        AnswerInv, Answers, KeepInv, Keeps
<1>5. ASSUME DoShutdown(c), Alive(by[c]) PROVE IInv'
    <2>1. ServedInv' /\ UNCHANGED daemonVars
        BY <1>5
        DEF daemonVars, DoShutdown, ClientAt, loopVars, stateVars, handVars,
            ghostVars
    <2>. QED  BY <2>1, CommandFrame
<1>6. ASSUME Cancel(c), Alive(by[c]) PROVE IInv'
    BY <1>6
    DEF Cancel, ClientAt, ClientEnds, loopVars, handVars, ghostVars, PathInv, KeptInv,
        AnswerInv, Answers, KeepInv, Keeps
<1>7. ASSUME DoVersion(c), Alive(by[c]) PROVE IInv'
    <2>1. ServedInv' /\ UNCHANGED daemonVars
        BY <1>7
        DEF daemonVars, DoVersion, ClientAt, ClientEnds, loopVars, stateVars,
            handVars, ghostVars
    <2>. QED  BY <2>1, CommandFrame
<1>8. Handling(c)
    BY DEF Handler, Gate, DoStart, DoStop, DoRestart, DoShutdown, Cancel, DoVersion
<1>. QED  BY <1>1, <1>2, <1>3, <1>4, <1>5, <1>6, <1>7, <1>8 DEF Handler

\* A command.
LEMMA CallerKeeps ==
    ASSUME IInv, TypeOK', NEW c \in Clients, Caller(c)
    PROVE  IInv'
<1>. USE DEF IInv, Stages, TypeOK, LifeInv, Life, Young, Fresh, Running, Alive, HandInv,
             Handing, ParentInv, Parent, Expects, FailedHandoffEndsChild, ServedInv, Handling
<1>1. ASSUME Dial(c) PROVE IInv'
    <2>1. /\ cl[c] = "new"
          /\ (UNCHANGED by) \/ by' = [by EXCEPT ![c] = None]
          /\ \E l \in {"queued", "poll", "end"} : cl' = [cl EXCEPT ![c] = l]
        BY <1>1 DEF Dial, Dials, ClientAt, ClientEnds
    <2>2. UNCHANGED <<path, sock, open, unlinks, stateVars, handVars, ghostVars>>
        BY <1>1 DEF Dial
    <2>3. CASE UNCHANGED at
        <3>1. ServedInv' /\ UNCHANGED daemonVars
            BY <2>1, <2>2, <2>3 DEF daemonVars, loopVars
        <3>. QED  BY <3>1, CommandFrame
    <2>4. ASSUME NEW p \in Procs, at[p] = "none", at' = [at EXCEPT ![p] = "stat"]
          PROVE  IInv'
        <3>1. LifeInv' /\ HandInv'
            BY <2>2, <2>4 DEF stateVars, handVars
        <3>2. ParentInv' /\ FailedHandoffEndsChild'
            BY <2>2, <2>4 DEF stateVars, handVars
        <3>3. ServedInv'
            BY <2>1, <2>4
        <3>4. PathInv'
            BY <2>2, <2>4 DEF handVars, ghostVars, PathInv
        <3>5. AnswerInv'
            BY <2>2, <2>4 DEF stateVars, handVars, ghostVars, KeptInv, AnswerInv, Answers
        <3>6. KeepInv'
            BY <2>2, <2>4 DEF stateVars, handVars, ghostVars, KeptInv, KeepInv, Keeps
        <3>. QED  BY <3>1, <3>2, <3>3, <3>4, <3>5, <3>6 DEF KeptInv
    <2>. QED  BY <1>1, <2>3, <2>4 DEF Dial, IsNew, Goto
<1>2. ASSUME Poll(c) PROVE IInv'
    <2>1. ServedInv' /\ UNCHANGED daemonVars
        BY <1>2
        DEF daemonVars, Poll, ClientAt, ClientEnds, CannotDial, loopVars, stateVars,
            handVars, ghostVars
    <2>. QED  BY <2>1, CommandFrame
<1>3. ASSUME Redial(c) PROVE IInv'
    <2>1. ServedInv' /\ UNCHANGED daemonVars
        BY <1>3
        DEF daemonVars, Redial, ClientAt, ClientEnds, Dials, CannotDial, loopVars,
            stateVars, handVars, ghostVars
    <2>. QED  BY <2>1, CommandFrame
<1>4. ASSUME ProbeOver(c) PROVE IInv'
    <2>1. ServedInv' /\ UNCHANGED daemonVars
        BY <1>4
        DEF daemonVars, ProbeOver, ClientAt, ClientEnds, loopVars, stateVars,
            handVars, ghostVars
    <2>. QED  BY <2>1, CommandFrame
<1>5. ASSUME Broken(c) PROVE IInv'
    <2>1. ServedInv' /\ UNCHANGED daemonVars
        BY <1>5
        DEF daemonVars, Broken, ClientAt, ClientEnds, loopVars, stateVars, handVars,
            ghostVars
    <2>. QED  BY <2>1, CommandFrame
<1>. QED  BY <1>1, <1>2, <1>3, <1>4, <1>5 DEF Caller

\* A daemon takes a connection, and the probe of a restart.
LEMMA ConnectionKeeps ==
    ASSUME IInv, TypeOK', NEW c \in Clients,
           Probe(c) \/ ProbeAgain(c) \/ \E p \in Procs : AcceptConn(p, c)
    PROVE  IInv'
<1>. USE DEF IInv, Stages, TypeOK, LifeInv, Life, Young, Fresh, Running, Alive, HandInv,
             Handing, ParentInv, Parent, Expects, FailedHandoffEndsChild, ServedInv, Handling
<1>1. ASSUME Probe(c) \/ ProbeAgain(c) PROVE IInv'
    <2>1. ServedInv' /\ UNCHANGED daemonVars
        BY <1>1
        DEF daemonVars, Probe, ProbeAgain, Dials, ClientAt, loopVars, stateVars, handVars,
            ghostVars
    <2>. QED  BY <2>1, CommandFrame
<1>2. ASSUME NEW p \in Procs, AcceptConn(p, c) PROVE IInv'
    <2>1. /\ at[p] = "accept" /\ open[p] /\ p # None /\ at' = [at EXCEPT ![p] = "top"]
          /\ UNCHANGED <<path, sock, open, unlinks, root, restarting, handedOff, brg, hand,
                         snap, child, todo, ready, kept, stolen>>
        BY <1>2 DEF AcceptConn, Goto, stateVars, handVars, ghostVars, Procs, None
    <2>2. LifeInv' /\ HandInv' /\ ParentInv' /\ FailedHandoffEndsChild'
        BY <2>1
    <2>3. ServedInv'
        BY <1>2, <2>1 DEF AcceptConn, ClientAt
    <2>4. PathInv'
        BY <2>1 DEF PathInv
    <2>5. KeptInv'
        BY <2>1 DEF KeptInv, AnswerInv, Answers, KeepInv, Keeps
    <2>. QED  BY <2>2, <2>3, <2>4, <2>5
<1>. QED  BY <1>1, <1>2

----------------------------------------------------------------------------
(* The inductive invariant                                                 *)

LEMMA IInvInit == Init => IInv
<1>. SUFFICES ASSUME Init PROVE IInv
    OBVIOUS
<1>1. PICK up \in BOOLEAN :
        /\ path \in IF up THEN {1} ELSE {None, Leftover}
        /\ at = [p \in Procs |-> IF up /\ p = 1 THEN "top" ELSE "none"]
        /\ sock = [p \in Procs |-> IF up /\ p = 1 THEN 1 ELSE None]
        /\ open = [p \in Procs |-> up /\ p = 1]
        /\ brg = [p \in Procs |-> IF up /\ p = 1 THEN Bridges \cap {1} ELSE {}]
        /\ kept = IF up THEN Bridges \cap {1} ELSE {}
    BY DEF Init
<1>2. /\ \A p \in Procs : /\ ~handedOff[p] /\ ~restarting[p] /\ hand[p] = "off" /\ ~root[p]
                          /\ child[p] = None /\ todo[p] = {} /\ ~ready[p]
      /\ \A c \in Clients : cl[c] = "new"
    BY DEF Init
<1>3. 1 \in Procs
    BY ControlAssumption DEF Procs
<1>4. LifeInv
    BY <1>1, <1>2 DEF LifeInv, Life, Fresh, Young, Running, None
<1>5. HandInv /\ ParentInv /\ FailedHandoffEndsChild /\ ServedInv
    BY <1>2 DEF HandInv, Handing, ParentInv, Parent, Expects, FailedHandoffEndsChild, ServedInv, Handling
<1>6. PathInv
    BY <1>1, <1>2 DEF PathInv
<1>7. AnswerInv
    BY <1>1, <1>2, <1>3 DEF AnswerInv, Answers, Alive
<1>8. KeepInv
    BY <1>1, <1>2 DEF KeepInv, Keeps, Expects
<1>. QED  BY TypeInit, <1>4, <1>5, <1>6, <1>7, <1>8 DEF IInv, Stages, KeptInv

LEMMA IInvStep == IInv /\ [Next]_vars => IInv'
<1>. SUFFICES ASSUME IInv, [Next]_vars PROVE IInv'
    OBVIOUS
<1>1. TypeOK'
    BY TypeStep DEF IInv, Stages
<1>2. CASE Next
    BY <1>1, <1>2, LoopKeeps, HandoffKeeps, RestoreKeeps, DaemonKeeps, HandlerKeeps,
       CallerKeeps, ConnectionKeeps
    DEF Next
<1>3. CASE UNCHANGED vars
    <2>1. ServedInv' /\ UNCHANGED daemonVars
        BY <1>3 DEF vars, daemonVars, loopVars, clientVars, IInv, Stages, ServedInv, Handling,
                    Running
    <2>. QED  BY <1>1, <2>1, CommandFrame
<1>. QED  BY <1>2, <1>3

THEOREM Invariant == Spec => []IInv
BY IInvInit, IInvStep, PTL DEF Spec

\* Every variable keeps to its type, and a process that is over holds no listener.
THEOREM TypeCorrect == Spec => []TypeOK
<1>1. IInv => TypeOK
    BY DEF IInv, Stages
<1>. QED  BY <1>1, Invariant, PTL

\* A restart, failed or not, loses no bridge that nobody asked to end: the daemon that
\* answers for it lives and serves it, or is about to adopt it.
THEOREM BridgesSurvive == Spec => []RestartKeepsBridges
<1>1. IInv => RestartKeepsBridges
    BY DEF IInv, KeptInv, AnswerInv, Answers, RestartKeepsBridges
<1>. QED  BY <1>1, Invariant, PTL

\* A handoff that failed has ended the process it started, in every interleaving of its
\* deadline with the child's own steps, handoffs included.
THEOREM FailedHandoffEnds == Spec => []FailedHandoffEndsChild
<1>1. IInv => FailedHandoffEndsChild
    BY DEF IInv, Stages
<1>. QED  BY <1>1, Invariant, PTL

\* After a handoff the socket file is the new daemon's.
THEOREM PathFollows == Spec => []HandoffKeepsPath
<1>1. IInv => HandoffKeepsPath
    <2>. SUFFICES ASSUME IInv, NEW p \in Procs,
                         handedOff[p], Running(child[p]), ~root[child[p]], ~stolen
                  PROVE  path = sock[child[p]]
        BY DEF HandoffKeepsPath
    <2>1. child[p] \in Procs
        BY DEF IInv, Stages, TypeOK, HandInv, Handing
    <2>2. open[child[p]]
        BY <2>1 DEF IInv, Stages, LifeInv, Life
    <2>. QED  BY <2>1, <2>2 DEF IInv, PathInv
<1>. QED  BY <1>1, Invariant, PTL

=============================================================================
