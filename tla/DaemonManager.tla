----------------------------- MODULE DaemonManager -----------------------------
(***************************************************************************)
(* The daemon's registry of bridges: internal/daemon/manager.go, with the  *)
(* Serve loop of internal/bridge/server.go that every bridge runs and the  *)
(* end of Server.Run in internal/daemon/server.go.                         *)
(*                                                                         *)
(* A control request runs in a goroutine of its own (a caller).  Callers,  *)
(* the reaper, the Serve goroutine of each bridge and the results its      *)
(* sessions report meet in the items map under m.mu, and wait for each     *)
(* other outside it.  Restart and Adopt are in module ControlPlane.          *)
(*                                                                         *)
(* Time is a tick per unit of cleanAfterFailure; a bridge's lastFailedAt   *)
(* is kept as its age in ticks.                                            *)
(***************************************************************************)
EXTENDS Naturals, FiniteSets

CONSTANTS
    Serials,      \* devices
    Callers,      \* control requests served at one time
    MaxBridges,   \* bound: bridges started
    Window        \* cleanAfterFailure, in ticks

ASSUME ManagerAssumption ==
    Serials # {} /\ MaxBridges \in Nat /\ Window \in Nat \ {0}

None == 0
Bridges == 1 .. MaxBridges
Healthy == Window + 1     \* the zero lastFailedAt

VARIABLES
    items,      \* m.items: the entry of a serial, with its lastFailedAt
    serial,     \* of a bridge: the serial it serves
    st,         \* "free", "bound", "serve", "drain", "done", "ended"
    listener,   \* its listener is open
    cancelled,  \* item.cancel was called
    sess,       \* it has a session (at most one: a bound)
    call,       \* the result of an OpenService, not reported yet: "none", "ok", "fail"
    pc,         \* of a caller: "idle", "listen", "register", "wait"
    arg,        \* the serial of its request
    own,        \* the bridge it starts or stops
    reaper,     \* "off", "idle", "cancel", "wait"
    expired,    \* the bridges the reaper has taken out
    main,       \* Server.Run: "run", "drain", "wait", "join", "exit"
    victims,    \* the bridges StopAll has taken out
    rootDone    \* the daemon's context is cancelled

bridgeVars  == <<serial, st, listener, cancelled>>
sessionVars == <<sess, call>>
callerVars  == <<pc, arg, own>>
reaperVars  == <<reaper, expired>>
mainVars    == <<main, victims, rootDone>>
vars == <<items, bridgeVars, sessionVars, callerVars, reaperVars, mainVars>>

\* An entry: its bridge, the age of lastFailedAt in ticks (at most Window), and as
\* a ghost the ticks since the last success of the serial, or the start.
Fresh(i) == [id |-> i, age |-> Healthy, quiet |-> 0]
NoItem == Fresh(None)

\* The entry e with another age and quiet time, and a time one tick later, capped.
Clock(e, a, q) == [id |-> e.id, age |-> a, quiet |-> q]
Ticked(t) == IF t < Window THEN t + 1 ELSE t

Registered(i) == items[serial[i]].id = i
Cancelled(i) == cancelled[i] \/ rootDone
Served(i) == st[i] \in {"done", "ended"}

Init ==
    /\ items = [s \in Serials |-> NoItem]
    /\ serial \in [Bridges -> {CHOOSE s \in Serials : TRUE}]
    /\ st = [i \in Bridges |-> "free"]
    /\ listener = [i \in Bridges |-> FALSE] /\ cancelled = [i \in Bridges |-> FALSE]
    /\ sess = [i \in Bridges |-> FALSE] /\ call = [i \in Bridges |-> "none"]
    /\ pc = [c \in Callers |-> "idle"]
    /\ arg \in [Callers -> {CHOOSE s \in Serials : TRUE}]
    /\ own = [c \in Callers |-> None]
    /\ reaper = "off" /\ expired = {}
    /\ main = "run" /\ victims = {} /\ rootDone = FALSE

Goto(c, label) == pc' = [pc EXCEPT ![c] = label]

----------------------------------------------------------------------------
(* Start                                                                   *)

\* The first check; a serial that is registered is refused.
StartCheck(c) ==
    /\ main = "run" /\ pc[c] = "idle"
    /\ \E s \in Serials : items[s] = NoItem /\ arg' = [arg EXCEPT ![c] = s]
    /\ Goto(c, "listen")
    /\ reaper' = IF reaper = "off" /\ ~rootDone THEN "idle" ELSE reaper
    /\ UNCHANGED <<items, bridgeVars, sessionVars, own, expired, mainVars>>

\* NewServer and Listen, outside the lock; either may fail, and the first may hang.
StartListen(c) ==
    /\ pc[c] = "listen"
    /\ \/ \E i \in Bridges :
            /\ st[i] = "free" /\ \A j \in Bridges : j < i => st[j] # "free"
            /\ st' = [st EXCEPT ![i] = "bound"]
            /\ serial' = [serial EXCEPT ![i] = arg[c]]
            /\ listener' = [listener EXCEPT ![i] = TRUE]
            /\ own' = [own EXCEPT ![c] = i]
            /\ Goto(c, "register")
            /\ UNCHANGED cancelled
       \/ Goto(c, "idle") /\ UNCHANGED <<bridgeVars, own>>
    /\ UNCHANGED <<items, sessionVars, arg, reaperVars, mainVars>>

\* Mutant: startItem without its second check.
Register_Unchecked(c) ==
    /\ pc[c] = "register"
    /\ items' = [items EXCEPT ![arg[c]] = Fresh(own[c])]
    /\ st' = [st EXCEPT ![own[c]] = "serve"]
    /\ Goto(c, "idle") /\ own' = [own EXCEPT ![c] = None]
    /\ UNCHANGED <<serial, listener, cancelled, sessionVars, arg, reaperVars, mainVars>>

\* startItem: the second check, then register and serve.
Register(c) ==
    /\ pc[c] = "register"
    /\ IF items[arg[c]] # NoItem
         THEN /\ st' = [st EXCEPT ![own[c]] = "ended"]
              /\ listener' = [listener EXCEPT ![own[c]] = FALSE]
              /\ UNCHANGED items
         ELSE /\ items' = [items EXCEPT ![arg[c]] = Fresh(own[c])]
              /\ st' = [st EXCEPT ![own[c]] = "serve"]
              /\ UNCHANGED listener
    /\ Goto(c, "idle") /\ own' = [own EXCEPT ![c] = None]
    /\ UNCHANGED <<serial, cancelled, sessionVars, arg, reaperVars, mainVars>>

----------------------------------------------------------------------------
(* The Serve goroutine of a bridge, and its sessions                       *)

\* The goroutine that waits for the context closes the listener.
CloseOnCancel(i) ==
    /\ st[i] \in {"serve", "drain"} /\ Cancelled(i) /\ listener[i]
    /\ listener' = [listener EXCEPT ![i] = FALSE]
    /\ UNCHANGED <<items, serial, st, cancelled, sessionVars, callerVars, reaperVars,
                   mainVars>>

Accept(i) ==
    /\ st[i] = "serve" /\ listener[i] /\ ~sess[i]
    /\ sess' = [sess EXCEPT ![i] = TRUE]
    /\ UNCHANGED <<items, bridgeVars, call, callerVars, reaperVars,
                   mainVars>>

\* Accept fails, because the listener is closed or for reasons of its own.
AcceptFails(i) ==
    /\ st[i] = "serve"
    /\ st' = [st EXCEPT ![i] = "drain"]
    /\ UNCHANGED <<items, serial, listener, cancelled, sessionVars, callerVars, reaperVars,
                   mainVars>>

\* Mutant: Serve returns without waiting for its sessions.
ServeReturns_NoWait(i) ==
    /\ st[i] = "drain"
    /\ st' = [st EXCEPT ![i] = "done"]
    /\ listener' = [listener EXCEPT ![i] = FALSE]
    /\ UNCHANGED <<items, serial, cancelled, sessionVars, callerVars, reaperVars,
                   mainVars>>

\* Serve has waited for its sessions: close the listener, tell done.
ServeReturns(i) ==
    /\ st[i] = "drain" /\ ~sess[i]
    /\ st' = [st EXCEPT ![i] = "done"]
    /\ listener' = [listener EXCEPT ![i] = FALSE]
    /\ UNCHANGED <<items, serial, cancelled, sessionVars, callerVars, reaperVars,
                   mainVars>>

\* Mutant: only a cancelled bridge is deleted.
Unregister_Cancelled(i) ==
    /\ st[i] = "done"
    /\ items' = [items EXCEPT ![serial[i]] = IF @.id = i /\ Cancelled(i) THEN NoItem ELSE @]
    /\ st' = [st EXCEPT ![i] = "ended"]
    /\ UNCHANGED <<serial, listener, cancelled, sessionVars, callerVars, reaperVars,
                   mainVars>>

\* Mutant: the entry is deleted, whoever's it is.
Unregister_Any(i) ==
    /\ st[i] = "done"
    /\ items' = [items EXCEPT ![serial[i]] = NoItem]
    /\ st' = [st EXCEPT ![i] = "ended"]
    /\ UNCHANGED <<serial, listener, cancelled, sessionVars, callerVars, reaperVars,
                   mainVars>>

\* Delete the entry if it is still this bridge's.
Unregister(i) ==
    /\ st[i] = "done"
    /\ items' = [items EXCEPT ![serial[i]] = IF @.id = i THEN NoItem ELSE @]
    /\ st' = [st EXCEPT ![i] = "ended"]
    /\ UNCHANGED <<serial, listener, cancelled, sessionVars, callerVars, reaperVars,
                   mainVars>>

\* A session ends: its client leaves, or the context is cancelled.  A service
\* goroutine that has a result to report is not waited for.
SessionEnds(i) ==
    /\ sess[i]
    /\ sess' = [sess EXCEPT ![i] = FALSE]
    /\ UNCHANGED <<items, bridgeVars, call, callerVars, reaperVars,
                   mainVars>>

\* OpenService answers a session (one at a time: a bound).  It fails without a
\* device, for a service the device refuses, and when its context is cancelled.
CallDevice(i) ==
    /\ sess[i] /\ call[i] = "none"
    /\ \E result \in {"ok", "fail"} : call' = [call EXCEPT ![i] = result]
    /\ UNCHANGED <<items, bridgeVars, sess, callerVars, reaperVars,
                   mainVars>>

\* Mutant: every failure restarts the clock.
Report_Refreshes(i) ==
    /\ call[i] # "none"
    /\ call' = [call EXCEPT ![i] = "none"]
    /\ items' = [items EXCEPT ![serial[i]] =
          IF @ = NoItem THEN NoItem
          ELSE IF call[i] = "ok" THEN Clock(@, Healthy, 0)
          ELSE Clock(@, 0, @.quiet)]
    /\ UNCHANGED <<bridgeVars, sess, callerVars, reaperVars, mainVars>>

\* Mutant: a success does not clear the clock.
Report_NeverClears(i) ==
    /\ call[i] # "none"
    /\ call' = [call EXCEPT ![i] = "none"]
    /\ items' = [items EXCEPT ![serial[i]] =
          IF @ = NoItem THEN NoItem
          ELSE IF call[i] = "ok" THEN [@ EXCEPT !.quiet = 0]
          ELSE Clock(@, IF @.age = Healthy THEN 0 ELSE @.age, @.quiet)]
    /\ UNCHANGED <<bridgeVars, sess, callerVars, reaperVars, mainVars>>

\* onBackendResult: the result goes to whichever bridge the serial has now.
Report(i) ==
    /\ call[i] # "none"
    /\ call' = [call EXCEPT ![i] = "none"]
    /\ items' = [items EXCEPT ![serial[i]] =
          IF @ = NoItem THEN NoItem
          ELSE IF call[i] = "ok" THEN Clock(@, Healthy, 0)
          ELSE Clock(@, IF @.age = Healthy THEN 0 ELSE @.age, @.quiet)]
    /\ UNCHANGED <<bridgeVars, sess, callerVars, reaperVars, mainVars>>

----------------------------------------------------------------------------
(* Stop                                                                    *)

\* Take the item out of the map and cancel it, which nobody but its own
\* goroutines can tell from one step ...
StopTake(c) ==
    /\ main = "run" /\ pc[c] = "idle"
    /\ \E s \in Serials :
          /\ items[s] # NoItem
          /\ items' = [items EXCEPT ![s] = NoItem]
          /\ own' = [own EXCEPT ![c] = items[s].id]
          /\ cancelled' = [cancelled EXCEPT ![items[s].id] = TRUE]
    /\ Goto(c, "wait")
    /\ UNCHANGED <<serial, st, listener, sessionVars, arg, reaperVars, mainVars>>

\* ... and wait for done, or stopWaitTimeout.
StopReturns(c) ==
    /\ pc[c] = "wait"
    /\ Goto(c, "idle") /\ own' = [own EXCEPT ![c] = None]
    /\ UNCHANGED <<items, bridgeVars, sessionVars, arg, reaperVars, mainVars>>

----------------------------------------------------------------------------
(* The reaper                                                              *)

\* reapExpired takes every expired item out of the map ...
ReapTake ==
    /\ reaper = "idle" /\ ~rootDone
    /\ expired' = {i \in Bridges : Registered(i) /\ items[serial[i]].age = Window}
    /\ expired' # {}
    /\ items' = [s \in Serials |-> IF items[s].id \in expired' THEN NoItem ELSE items[s]]
    /\ reaper' = "cancel"
    /\ UNCHANGED <<bridgeVars, sessionVars, callerVars, mainVars>>

\* ... then cancels one ...
ReapCancel ==
    /\ reaper = "cancel"
    /\ IF expired = {}
         THEN reaper' = "idle" /\ UNCHANGED cancelled
         ELSE /\ \E i \in expired : cancelled' = [cancelled EXCEPT ![i] = TRUE]
              /\ reaper' = "wait"
    /\ UNCHANGED <<items, serial, st, listener, sessionVars, callerVars, expired, mainVars>>

\* ... and waits for it, or stopWaitTimeout, before the next.
ReapWait ==
    /\ reaper = "wait"
    /\ \E i \in expired : cancelled[i] /\ expired' = expired \ {i}
    /\ reaper' = "cancel"
    /\ UNCHANGED <<items, bridgeVars, sessionVars, callerVars, mainVars>>

\* The reaper's context is done.
ReaperEnds ==
    /\ reaper = "idle" /\ rootDone
    /\ reaper' = "off"
    /\ UNCHANGED <<items, bridgeVars, sessionVars, callerVars, expired, mainVars>>

\* Mutant: the clock runs for a bridge that never failed.
Tick_AgesHealthy ==
    /\ \E s \in Serials : items[s] # NoItem /\ (items[s].age < Window \/ items[s].quiet < Window)
    /\ items' = [s \in Serials |-> IF items[s] = NoItem THEN NoItem ELSE
          Clock(items[s], items[s].age + 1, Ticked(items[s].quiet))]
    /\ UNCHANGED <<bridgeVars, sessionVars, callerVars, reaperVars, mainVars>>

\* A tick of time.
Tick ==
    /\ \E s \in Serials : items[s] # NoItem /\ (items[s].age < Window \/ items[s].quiet < Window)
    /\ items' = [s \in Serials |-> IF items[s] = NoItem THEN NoItem ELSE
          Clock(items[s], Ticked(items[s].age), Ticked(items[s].quiet))]
    /\ UNCHANGED <<bridgeVars, sessionVars, callerVars, reaperVars, mainVars>>

----------------------------------------------------------------------------
(* The end of the daemon: OpShutdown or a signal, then Run's deferred calls *)

Shutdown ==
    /\ main = "run" /\ ~rootDone
    /\ rootDone' = TRUE
    /\ UNCHANGED <<items, bridgeVars, sessionVars, callerVars, reaperVars, main, victims>>

\* Run leaves its loop; an error of its listener ends it, too.
RunReturns ==
    /\ main = "run"
    /\ main' = "drain"
    /\ UNCHANGED <<items, bridgeVars, sessionVars, callerVars, reaperVars, victims, rootDone>>

\* StopAll takes every item and cancels them all ...
StopAllTake ==
    /\ main = "drain"
    /\ victims' = {i \in Bridges : Registered(i)}
    /\ items' = [s \in Serials |-> NoItem]
    /\ cancelled' = [i \in Bridges |-> cancelled[i] \/ i \in victims']
    /\ main' = "wait"
    /\ UNCHANGED <<serial, st, listener, sessionVars, callerVars, reaperVars, rootDone>>

\* Mutant: StopAll waits for as long as it takes.
StopAllWait_NoTimeout ==
    /\ main = "wait"
    /\ IF victims = {}
         THEN main' = "join" /\ UNCHANGED victims
         ELSE \E i \in victims : Served(i) /\ victims' = victims \ {i} /\ UNCHANGED main
    /\ UNCHANGED <<items, bridgeVars, sessionVars, callerVars, reaperVars, rootDone>>

\* ... and waits for each, or stopWaitTimeout.
StopAllWait ==
    /\ main = "wait"
    /\ IF victims = {}
         THEN main' = "join" /\ UNCHANGED victims
         ELSE \E i \in victims : victims' = victims \ {i} /\ UNCHANGED main
    /\ UNCHANGED <<items, bridgeVars, sessionVars, callerVars, reaperVars, rootDone>>

\* Run waits for its callers, and returns.
RunJoins ==
    /\ main = "join" /\ \A c \in Callers : pc[c] = "idle"
    /\ main' = "exit"
    /\ rootDone' = TRUE
    /\ UNCHANGED <<items, bridgeVars, sessionVars, callerVars, reaperVars, victims>>

----------------------------------------------------------------------------
CallerStep(c) == StartListen(c) \/ Register(c) \/ StopReturns(c)
Reaping == ReapTake \/ ReapCancel \/ ReapWait \/ ReaperEnds
Ending == StopAllTake \/ StopAllWait \/ RunJoins

Next ==
    \/ \E c \in Callers : StartCheck(c) \/ StopTake(c) \/ CallerStep(c)
    \/ \E i \in Bridges :
          \/ CloseOnCancel(i) \/ Accept(i) \/ AcceptFails(i)
          \/ ServeReturns(i) \/ Unregister(i)
          \/ SessionEnds(i) \/ CallDevice(i) \/ Report(i)
    \/ Reaping \/ Tick
    \/ Shutdown \/ RunReturns \/ Ending

Spec == Init /\ [][Next]_vars

(***************************************************************************)
(* Fairness: goroutines that can run do, time passes, the reaper's ticker  *)
(* fires, and what waits for a bridge to end waits for stopWaitTimeout at  *)
(* most.  A session need never end, a live listener need never fail, and a *)
(* Start need never come out of StartListen: NewServer reads the device's  *)
(* properties with no deadline on the answer.  Nor need Run come out of    *)
(* its wait for the handlers, which such a Start holds up, and a control   *)
(* connection on which no request arrives.                                 *)
(***************************************************************************)
Fairness ==
    /\ \A c \in Callers : WF_vars(pc[c] # "listen" /\ CallerStep(c))
    /\ \A i \in Bridges :
          /\ WF_vars(CloseOnCancel(i)) /\ WF_vars(ServeReturns(i)) /\ WF_vars(Unregister(i))
          /\ WF_vars(~listener[i] /\ AcceptFails(i))
    /\ WF_vars(Reaping) /\ WF_vars(Tick)
    /\ WF_vars(rootDone /\ RunReturns) /\ WF_vars(main # "join" /\ Ending)

FairSpec == Spec /\ Fairness

----------------------------------------------------------------------------
(* Properties                                                              *)

\* Every variable keeps to its type.
TypeOK ==
    /\ items \in [Serials -> [id : Bridges \cup {None}, age : 0 .. Healthy, quiet : 0 .. Window]]
    /\ serial \in [Bridges -> Serials]
    /\ st \in [Bridges -> {"free", "bound", "serve", "drain", "done", "ended"}]
    /\ listener \in [Bridges -> BOOLEAN] /\ cancelled \in [Bridges -> BOOLEAN]
    /\ sess \in [Bridges -> BOOLEAN]
    /\ call \in [Bridges -> {"none", "ok", "fail"}]
    /\ pc \in [Callers -> {"idle", "listen", "register", "wait"}]
    /\ arg \in [Callers -> Serials] /\ own \in [Callers -> Bridges \cup {None}]
    /\ reaper \in {"off", "idle", "cancel", "wait"} /\ expired \subseteq Bridges
    /\ main \in {"run", "drain", "wait", "join", "exit"}
    /\ victims \subseteq Bridges /\ rootDone \in BOOLEAN

\* No bridge serves where neither List nor Stop can see it: one that runs is
\* registered, or the reaper has taken it and is about to cancel it.
NoOrphanBridge ==
    \A i \in Bridges : (st[i] \in {"serve", "drain"} /\ ~Cancelled(i))
        => Registered(i) \/ i \in expired

\* The registry keeps the promises of module BridgeDirectory, whatever the order of
\* requests, reaper, ends and shutdown: one bridge to a device, never replaced, and
\* none that returns to the list.
Listed(i) == st[i] \in {"serve", "drain"} /\ Registered(i)
Phase(i) ==
    CASE st[i] = "free" -> "new"
      [] st[i] = "bound" -> "bound"
      [] Served(i) -> "over"
      [] OTHER -> IF Listed(i) THEN "listed" ELSE "leaving"
Directory == INSTANCE BridgeDirectory WITH
    owner <- [s \in Serials |-> items[s].id],
    phase <- [i \in Bridges |-> Phase(i)]
ImplementsDirectory == Directory!Spec

\* What done tells Stop and StopAll is true: the bridge's port is free and its
\* sessions are over; of two Starts for one serial the loser frees its port, too.
DoneReleasesPort == \A i \in Bridges : Served(i) => ~listener[i] /\ ~sess[i]

\* A registered bridge that counts as failing has had no success for as long:
\* the reaper never takes one that reached its device within the window.
ReapSafe ==
    \A s \in Serials : items[s].age # Healthy => items[s].age <= items[s].quiet

\* A daemon that is asked to end gives up its ports for good, also the one of a Start that
\* was under way, and comes to where it waits for nothing but its handlers, whatever its
\* sessions do.
DaemonStops ==
    rootDone ~> [](main \in {"join", "exit"} /\ \A i \in Bridges : ~listener[i])

\* A bridge whose device stays lost is reaped, however often clients retry.
LostReaped ==
    \A s \in Serials : items[s].age # Healthy ~> (items[s].age = Healthy \/ rootDone)

\* A bridge that accepts no more leaves the list once its last session is over.
DeadBridgeForgotten ==
    \A i \in Bridges : (Registered(i) /\ st[i] = "drain" /\ ~sess[i]) ~> ~Registered(i)
=============================================================================
