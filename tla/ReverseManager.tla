---------------------------- MODULE ReverseManager ----------------------------
(***************************************************************************)
(* Reverse forwarding of one session: internal/bridge/reverse.go.          *)
(*                                                                         *)
(* Every "reverse:" OPEN of the client runs reverseManager.handle in a     *)
(* goroutine of its own; session.close runs closeAll.  Both share the map  *)
(* of mappings and the device's own table of forwards, which they change   *)
(* by commands that may fail, or succeed and lose their answer.            *)
(*                                                                         *)
(* A mapping is the bridge's listener for a device-side local name.  The   *)
(* device connects back to that listener's port, so the device's table     *)
(* maps a name to the listener it was told.  list-forward changes nothing  *)
(* and is not modelled; remote names are not either.  A device command may *)
(* take for ever: io.ReadAll has no deadline.                              *)
(***************************************************************************)
EXTENDS Naturals

CONSTANTS
    Handlers,     \* goroutines that may run a reverse: command at one time
    Closer,       \* the goroutine in session.close
    Names,        \* device-side names only a client asks for
    Ports,        \* device-side names the device may pick for tcp:0
    AutoPort,     \* the name tcp:0
    MaxCommands   \* bound: commands of the session

None == 0
Listeners == 1 .. MaxCommands   \* a forward opens one listener
Keys == Names \cup Ports \cup {AutoPort}
Procs == Handlers \cup {Closer}

ASSUME ReverseAssumption ==
    /\ Names \cap Ports = {} /\ AutoPort \notin Names \cup Ports
    /\ Closer \notin Handlers /\ MaxCommands \in Nat

VARIABLES
    mappings,   \* m.mappings: the listener of a name, None if there is none
    listener,   \* of each listener: "free", "open", "closed"
    dev,        \* the device's table (external): the listener a name forwards to
    pc,         \* where a goroutine is
    local,      \* the name its command works on; then the resolved name
    own,        \* the listener a forward has opened and not yet registered
    swept,      \* killAll, closeAll: drained mappings still to close
    commands,   \* commands started
    answered,   \* history: the device answered every command in full and kept
                \* its forwards
    rivals,     \* history: two forwards worked on one name at one time
    clash       \* history: two commands of any kind did

history == <<answered, rivals, clash>>
vars == <<mappings, listener, dev, pc, local, own, swept, commands, history>>

\* Where a forward is between opening its listener and registering or closing it.
ForwardLabels ==
    {"check", "evict", "unforward", "install", "evictResolved", "unforwardResolved", "insert"}

TypeOK ==
    /\ mappings \in [Keys -> Listeners \cup {None}]
    /\ listener \in [Listeners -> {"free", "open", "closed"}]
    /\ dev \in [Keys -> Listeners \cup {None}]
    /\ pc \in [Procs -> ForwardLabels \cup
                         {"idle", "kill", "killDevice", "drain", "sweep", "end"}]
    /\ local \in [Handlers -> Keys] /\ own \in [Handlers -> Listeners \cup {None}]
    /\ swept \in [Procs -> SUBSET (Keys \X Listeners)]
    /\ commands \in 0 .. MaxCommands
    /\ answered \in BOOLEAN /\ rivals \in BOOLEAN /\ clash \in BOOLEAN

Init ==
    /\ mappings = [k \in Keys |-> None]
    /\ listener = [l \in Listeners |-> "free"]
    /\ dev = [k \in Keys |-> None]
    /\ pc = [p \in Procs |-> "idle"]
    /\ local = [h \in Handlers |-> AutoPort]
    /\ own = [h \in Handlers |-> None]
    /\ swept = [p \in Procs |-> {}]
    /\ commands = 0 /\ answered = TRUE /\ rivals = FALSE /\ clash = FALSE

Goto(p, label) == pc' = [pc EXCEPT ![p] = label]
CloseListener(l) == listener' = [listener EXCEPT ![l] = "closed"]

----------------------------------------------------------------------------
(* Which command works on which device-side name                           *)

Forwarding(h) == pc[h] \in ForwardLabels

Working(p) ==
    {k \in Keys \ {AutoPort} :
        \/ p \in Handlers /\ local[p] = k /\ pc[p] \in ForwardLabels \cup {"kill", "killDevice"}
        \/ \E m \in swept[p] : m[1] = k}

\* p begins to work on the names of K.
Takes(p, K) == clash' = (clash \/ \E q \in Procs \ {p} : Working(q) \cap K # {})

\* h begins to forward k.
ForwardsName(h, k) ==
    /\ Takes(h, {k})
    /\ rivals' = (rivals \/ \E g \in Handlers \ {h} : Forwarding(g) /\ k \in Working(g))

----------------------------------------------------------------------------
(* The device (external): reverse:forward and reverse:killforward through   *)
(* runDeviceReverse.  An error comes before the device acts or after.       *)

DeviceKills(k) == dev' = [dev EXCEPT ![k] = None] /\ UNCHANGED answered
DeviceErrs(k) ==
    /\ dev' \in {dev, [dev EXCEPT ![k] = None]}
    /\ answered' = FALSE

\* adbd restarts and forgets its forwards.
DeviceForgets ==
    /\ \E k \in Keys : dev[k] # None
    /\ dev' = [k \in Keys |-> None]
    /\ answered' = FALSE
    /\ UNCHANGED <<mappings, listener, pc, local, own, swept, commands, rivals, clash>>

----------------------------------------------------------------------------
(* handle starts a command                                                 *)

Starts(h) ==
    /\ pc[h] = "idle" /\ commands < MaxCommands
    /\ commands' = commands + 1
    /\ UNCHANGED <<mappings, dev, swept, answered>>

\* forward: parse the spec and open the bridge's listener.
StartForward(h) ==
    /\ Starts(h)
    /\ \E k \in Keys : local' = [local EXCEPT ![h] = k] /\ ForwardsName(h, k)
    /\ own' = [own EXCEPT ![h] = commands + 1]
    /\ listener' = [listener EXCEPT ![commands + 1] = "open"]
    /\ Goto(h, "check")

StartKill(h) ==
    /\ Starts(h)
    /\ \E k \in Keys : local' = [local EXCEPT ![h] = k] /\ Takes(h, {k})
    /\ Goto(h, "kill")
    /\ UNCHANGED <<listener, own, rivals>>

StartKillAll(h) ==
    /\ Starts(h)
    /\ Goto(h, "drain")
    /\ UNCHANGED <<listener, local, own, rivals, clash>>

\* session.close calls closeAll, once.
StartCloseAll ==
    /\ pc[Closer] = "idle"
    /\ Goto(Closer, "drain")
    /\ UNCHANGED <<mappings, listener, dev, local, own, swept, commands, history>>

----------------------------------------------------------------------------
(* forward                                                                 *)

\* Mutant: a failed forward leaves its listener open.
GiveUp_KeepsListener(h) ==
    /\ own' = [own EXCEPT ![h] = None]
    /\ Goto(h, "idle") /\ UNCHANGED listener

\* The failures of forward close the listener it opened.
GiveUp(h) ==
    /\ CloseListener(own[h])
    /\ own' = [own EXCEPT ![h] = None]
    /\ Goto(h, "idle")

\* norebind, checked under m.mu, which is then released.
Check(h) ==
    /\ pc[h] = "check"
    /\ \E noRebind \in BOOLEAN :
          IF noRebind /\ mappings[local[h]] # None
            THEN GiveUp(h)
            ELSE Goto(h, "evict") /\ UNCHANGED <<listener, own>>
    /\ UNCHANGED <<mappings, dev, local, swept, commands, history>>

\* Mutant: evict closes the listener and leaves its mapping.
Remove_KeepsMapping(k) == UNCHANGED mappings /\ CloseListener(mappings[k])

\* Take the mapping of k out of the map and close its listener.
Remove(k) ==
    /\ mappings' = [mappings EXCEPT ![k] = None]
    /\ CloseListener(mappings[k])

\* evict, first half; the device is told only if there was a mapping.
Evict(h, from, told, next) ==
    /\ pc[h] = from
    /\ IF mappings[local[h]] # None
         THEN Remove(local[h]) /\ Goto(h, told)
         ELSE Goto(h, next) /\ UNCHANGED <<mappings, listener>>
    /\ UNCHANGED <<dev, local, own, swept, commands, history>>

\* evict, second half: killforward on the device, whatever it answers.
Unforward(h, from, next) ==
    /\ pc[h] = from
    /\ DeviceKills(local[h]) \/ DeviceErrs(local[h])
    /\ Goto(h, next)
    /\ UNCHANGED <<mappings, listener, local, own, swept, commands, rivals, clash>>

EvictLocal(h)        == Evict(h, "evict", "unforward", "install")
UnforwardLocal(h)    == Unforward(h, "unforward", "install")

\* The name the device forwards: for tcp:0 a port of its choice.
Choices(h) == IF local[h] = AutoPort THEN {p \in Ports : dev[p] = None} ELSE {local[h]}

\* The device installs the forward and tells which port it chose for tcp:0; a
\* stale mapping of that port is evicted next.
Install(h) ==
    /\ pc[h] = "install"
    /\ \E k \in Choices(h) :
          /\ dev' = [dev EXCEPT ![k] = own[h]]
          /\ local' = [local EXCEPT ![h] = k]
          /\ ForwardsName(h, k)
    /\ Goto(h, IF local[h] = AutoPort THEN "evictResolved" ELSE "insert")
    /\ UNCHANGED <<mappings, listener, own, swept, commands, answered>>

\* The OKAY names no port: the mapping keeps the name tcp:0, and there is no
\* resolved name to evict.
InstallUnresolved(h) ==
    /\ pc[h] = "install" /\ local[h] = AutoPort
    /\ \E k \in Choices(h) : dev' = [dev EXCEPT ![k] = own[h]]
    /\ answered' = FALSE
    /\ Goto(h, "insert")
    /\ UNCHANGED <<mappings, listener, local, own, swept, commands, rivals, clash>>

\* The device answers FAIL.
InstallRefused(h) ==
    /\ pc[h] = "install"
    /\ GiveUp(h)
    /\ UNCHANGED <<mappings, dev, local, swept, commands, history>>

\* The command fails, before or after the device acted.
InstallFails(h) ==
    /\ pc[h] = "install"
    /\ UNCHANGED dev \/ \E k \in Choices(h) : dev' = [dev EXCEPT ![k] = own[h]]
    /\ GiveUp(h)
    /\ answered' = FALSE
    /\ UNCHANGED <<mappings, local, swept, commands, rivals, clash>>

EvictResolved(h)     == Evict(h, "evictResolved", "unforwardResolved", "insert")
UnforwardResolved(h) == Unforward(h, "unforwardResolved", "insert")

\* Register the mapping and start accepting; a mapping put there meanwhile by
\* another forward is overwritten, its listener stays open.
Insert(h) ==
    /\ pc[h] = "insert"
    /\ mappings' = [mappings EXCEPT ![local[h]] = own[h]]
    /\ own' = [own EXCEPT ![h] = None]
    /\ Goto(h, "idle")
    /\ UNCHANGED <<listener, dev, local, swept, commands, history>>

----------------------------------------------------------------------------
(* kill, killAll and closeAll                                              *)

\* Mutant: the device is not told.
Kill_Untold(h) ==
    /\ pc[h] = "kill"
    /\ IF mappings[local[h]] # None
         THEN Remove(local[h])
         ELSE UNCHANGED <<mappings, listener>>
    /\ Goto(h, "idle")
    /\ UNCHANGED <<dev, local, own, swept, commands, history>>

Kill(h) ==
    /\ pc[h] = "kill"
    /\ IF mappings[local[h]] # None
         THEN Remove(local[h]) /\ Goto(h, "killDevice")
         ELSE Goto(h, "idle") /\ UNCHANGED <<mappings, listener>>
    /\ UNCHANGED <<dev, local, own, swept, commands, history>>

KillDevice(h) == Unforward(h, "killDevice", "idle")

\* Where killAll, and closeAll, go when they return.
Return(p) == IF p = Closer THEN "end" ELSE "idle"

Mapped == {k \in Keys : mappings[k] # None}

\* Mutant: names without a mapping are drained too.
Drain_TakesNone(p) ==
    /\ pc[p] = "drain"
    /\ swept' = [swept EXCEPT ![p] = {<<k, mappings[k]>> : k \in Keys}]
    /\ mappings' = [k \in Keys |-> None]
    /\ Takes(p, Mapped)
    /\ Goto(p, "sweep")
    /\ UNCHANGED <<listener, dev, local, own, commands, answered, rivals>>

\* drainMappings: take every mapping out of the map.
Drain(p) ==
    /\ pc[p] = "drain"
    /\ swept' = [swept EXCEPT ![p] = {<<k, mappings[k]>> : k \in Mapped}]
    /\ mappings' = [k \in Keys |-> None]
    /\ Takes(p, Mapped)
    /\ Goto(p, "sweep")
    /\ UNCHANGED <<listener, dev, local, own, commands, answered, rivals>>

\* Close one drained listener and tell the device.
Sweep(p) ==
    /\ pc[p] = "sweep"
    /\ \E m \in swept[p] :
          /\ CloseListener(m[2])
          /\ DeviceKills(m[1])
          /\ swept' = [swept EXCEPT ![p] = @ \ {m}]
    /\ UNCHANGED <<mappings, pc, local, own, commands, rivals, clash>>

\* The device command fails: killAll returns at once, closeAll goes on.
SweepFails(p) ==
    /\ pc[p] = "sweep"
    /\ \E m \in swept[p] :
          /\ CloseListener(m[2])
          /\ DeviceErrs(m[1])
          /\ IF p = Closer
               THEN swept' = [swept EXCEPT ![p] = @ \ {m}] /\ UNCHANGED pc
               ELSE swept' = [swept EXCEPT ![p] = {}] /\ Goto(p, "idle")
    /\ UNCHANGED <<mappings, local, own, commands, rivals, clash>>

SweepEnds(p) ==
    /\ pc[p] = "sweep" /\ swept[p] = {}
    /\ Goto(p, Return(p))
    /\ UNCHANGED <<mappings, listener, dev, local, own, swept, commands, history>>

----------------------------------------------------------------------------
Forward(h) ==
    \/ Check(h) \/ EvictLocal(h) \/ UnforwardLocal(h)
    \/ Install(h) \/ InstallUnresolved(h) \/ InstallRefused(h) \/ InstallFails(h)
    \/ EvictResolved(h) \/ UnforwardResolved(h) \/ Insert(h)

Sweeping(p) == Drain(p) \/ Sweep(p) \/ SweepFails(p) \/ SweepEnds(p)

Next ==
    \/ \E h \in Handlers : StartForward(h) \/ StartKill(h) \/ StartKillAll(h)
    \/ \E h \in Handlers : Forward(h) \/ Kill(h) \/ KillDevice(h)
    \/ StartCloseAll \/ DeviceForgets
    \/ \E p \in Procs : Sweeping(p)

Spec == Init /\ [][Next]_vars

----------------------------------------------------------------------------
(* Properties                                                              *)

\* list-forward never names a dead mapping: a registered listener is open and
\* registered under one name only, whatever commands run at the same time.
MappedListenerOpen ==
    \A k \in Keys : mappings[k] # None =>
        /\ listener[mappings[k]] = "open"
        /\ \A j \in Keys \ {k} : mappings[j] # mappings[k]

\* Somebody will close the listener: the map, the forward that opened it, or
\* the killAll or closeAll that drained it.
Kept(l) ==
    \/ \E k \in Keys : mappings[k] = l
    \/ \E h \in Handlers : own[h] = l
    \/ \E p \in Procs : \E m \in swept[p] : m[2] = l

\* As long as the device answers and no two forwards work on one name, no
\* listener is forgotten: whatever kills, killAlls, forwards and closeAll overlap,
\* an open listener can still be closed by somebody.
NoOrphanListener ==
    (answered /\ ~rivals) => \A l \in Listeners : listener[l] = "open" => Kept(l)

\* As long as the device answers and no two commands work on one name, the
\* device's table and the bridge's agree on every name no command works on, also
\* while commands for other names are under way.
DeviceAgrees ==
    (answered /\ ~clash) =>
        \A k \in Keys : (\A p \in Procs : k \notin Working(p)) => dev[k] = mappings[k]

\* Every open listener can still be closed by somebody, also when the device fails and
\* forwards overlap.  (Violated: killAll returns at the first device error and forgets
\* the rest; a forward overwrites the mapping of another one for the same name.)
ListenersKept == \A l \in Listeners : listener[l] = "open" => Kept(l)

Quiescent == \A h \in Handlers : pc[h] = "idle"

\* Once session.close is over and no command runs, no listener of the session
\* is open.  (Violated: a forward registers its mapping after the drain.)
CloseReleasesAll ==
    (pc[Closer] = "end" /\ Quiescent) => \A l \in Listeners : listener[l] # "open"
=============================================================================
