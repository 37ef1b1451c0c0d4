-------------------------- MODULE DaemonManagerProofs --------------------------
(***************************************************************************)
(* Proofs about the bridge registry of DaemonManager, for every set of     *)
(* devices and of callers, every number of bridges and every reaping       *)
(* window: its types, its safety properties, and that it implements        *)
(* BridgeDirectory.                                                        *)
(***************************************************************************)
EXTENDS DaemonManager, TLAPS

----------------------------------------------------------------------------
(* The inductive invariant                                                 *)

\* An entry without a bridge is the empty one; an entry's bridge serves that
\* serial and has not ended.
EntriesInv ==
    \A s \in Serials :
        /\ items[s].id = None => items[s] = NoItem
        /\ items[s].id # None => /\ serial[items[s].id] = s
                                 /\ st[items[s].id] \in {"serve", "drain", "done"}

\* A caller between Listen and startItem has a bound bridge of its own, for the
\* serial of its request.
StartingInv ==
    /\ \A c \in Callers : pc[c] = "register" =>
          own[c] \in Bridges /\ st[own[c]] = "bound" /\ serial[own[c]] = arg[c]
    /\ \A c, d \in Callers :
          pc[c] = "register" /\ pc[d] = "register" /\ own[c] = own[d] => c = d

\* A bridge that does not serve yet has no session.
NoEarlySession == \A i \in Bridges : st[i] \in {"free", "bound"} => ~sess[i]

\* Between its rounds the reaper holds no bridge.
ReaperInv == reaper \in {"off", "idle"} => expired = {}

IInv ==
    /\ TypeOK
    /\ EntriesInv /\ StartingInv /\ NoEarlySession /\ ReaperInv
    /\ NoOrphanBridge /\ DoneReleasesPort /\ ReapSafe

----------------------------------------------------------------------------
(* Types                                                                   *)

Entry == [id : Bridges \cup {None}, age : 0 .. Healthy, quiet : 0 .. Window]

(* The entries that are written: a fresh one, and one with a moved clock. *)
LEMMA EntryOK ==
    /\ \A i \in Bridges \cup {None} : Fresh(i) \in Entry
    /\ NoItem \in Entry
    /\ \A e \in Entry : \A a \in 0 .. Healthy, q \in 0 .. Window : Clock(e, a, q) \in Entry
<1>1. Healthy \in 0 .. Healthy /\ 0 \in 0 .. Window
    BY ManagerAssumption DEF Healthy
<1>. QED  BY <1>1 DEF Entry, Fresh, NoItem, Clock

LEMMA InitTypeOK == Init => TypeOK
<1>. SUFFICES ASSUME Init PROVE TypeOK
    OBVIOUS
<1>1. (CHOOSE s \in Serials : TRUE) \in Serials
    BY ManagerAssumption
<1>2. items \in [Serials -> Entry]
    BY EntryOK DEF Init
<1>. QED  BY <1>1, <1>2 DEF Init, TypeOK, Entry

(* A clock that advances by a tick stays within its bounds. *)
LEMMA TickOK ==
    ASSUME NEW e \in Entry
    PROVE  Clock(e, Ticked(e.age), Ticked(e.quiet)) \in Entry
<1>1. Ticked(e.age) \in 0 .. Healthy /\ Ticked(e.quiet) \in 0 .. Window
    BY ManagerAssumption DEF Entry, Healthy, Ticked
<1>. QED  BY <1>1, EntryOK

(* Every step of the daemon keeps the types. *)
LEMMA CallerTypeOK ==
    ASSUME TypeOK, NEW c \in Callers, StartCheck(c) \/ StopTake(c) \/ CallerStep(c)
    PROVE  TypeOK'
<1>1. CASE StartCheck(c)
    BY <1>1 DEF StartCheck, TypeOK, Goto, bridgeVars, sessionVars, mainVars
<1>2. CASE StartListen(c)
    <2>1. pc' \in [Callers -> {"idle", "listen", "register", "wait"}]
        BY ZenonT(60), <1>2 DEF StartListen, TypeOK, Goto
    <2>2. /\ st' \in [Bridges -> {"free", "bound", "serve", "drain", "done", "ended"}]
          /\ serial' \in [Bridges -> Serials] /\ listener' \in [Bridges -> BOOLEAN]
          /\ cancelled' = cancelled /\ own' \in [Callers -> Bridges \cup {None}]
        <3>1. CASE UNCHANGED <<bridgeVars, own>>
            BY <3>1 DEF TypeOK, bridgeVars
        <3>2. CASE ~UNCHANGED <<bridgeVars, own>>
            <4>1. PICK i \in Bridges :
                     /\ st' = [st EXCEPT ![i] = "bound"]
                     /\ serial' = [serial EXCEPT ![i] = arg[c]]
                     /\ listener' = [listener EXCEPT ![i] = TRUE]
                     /\ own' = [own EXCEPT ![c] = i]
                     /\ UNCHANGED cancelled
                BY <1>2, <3>2 DEF StartListen
            <4>. QED  BY <4>1 DEF TypeOK
        <3>. QED  BY <3>1, <3>2
    <2>. QED
        BY <1>2, <2>1, <2>2 DEF StartListen, TypeOK, sessionVars, reaperVars, mainVars
<1>3. CASE Register(c)
    <2>1. items' \in [Serials -> Entry]
        <3>1. own[c] \in Bridges \cup {None} /\ items \in [Serials -> Entry]
            BY DEF TypeOK, Entry
        <3>2. Fresh(own[c]) \in Entry
            BY <3>1, EntryOK
        <3>. QED  BY <1>3, <3>1, <3>2 DEF Register
    <2>. QED
        BY <1>3, <2>1 DEF Register, TypeOK, Goto, sessionVars, reaperVars, mainVars, Entry
<1>4. CASE StopTake(c)
    <2>1. PICK s \in Serials :
             /\ items' = [items EXCEPT ![s] = NoItem]
             /\ own' = [own EXCEPT ![c] = items[s].id]
             /\ cancelled' = [cancelled EXCEPT ![items[s].id] = TRUE]
        BY <1>4 DEF StopTake
    <2>2. items \in [Serials -> Entry] /\ items[s].id \in Bridges \cup {None}
        BY DEF TypeOK, Entry
    <2>3. items' \in [Serials -> Entry] /\ own' \in [Callers -> Bridges \cup {None}]
        BY <2>1, <2>2, EntryOK DEF TypeOK
    <2>. QED
        BY <1>4, <2>1, <2>3 DEF StopTake, TypeOK, Goto, sessionVars, reaperVars, mainVars, Entry
<1>5. CASE StopReturns(c)
    BY <1>5 DEF StopReturns, TypeOK, Goto, bridgeVars, sessionVars, reaperVars, mainVars
<1>. QED  BY <1>1, <1>2, <1>3, <1>4, <1>5 DEF CallerStep

LEMMA BridgeTypeOK ==
    ASSUME TypeOK, NEW i \in Bridges,
           \/ CloseOnCancel(i) \/ Accept(i) \/ AcceptFails(i)
           \/ ServeReturns(i) \/ Unregister(i)
           \/ SessionEnds(i) \/ CallDevice(i) \/ Report(i)
    PROVE  TypeOK'
<1>. USE DEF TypeOK, callerVars, reaperVars, mainVars
<1>1. CASE CloseOnCancel(i) \/ AcceptFails(i) \/ ServeReturns(i)
    BY <1>1 DEF CloseOnCancel, AcceptFails, ServeReturns, sessionVars
<1>2. CASE Accept(i) \/ SessionEnds(i) \/ CallDevice(i)
    BY ZenonT(60), <1>2 DEF Accept, SessionEnds, CallDevice, bridgeVars
<1>3. CASE Unregister(i)
    <2>1. items' \in [Serials -> Entry]
        BY <1>3, EntryOK DEF Unregister, Entry
    <2>. QED  BY <1>3, <2>1 DEF Unregister, sessionVars, Entry
<1>4. CASE Report(i)
    <2>1. 0 \in 0 .. Healthy /\ 0 \in 0 .. Window /\ Healthy \in 0 .. Healthy
        BY ManagerAssumption DEF Healthy
    <2>2. items \in [Serials -> Entry] /\ items[serial[i]] \in Entry
        BY DEF Entry
    <2>3. /\ Clock(items[serial[i]], Healthy, 0) \in Entry
          /\ Clock(items[serial[i]],
                   IF items[serial[i]].age = Healthy THEN 0 ELSE items[serial[i]].age,
                   items[serial[i]].quiet) \in Entry
        BY <2>1, <2>2, EntryOK DEF Entry
    <2>4. items' \in [Serials -> Entry]
        BY <1>4, <2>2, <2>3, EntryOK DEF Report
    <2>. QED  BY <1>4, <2>4 DEF Report, bridgeVars, Entry
<1>. QED  BY <1>1, <1>2, <1>3, <1>4

LEMMA DaemonTypeOK ==
    ASSUME TypeOK, Reaping \/ Tick \/ Shutdown \/ RunReturns \/ Ending
    PROVE  TypeOK'
<1>. USE DEF TypeOK, callerVars, bridgeVars, sessionVars
<1>1. CASE Reaping
    <2>1. items' \in [Serials -> Entry]
        BY ZenonT(60), <1>1, EntryOK DEF Reaping, ReapTake, ReapCancel, ReapWait, ReaperEnds, Entry
    <2>. QED
        BY <1>1, <2>1
        DEF Reaping, ReapTake, ReapCancel, ReapWait, ReaperEnds, mainVars, Entry
<1>2. CASE Tick
    <2>1. items' \in [Serials -> Entry]
        BY <1>2, EntryOK, TickOK DEF Tick, Entry
    <2>. QED  BY <1>2, <2>1 DEF Tick, reaperVars, mainVars, Entry
<1>3. CASE Shutdown \/ RunReturns
    BY <1>3 DEF Shutdown, RunReturns, reaperVars
<1>4. CASE Ending
    <2>1. items' \in [Serials -> Entry]
        BY ZenonT(60), <1>4, EntryOK DEF Ending, StopAllTake, StopAllWait, RunJoins, Entry
    <2>. QED
        BY ZenonT(60), <1>4, <2>1
        DEF Ending, StopAllTake, StopAllWait, RunJoins, reaperVars, Entry
<1>. QED  BY <1>1, <1>2, <1>3, <1>4

(* TypeOK is inductive by itself: registry, goroutines and clocks keep their types. *)
THEOREM TypeCorrect == Spec => []TypeOK
<1>1. TypeOK /\ [Next]_vars => TypeOK'
    <2>. SUFFICES ASSUME TypeOK, [Next]_vars PROVE TypeOK'
        OBVIOUS
    <2>1. CASE Next
        BY <2>1, CallerTypeOK, BridgeTypeOK, DaemonTypeOK DEF Next
    <2>2. CASE UNCHANGED vars
        BY <2>2 DEF vars, TypeOK, bridgeVars, sessionVars, callerVars, reaperVars, mainVars
    <2>. QED  BY <2>1, <2>2
<1>. QED  BY <1>1, InitTypeOK, PTL DEF Spec

----------------------------------------------------------------------------
(* The invariant                                                           *)

(* What the invariant says of one bridge or one caller, as the steps use it. *)
LEMMA Facts ==
    ASSUME IInv
    PROVE  /\ items \in [Serials -> Entry] /\ serial \in [Bridges -> Serials]
           /\ \A s \in Serials : items[s] \in Entry /\ items[s].id \in Bridges \cup {None}
           /\ \A s \in Serials : items[s].id = None <=> items[s] = NoItem
           /\ \A i \in Bridges, s \in Serials :
                 items[s].id = i => serial[i] = s /\ Registered(i)
                                    /\ st[i] \in {"serve", "drain", "done"}
           /\ None \notin Bridges
<1>1. None \notin Bridges
    BY DEF None, Bridges
<1>2. \A s \in Serials : items[s] \in Entry /\ items[s].id \in Bridges \cup {None}
    BY DEF IInv, TypeOK, Entry
<1>3. NoItem.id = None
    BY DEF NoItem, Fresh
<1>. QED  BY <1>1, <1>2, <1>3 DEF IInv, TypeOK, EntriesInv, Registered, Entry

LEMMA InitInv == Init => IInv
<1>. SUFFICES ASSUME Init PROVE IInv
    OBVIOUS
<1>1. \A s \in Serials : items[s] = NoItem /\ items[s].id = None /\ items[s].age = Healthy
    BY DEF Init, NoItem, Fresh
<1>2. EntriesInv /\ ReapSafe
    BY <1>1 DEF EntriesInv, ReapSafe
<1>3. StartingInv /\ NoEarlySession /\ ReaperInv /\ NoOrphanBridge /\ DoneReleasesPort
    BY DEF Init, StartingInv, NoEarlySession, ReaperInv, NoOrphanBridge, DoneReleasesPort, Served
<1>. QED  BY <1>2, <1>3, InitTypeOK DEF IInv

(* A request registers a bridge only on an empty entry, and only its own. *)
LEMMA StartInv ==
    ASSUME IInv, NEW c \in Callers, StartCheck(c) \/ StartListen(c)
    PROVE  IInv'
<1>1. TypeOK'
    BY CallerTypeOK DEF CallerStep, IInv
<1>. USE DEF IInv, TypeOK
<1>2. CASE StartCheck(c)
    BY <1>1, <1>2
    DEF StartCheck, Goto, bridgeVars, sessionVars, mainVars, EntriesInv, StartingInv,
        NoEarlySession, ReaperInv, NoOrphanBridge, DoneReleasesPort, ReapSafe,
        Registered, Cancelled, Served
<1>3. CASE StartListen(c)
    <2>1. CASE UNCHANGED <<bridgeVars, own>> /\ Goto(c, "idle")
        BY <1>1, <1>3, <2>1
        DEF StartListen, Goto, bridgeVars, sessionVars, reaperVars, mainVars, EntriesInv,
            StartingInv, NoEarlySession, ReaperInv, NoOrphanBridge, DoneReleasesPort,
            ReapSafe, Registered, Cancelled, Served
    <2>2. CASE ~(UNCHANGED <<bridgeVars, own>> /\ Goto(c, "idle"))
        <3>1. PICK i \in Bridges :
                 /\ st[i] = "free"
                 /\ st' = [st EXCEPT ![i] = "bound"]
                 /\ serial' = [serial EXCEPT ![i] = arg[c]]
                 /\ listener' = [listener EXCEPT ![i] = TRUE]
                 /\ own' = [own EXCEPT ![c] = i]
                 /\ pc' = [pc EXCEPT ![c] = "register"]
                 /\ UNCHANGED cancelled
            BY <1>3, <2>2 DEF StartListen, Goto
        <3>2. UNCHANGED <<items, sessionVars, arg, reaperVars, mainVars>>
            BY <1>3 DEF StartListen
        <3>3. EntriesInv' /\ ReapSafe'
            BY <3>1, <3>2, Facts DEF EntriesInv, ReapSafe
        <3>4. StartingInv'
            BY <3>1, <3>2 DEF StartingInv
        <3>5. NoEarlySession' /\ ReaperInv' /\ DoneReleasesPort'
            BY <3>1, <3>2
            DEF NoEarlySession, ReaperInv, DoneReleasesPort, Served, sessionVars, reaperVars
        <3>6. NoOrphanBridge'
            BY <3>1, <3>2
            DEF NoOrphanBridge, Registered, Cancelled, reaperVars, mainVars
        <3>. QED  BY <1>1, <3>3, <3>4, <3>5, <3>6
    <2>. QED  BY <2>1, <2>2
<1>. QED  BY <1>2, <1>3

LEMMA RegisterInv ==
    ASSUME IInv, NEW c \in Callers, Register(c)
    PROVE  IInv'
<1>1. TypeOK'
    BY CallerTypeOK DEF CallerStep, IInv
<1>. DEFINE i == own[c]
<1>2. /\ i \in Bridges /\ st[i] = "bound" /\ serial[i] = arg[c] /\ ~sess[i]
      /\ \A s \in Serials : items[s].id # i
      /\ \A d \in Callers : pc[d] = "register" /\ own[d] = i => d = c
    BY Facts DEF Register, IInv, StartingInv, NoEarlySession
<1>3. pc' = [pc EXCEPT ![c] = "idle"] /\ own' = [own EXCEPT ![c] = None]
    BY DEF Register, Goto
<1>. USE DEF IInv, TypeOK
<1>4. CASE items[arg[c]] # NoItem
    <2>1. /\ st' = [st EXCEPT ![i] = "ended"] /\ listener' = [listener EXCEPT ![i] = FALSE]
          /\ UNCHANGED <<items, serial, cancelled, sessionVars, arg, reaperVars, mainVars>>
        BY <1>4 DEF Register
    <2>2. EntriesInv' /\ ReapSafe'
        BY <1>2, <2>1, Facts DEF EntriesInv, ReapSafe
    <2>3. StartingInv'
        BY <1>2, <1>3, <2>1 DEF StartingInv
    <2>4. NoEarlySession' /\ ReaperInv' /\ DoneReleasesPort' /\ NoOrphanBridge'
        BY <1>2, <2>1
        DEF NoEarlySession, ReaperInv, DoneReleasesPort, NoOrphanBridge, Served,
            Registered, Cancelled, sessionVars, reaperVars, mainVars
    <2>. QED  BY <1>1, <2>2, <2>3, <2>4
<1>5. CASE items[arg[c]] = NoItem
    <2>1. /\ items' = [items EXCEPT ![arg[c]] = Fresh(i)] /\ st' = [st EXCEPT ![i] = "serve"]
          /\ UNCHANGED <<serial, listener, cancelled, sessionVars, arg, reaperVars, mainVars>>
        BY <1>5 DEF Register
    <2>2. /\ items[arg[c]].id = None
          /\ \A s \in Serials : items'[s] = IF s = arg[c] THEN Fresh(i) ELSE items[s]
          /\ Fresh(i).id = i /\ Fresh(i).age = Healthy
        BY <1>5, <2>1, Facts DEF Fresh
    <2>3. EntriesInv' /\ ReapSafe'
        BY <1>2, <2>1, <2>2, Facts DEF EntriesInv, ReapSafe
    <2>4. StartingInv'
        BY <1>2, <1>3, <2>1 DEF StartingInv
    <2>5. NoEarlySession' /\ ReaperInv' /\ DoneReleasesPort'
        BY <1>2, <2>1 DEF NoEarlySession, ReaperInv, DoneReleasesPort, Served,
                          sessionVars, reaperVars
    <2>6. NoOrphanBridge'
        BY <1>2, <2>1, <2>2, Facts DEF NoOrphanBridge, Registered, Cancelled,
                                       reaperVars, mainVars
    <2>. QED  BY <1>1, <2>3, <2>4, <2>5, <2>6
<1>. QED  BY <1>4, <1>5

LEMMA StopInv ==
    ASSUME IInv, NEW c \in Callers, StopTake(c) \/ StopReturns(c)
    PROVE  IInv'
<1>1. TypeOK'
    BY CallerTypeOK DEF CallerStep, IInv
<1>. USE DEF IInv, TypeOK
<1>2. CASE StopTake(c)
    <2>1. PICK s \in Serials :
             /\ items[s] # NoItem
             /\ items' = [items EXCEPT ![s] = NoItem]
             /\ own' = [own EXCEPT ![c] = items[s].id]
             /\ cancelled' = [cancelled EXCEPT ![items[s].id] = TRUE]
        BY <1>2 DEF StopTake
    <2>2. /\ pc' = [pc EXCEPT ![c] = "wait"]
          /\ UNCHANGED <<serial, st, listener, sessionVars, arg, reaperVars, mainVars>>
        BY <1>2 DEF StopTake, Goto
    <2>3. /\ items[s].id \in Bridges
          /\ \A t \in Serials : items'[t] = IF t = s THEN NoItem ELSE items[t]
          /\ NoItem.id = None /\ NoItem.age = Healthy
        BY <2>1, Facts DEF NoItem, Fresh
    <2>4. EntriesInv' /\ ReapSafe'
        BY <2>2, <2>3, Facts DEF EntriesInv, ReapSafe
    <2>5. StartingInv'
        BY <2>1, <2>2 DEF StartingInv
    <2>6. NoEarlySession' /\ ReaperInv' /\ DoneReleasesPort'
        BY <2>2 DEF NoEarlySession, ReaperInv, DoneReleasesPort, Served, sessionVars, reaperVars
    <2>7. NoOrphanBridge'
        BY <2>1, <2>2, <2>3, Facts DEF NoOrphanBridge, Registered, Cancelled,
                                       reaperVars, mainVars
    <2>. QED  BY <1>1, <2>4, <2>5, <2>6, <2>7
<1>3. CASE StopReturns(c)
    BY <1>1, <1>3
    DEF StopReturns, Goto, bridgeVars, sessionVars, reaperVars, mainVars, EntriesInv,
        StartingInv, NoEarlySession, ReaperInv, NoOrphanBridge, DoneReleasesPort,
        ReapSafe, Registered, Cancelled, Served
<1>. QED  BY <1>2, <1>3

(* A bridge's own goroutines: Served is reached only after the last session, with
   the listener closed, and the entry goes with the bridge. *)
LEMMA ServeInv ==
    ASSUME IInv, NEW i \in Bridges,
           CloseOnCancel(i) \/ Accept(i) \/ AcceptFails(i) \/ ServeReturns(i)
           \/ SessionEnds(i) \/ CallDevice(i)
    PROVE  IInv'
<1>1. TypeOK'
    BY BridgeTypeOK DEF IInv
<1>2. UNCHANGED <<items, serial, cancelled, callerVars, reaperVars, mainVars>>
    BY DEF CloseOnCancel, Accept, AcceptFails, ServeReturns, SessionEnds, CallDevice, bridgeVars
<1>. USE DEF IInv, TypeOK
<1>3. st' = st \/ (st[i] = "serve" /\ st' = [st EXCEPT ![i] = "drain"])
      \/ (st[i] = "drain" /\ ~sess[i] /\ st' = [st EXCEPT ![i] = "done"])
    BY DEF CloseOnCancel, Accept, AcceptFails, ServeReturns, SessionEnds, CallDevice, bridgeVars
<1>4. EntriesInv' /\ ReapSafe'
    BY <1>2, <1>3, Facts DEF EntriesInv, ReapSafe
<1>5. StartingInv' /\ ReaperInv'
    BY <1>2, <1>3 DEF StartingInv, ReaperInv, callerVars, reaperVars
<1>6. NoEarlySession' /\ DoneReleasesPort'
    BY ZenonT(60) DEF CloseOnCancel, Accept, AcceptFails, ServeReturns, SessionEnds, CallDevice,
           bridgeVars, sessionVars, NoEarlySession, DoneReleasesPort, Served
<1>7. NoOrphanBridge'
    BY <1>2, <1>3 DEF NoOrphanBridge, Registered, Cancelled, reaperVars, mainVars
<1>. QED  BY <1>1, <1>4, <1>5, <1>6, <1>7

LEMMA UnregisterInv ==
    ASSUME IInv, NEW i \in Bridges, Unregister(i)
    PROVE  IInv'
<1>1. TypeOK'
    BY BridgeTypeOK DEF IInv
<1>. USE DEF IInv, TypeOK
<1>2. /\ st[i] = "done" /\ st' = [st EXCEPT ![i] = "ended"]
      /\ UNCHANGED <<serial, listener, cancelled, sessionVars, callerVars, reaperVars, mainVars>>
    BY DEF Unregister
<1>3. /\ \A s \in Serials : items'[s] = IF items[s].id = i THEN NoItem ELSE items[s]
      /\ NoItem.id = None /\ NoItem.age = Healthy
    BY Facts DEF Unregister, NoItem, Fresh
<1>4. EntriesInv' /\ ReapSafe'
    <2>1. ASSUME NEW s \in Serials
          PROVE  items'[s] = NoItem \/ (items'[s] = items[s] /\ items[s].id # i)
        BY <1>3
    <2>2. EntriesInv'
        BY <1>2, <1>3, <2>1, Facts DEF EntriesInv
    <2>3. ReapSafe'
        BY <1>3, <2>1 DEF ReapSafe
    <2>. QED  BY <2>2, <2>3
<1>5. StartingInv' /\ ReaperInv'
    BY <1>2 DEF StartingInv, ReaperInv, callerVars, reaperVars
<1>6. NoEarlySession' /\ DoneReleasesPort'
    BY <1>2 DEF sessionVars, NoEarlySession, DoneReleasesPort, Served
<1>7. NoOrphanBridge'
    BY <1>2, <1>3 DEF NoOrphanBridge, Registered, Cancelled, reaperVars, mainVars
<1>. QED  BY <1>1, <1>4, <1>5, <1>6, <1>7

LEMMA ClockParts ==
    ASSUME NEW e, NEW a, NEW q
    PROVE  Clock(e, a, q).id = e.id /\ Clock(e, a, q).age = a /\ Clock(e, a, q).quiet = q
BY DEF Clock

(* A result moves the clock of whatever bridge the serial has, and nothing else. *)
LEMMA ReportInv ==
    ASSUME IInv, NEW i \in Bridges, Report(i)
    PROVE  IInv'
<1>1. TypeOK'
    BY BridgeTypeOK DEF IInv
<1>. USE DEF IInv, TypeOK
<1>2. UNCHANGED <<bridgeVars, sess, callerVars, reaperVars, mainVars>>
    BY DEF Report
<1>3. PICK a \in 0 .. Healthy, q \in 0 .. Window :
         /\ \A s \in Serials : items'[s] =
               IF s = serial[i] /\ items[s] # NoItem THEN Clock(items[s], a, q) ELSE items[s]
         /\ a = Healthy \/ (a = 0 /\ q = items[serial[i]].quiet)
            \/ (a = items[serial[i]].age /\ q = items[serial[i]].quiet)
    <2>1. /\ 0 \in 0 .. Healthy /\ 0 \in 0 .. Window /\ Healthy \in 0 .. Healthy
          /\ items[serial[i]].age \in 0 .. Healthy /\ items[serial[i]].quiet \in 0 .. Window
        BY ManagerAssumption, Facts DEF Healthy, Entry
    <2>2. CASE call[i] = "ok"
        BY <2>1, <2>2 DEF Report
    <2>3. CASE call[i] # "ok" /\ items[serial[i]].age = Healthy
        BY <2>1, <2>3 DEF Report
    <2>4. CASE call[i] # "ok" /\ items[serial[i]].age # Healthy
        BY <2>1, <2>4 DEF Report
    <2>. QED  BY <2>2, <2>3, <2>4
<1>4. \A s \in Serials : items'[s].id = items[s].id /\ (items[s] = NoItem => items'[s] = NoItem)
    BY <1>3, ClockParts
<1>5. EntriesInv'
    BY <1>2, <1>4, Facts DEF EntriesInv, bridgeVars
<1>6. ReapSafe'
    <2>. SUFFICES ASSUME NEW s \in Serials, items'[s].age # Healthy
                  PROVE  items'[s].age <= items'[s].quiet
        BY DEF ReapSafe
    <2>1. CASE s = serial[i] /\ items[s] # NoItem
        <3>1. items'[s].age = a /\ items'[s].quiet = q
            BY <1>3, <2>1, ClockParts
        <3>2. items[s].quiet \in 0 .. Window /\ items[s].age \in 0 .. Healthy
            BY Facts DEF Entry
        <3>. QED  BY <1>3, <2>1, <3>1, <3>2 DEF ReapSafe
    <2>2. CASE ~(s = serial[i] /\ items[s] # NoItem)
        BY <1>3, <2>2 DEF ReapSafe
    <2>. QED  BY <2>1, <2>2
<1>7. StartingInv' /\ ReaperInv' /\ NoEarlySession' /\ DoneReleasesPort' /\ NoOrphanBridge'
    BY <1>2, <1>4
    DEF StartingInv, ReaperInv, NoEarlySession, DoneReleasesPort, NoOrphanBridge, Served,
        Registered, Cancelled, bridgeVars, callerVars, reaperVars, mainVars
<1>. QED  BY <1>1, <1>5, <1>6, <1>7

(* The reaper keeps in expired every bridge it has taken and not cancelled yet. *)
LEMMA ReapInv == ASSUME IInv, Reaping PROVE IInv'
<1>1. TypeOK'
    BY DaemonTypeOK DEF IInv
<1>2. UNCHANGED <<serial, st, listener, sessionVars, callerVars, mainVars>>
    BY DEF Reaping, ReapTake, ReapCancel, ReapWait, ReaperEnds, bridgeVars
<1>. USE DEF IInv, TypeOK
<1>3. StartingInv' /\ NoEarlySession' /\ DoneReleasesPort'
    BY <1>2 DEF StartingInv, NoEarlySession, DoneReleasesPort, Served, sessionVars, callerVars
<1>4. ASSUME ReapTake PROVE ReaperInv' /\ EntriesInv' /\ ReapSafe' /\ NoOrphanBridge'
    <2>1. /\ reaper' = "cancel" /\ reaper = "idle"
          /\ cancelled' = cancelled
          /\ \A s \in Serials : items'[s] = IF items[s].id \in expired' THEN NoItem ELSE items[s]
          /\ NoItem.id = None /\ NoItem.age = Healthy
        BY <1>4 DEF ReapTake, bridgeVars, NoItem, Fresh
    <2>2. ReaperInv' /\ expired = {}
        BY <2>1 DEF ReaperInv
    <2>3. EntriesInv' /\ ReapSafe'
        BY <1>2, <2>1, Facts DEF EntriesInv, ReapSafe
    <2>4. NoOrphanBridge'
        BY <1>2, <2>1, <2>2, Facts DEF NoOrphanBridge, Registered, Cancelled, mainVars
    <2>. QED  BY <2>2, <2>3, <2>4
<1>5. ASSUME ReapCancel \/ ReapWait \/ ReaperEnds
      PROVE  ReaperInv' /\ EntriesInv' /\ ReapSafe' /\ NoOrphanBridge'
    <2>1. UNCHANGED items
        BY <1>5 DEF ReapCancel, ReapWait, ReaperEnds
    <2>2. EntriesInv' /\ ReapSafe'
        BY <1>2, <2>1 DEF EntriesInv, ReapSafe
    <2>3. ReaperInv'
        BY <1>5 DEF ReapCancel, ReapWait, ReaperEnds, ReaperInv
    <2>4. NoOrphanBridge'
        BY <1>2, <1>5, <2>1 DEF ReapCancel, ReapWait, ReaperEnds, bridgeVars, mainVars,
                                NoOrphanBridge, Registered, Cancelled
    <2>. QED  BY <2>2, <2>3, <2>4
<1>. QED  BY <1>1, <1>3, <1>4, <1>5 DEF Reaping

(* Both clocks of an entry advance together, so that age never overtakes quiet. *)
LEMMA TickInv == ASSUME IInv, Tick PROVE IInv'
<1>1. TypeOK'
    BY DaemonTypeOK DEF IInv
<1>2. UNCHANGED <<bridgeVars, sessionVars, callerVars, reaperVars, mainVars>>
    BY DEF Tick
<1>. USE DEF IInv, TypeOK
<1>3. ASSUME NEW s \in Serials
      PROVE  /\ items[s] = NoItem => items'[s] = NoItem
             /\ items[s] # NoItem =>
                   items'[s] = Clock(items[s], Ticked(items[s].age), Ticked(items[s].quiet))
    BY DEF Tick
<1>4. ASSUME NEW s \in Serials PROVE items'[s].id = items[s].id
    BY <1>3, ClockParts
<1>5. EntriesInv'
    BY <1>2, <1>3, <1>4, Facts DEF EntriesInv, bridgeVars
<1>6. ReapSafe'
    <2>. SUFFICES ASSUME NEW s \in Serials, items'[s].age # Healthy
                  PROVE  items'[s].age <= items'[s].quiet
        BY DEF ReapSafe
    <2>1. CASE items[s] = NoItem
        BY <1>3, <2>1 DEF NoItem, Fresh
    <2>2. CASE items[s] # NoItem
        <3>1. items'[s].age = Ticked(items[s].age) /\ items'[s].quiet = Ticked(items[s].quiet)
            BY <1>3, <2>2, ClockParts
        <3>2. items[s].quiet \in 0 .. Window /\ items[s].age \in 0 .. Healthy
            BY Facts DEF Entry
        <3>. QED  BY <3>1, <3>2, ManagerAssumption DEF ReapSafe, Ticked, Healthy
    <2>. QED  BY <2>1, <2>2
<1>7. StartingInv' /\ ReaperInv' /\ NoEarlySession' /\ DoneReleasesPort' /\ NoOrphanBridge'
    BY <1>2, <1>4
    DEF StartingInv, ReaperInv, NoEarlySession, DoneReleasesPort, NoOrphanBridge, Served,
        Registered, Cancelled, bridgeVars, sessionVars, callerVars, reaperVars, mainVars
<1>. QED  BY <1>1, <1>5, <1>6, <1>7

(* The end of the daemon cancels what it takes off the list in the same step. *)
LEMMA EndInv == ASSUME IInv, Shutdown \/ RunReturns \/ Ending PROVE IInv'
<1>1. TypeOK'
    BY DaemonTypeOK DEF IInv
<1>2. /\ UNCHANGED <<serial, st, listener, sessionVars, callerVars, reaperVars>>
      /\ rootDone => rootDone'
      /\ \A i \in Bridges : cancelled[i] => cancelled'[i]
    BY DEF Shutdown, RunReturns, Ending, StopAllTake, StopAllWait, RunJoins, bridgeVars, IInv, TypeOK
<1>. USE DEF IInv, TypeOK
<1>3. StartingInv' /\ ReaperInv' /\ NoEarlySession' /\ DoneReleasesPort'
    BY <1>2 DEF StartingInv, ReaperInv, NoEarlySession, DoneReleasesPort, Served,
                sessionVars, callerVars, reaperVars
<1>4. CASE StopAllTake
    <2>1. /\ \A s \in Serials : items'[s] = NoItem
          /\ \A i \in Bridges : Registered(i) => cancelled'[i]
          /\ NoItem.id = None /\ NoItem.age = Healthy
        BY <1>4 DEF StopAllTake, NoItem, Fresh
    <2>2. EntriesInv' /\ ReapSafe'
        BY <2>1 DEF EntriesInv, ReapSafe
    <2>3. NoOrphanBridge'
        BY <1>2, <2>1 DEF NoOrphanBridge, Registered, Cancelled, reaperVars
    <2>. QED  BY <1>1, <1>3, <2>2, <2>3
<1>5. CASE ~StopAllTake
    <2>1. UNCHANGED items
        BY <1>5 DEF Shutdown, RunReturns, Ending, StopAllWait, RunJoins
    <2>2. EntriesInv' /\ ReapSafe'
        BY <1>2, <2>1 DEF EntriesInv, ReapSafe
    <2>3. NoOrphanBridge'
        BY <1>2, <2>1 DEF NoOrphanBridge, Registered, Cancelled, reaperVars
    <2>. QED  BY <1>1, <1>3, <2>2, <2>3
<1>. QED  BY <1>4, <1>5

(* The invariant holds in every state the daemon reaches. *)
LEMMA Invariance == Spec => []IInv
<1>1. IInv /\ [Next]_vars => IInv'
    <2>. SUFFICES ASSUME IInv, [Next]_vars PROVE IInv'
        OBVIOUS
    <2>1. CASE Next
        BY <2>1, StartInv, RegisterInv, StopInv, ServeInv, UnregisterInv, ReportInv,
           ReapInv, TickInv, EndInv DEF Next, CallerStep
    <2>2. CASE UNCHANGED vars
        BY <2>2
        DEF vars, bridgeVars, sessionVars, callerVars, reaperVars, mainVars, IInv, TypeOK,
            EntriesInv, StartingInv, NoEarlySession, ReaperInv, NoOrphanBridge,
            DoneReleasesPort, ReapSafe, Registered, Cancelled, Served
    <2>. QED  BY <2>1, <2>2
<1>. QED  BY <1>1, InitInv, PTL DEF Spec

----------------------------------------------------------------------------
(* The registry's safety                                                   *)

(* No bridge serves where neither List nor Stop can see it, whatever the order in
   which starts, stops, the reaper, failures and the end of the daemon meet: the
   registry loses a bridge only together with its context. *)
THEOREM NoOrphan == Spec => []NoOrphanBridge
BY Invariance, PTL DEF IInv

(* What done tells Stop and StopAll is true of every bridge, the loser of two
   Starts included: its port is free and its sessions are over. *)
THEOREM DoneTruth == Spec => []DoneReleasesPort
BY Invariance, PTL DEF IInv

(* The reaper takes only bridges without a success for the whole window, for every
   length of the window. *)
THEOREM ReaperSafe == Spec => []ReapSafe
BY Invariance, PTL DEF IInv

----------------------------------------------------------------------------
(* The registry implements BridgeDirectory                                 *)

(* The phase of a bridge, as the mapping reads it. *)
LEMMA PhaseIs ==
    ASSUME NEW i \in Bridges
    PROVE  /\ st[i] = "free" => Phase(i) = "new"
           /\ st[i] = "bound" => Phase(i) = "bound"
           /\ st[i] \in {"done", "ended"} => Phase(i) = "over"
           /\ st[i] \in {"serve", "drain"} /\ Registered(i) => Phase(i) = "listed"
           /\ st[i] \in {"serve", "drain"} /\ ~Registered(i) => Phase(i) = "leaving"
BY DEF Phase, Listed, Served

LEMMA NextPhaseIs ==
    ASSUME NEW i \in Bridges
    PROVE  /\ st'[i] = "free" => Phase(i)' = "new"
           /\ st'[i] = "bound" => Phase(i)' = "bound"
           /\ st'[i] \in {"done", "ended"} => Phase(i)' = "over"
           /\ st'[i] \in {"serve", "drain"} /\ Registered(i)' => Phase(i)' = "listed"
           /\ st'[i] \in {"serve", "drain"} /\ ~Registered(i)' => Phase(i)' = "leaving"
BY DEF Phase, Listed, Served

(* A bridge keeps its phase when it keeps its state and its place in the list. *)
LEMMA SamePhase ==
    ASSUME NEW i \in Bridges, st'[i] = st[i],
           st[i] \in {"serve", "drain"} => (Registered(i)' <=> Registered(i))
    PROVE  Phase(i)' = Phase(i)
<1>1. CASE st[i] \in {"serve", "drain"} /\ Registered(i)
    BY <1>1, PhaseIs, NextPhaseIs
<1>2. CASE st[i] \in {"serve", "drain"} /\ ~Registered(i)
    BY <1>2, PhaseIs, NextPhaseIs
<1>3. CASE st[i] \notin {"serve", "drain"}
    BY <1>3 DEF Phase, Listed, Served
<1>. QED  BY <1>1, <1>2, <1>3

LEMMA InitDirectory == Init => Directory!Init
<1>. SUFFICES ASSUME Init PROVE Directory!Init
    OBVIOUS
<1>1. \A s \in Serials : items[s].id = 0
    BY DEF Init, NoItem, Fresh, None
<1>2. \A i \in Bridges : Phase(i) = "new"
    BY PhaseIs DEF Init
<1>. QED  BY <1>1, <1>2 DEF Directory!Init

(* A step that changes no bridge's phase and no entry's bridge is a stutter. *)
LEMMA Stutter ==
    ASSUME \A s \in Serials : items'[s].id = items[s].id,
           \A i \in Bridges : Phase(i)' = Phase(i)
    PROVE  UNCHANGED Directory!vars
BY DEF Directory!vars

(* The steps of the abstract directory, from what the concrete step does to the
   entries and to the states of the bridges. *)
LEMMA BindStep ==
    ASSUME NEW b \in Bridges, st[b] = "free", st'[b] = "bound",
           \A s \in Serials : items'[s].id = items[s].id,
           \A i \in Bridges : i # b => Phase(i)' = Phase(i)
    PROVE  Directory!Bind(b)
<1>1. Phase(b) = "new" /\ Phase(b)' = "bound"
    BY PhaseIs, NextPhaseIs
<1>. QED  BY <1>1 DEF Directory!Bind

LEMMA EndStep ==
    ASSUME NEW b \in Bridges, st[b] \in {"bound", "serve", "drain"},
           st'[b] \in {"done", "ended"},
           \A s \in Serials : items'[s].id = items[s].id,
           \A i \in Bridges : i # b => Phase(i)' = Phase(i)
    PROVE  Directory!End(b)
<1>1. Phase(b) \in {"bound", "listed", "leaving"} /\ Phase(b)' = "over"
    BY PhaseIs, NextPhaseIs
<1>. QED  BY <1>1 DEF Directory!End

LEMMA AddStep ==
    ASSUME NEW b \in Bridges, NEW s \in Serials, st[b] = "bound", st'[b] = "serve",
           Registered(b)', items[s].id = 0,
           \A t \in Serials : items'[t].id = IF t = s THEN b ELSE items[t].id,
           \A i \in Bridges : i # b => Phase(i)' = Phase(i)
    PROVE  Directory!Add(s, b)
<1>1. Phase(b) = "bound" /\ Phase(b)' = "listed"
    BY PhaseIs, NextPhaseIs
<1>. QED  BY <1>1 DEF Directory!Add

\* The entries of the serials in S lose their bridges.
LEMMA DropStep ==
    ASSUME IInv, serial' = serial, NEW S \in SUBSET Serials,
           \A s \in S : items[s].id # 0,
           \A s \in Serials : items'[s].id = IF s \in S THEN 0 ELSE items[s].id,
           \A i \in Bridges : st'[i] = st[i] \/ (st[i] = "done" /\ st'[i] = "ended")
    PROVE  Directory!Drop(S)
<1>1. ASSUME NEW i \in Bridges
      PROVE  Phase(i)' = IF Phase(i) = "listed" /\ \E s \in S : items[s].id = i
                           THEN "leaving" ELSE Phase(i)
    <2>1. serial[i] \in Serials /\ i # 0 /\ serial'[i] = serial[i]
        BY Facts DEF None
    <2>2. Phase(i) = "listed" => st[i] \in {"serve", "drain"} /\ Registered(i)
        BY DEF Phase, Listed, Served
    <2>3. CASE st[i] \in {"serve", "drain"} /\ \E s \in S : items[s].id = i
        <3>1. Registered(i) /\ ~Registered(i)' /\ st'[i] = st[i]
            BY <2>1, <2>3, Facts DEF Registered
        <3>. QED  BY <2>3, <3>1, PhaseIs, NextPhaseIs
    <2>4. CASE ~(st[i] \in {"serve", "drain"} /\ \E s \in S : items[s].id = i)
        <3>1. CASE st'[i] = st[i]
            <4>1. st[i] \in {"serve", "drain"} => (Registered(i)' <=> Registered(i))
                BY <2>1, <2>4, Facts DEF Registered
            <4>. QED  BY <2>2, <2>4, <3>1, <4>1, SamePhase
        <3>2. CASE st[i] = "done" /\ st'[i] = "ended"
            BY <3>2, PhaseIs, NextPhaseIs
        <3>. QED  BY <3>1, <3>2
    <2>. QED  BY <2>3, <2>4
<1>. QED  BY <1>1 DEF Directory!Drop

(* A request adds the bridge it registers, ends the one that lost the race for its
   serial, and drops the one it stops. *)
LEMMA CallerDirectory ==
    ASSUME IInv, NEW c \in Callers, StartCheck(c) \/ StopTake(c) \/ CallerStep(c)
    PROVE  [Directory!Next]_Directory!vars
<1>0. TypeOK
    BY DEF IInv
<1>1. CASE Register(c)
    <2>1. PICK b \in Bridges : b = own[c] /\ st[b] = "bound" /\ serial[b] = arg[c]
        BY <1>1 DEF Register, IInv, StartingInv
    <2>2. arg[c] \in Serials /\ serial' = serial
        BY <1>0, <1>1 DEF TypeOK, Register
    <2>3. CASE items[arg[c]] = NoItem
        <3>1. items' = [items EXCEPT ![arg[c]] = Fresh(b)] /\ st' = [st EXCEPT ![b] = "serve"]
            BY <1>1, <2>1, <2>3 DEF Register
        <3>2. /\ items[arg[c]].id = 0
              /\ \A t \in Serials : items'[t].id = IF t = arg[c] THEN b ELSE items[t].id
              /\ st'[b] = "serve" /\ \A i \in Bridges : i # b => st'[i] = st[i]
            BY <1>0, <2>2, <2>3, <3>1, Facts DEF Fresh, None, TypeOK
        <3>3. Registered(b)' /\ \A i \in Bridges : i # b => (Registered(i)' <=> Registered(i))
            BY <2>1, <2>2, <3>2, Facts DEF Registered, None
        <3>4. \A i \in Bridges : i # b => Phase(i)' = Phase(i)
            BY <3>2, <3>3, SamePhase
        <3>5. Directory!Add(arg[c], b)
            BY <2>1, <2>2, <3>2, <3>3, <3>4, AddStep
        <3>. QED  BY <2>2, <3>5 DEF Directory!Next
    <2>4. CASE items[arg[c]] # NoItem
        <3>1. UNCHANGED items /\ st' = [st EXCEPT ![b] = "ended"]
            BY <1>1, <2>1, <2>4 DEF Register
        <3>2. st'[b] = "ended" /\ \A i \in Bridges : i # b => st'[i] = st[i]
            BY <1>0, <3>1 DEF TypeOK
        <3>3. \A i \in Bridges : i # b => Phase(i)' = Phase(i)
            BY <2>2, <3>1, <3>2, SamePhase DEF Registered
        <3>4. Directory!End(b)
            BY <2>1, <3>1, <3>2, <3>3, EndStep
        <3>. QED  BY <3>4 DEF Directory!Next
    <2>. QED  BY <2>3, <2>4
<1>2. CASE StartListen(c)
    <2>1. CASE UNCHANGED bridgeVars
        <3>1. \A i \in Bridges : Phase(i)' = Phase(i)
            BY <1>2, <2>1, SamePhase DEF StartListen, bridgeVars, Registered
        <3>. QED  BY <1>2, <3>1, Stutter DEF StartListen
    <2>2. CASE ~UNCHANGED bridgeVars
        <3>1. PICK b \in Bridges :
                 /\ st[b] = "free" /\ st' = [st EXCEPT ![b] = "bound"]
                 /\ serial' = [serial EXCEPT ![b] = arg[c]]
            BY <1>2, <2>2 DEF StartListen
        <3>2. UNCHANGED items /\ st'[b] = "bound"
            BY <1>0, <1>2, <3>1 DEF StartListen, TypeOK
        <3>3. \A i \in Bridges : i # b => Phase(i)' = Phase(i)
            BY <1>0, <3>1, <3>2, SamePhase DEF Registered, TypeOK
        <3>4. Directory!Bind(b)
            BY <3>1, <3>2, <3>3, BindStep
        <3>. QED  BY <3>4 DEF Directory!Next
    <2>. QED  BY <2>1, <2>2
<1>3. CASE StopTake(c)
    <2>1. PICK s \in Serials : items[s] # NoItem /\ items' = [items EXCEPT ![s] = NoItem]
        BY <1>3 DEF StopTake
    <2>2. /\ items[s].id # 0 /\ UNCHANGED <<serial, st>>
          /\ \A t \in Serials : items'[t].id = IF t \in {s} THEN 0 ELSE items[t].id
        BY <1>3, <2>1, Facts DEF StopTake, NoItem, Fresh, None
    <2>3. Directory!Drop({s})
        BY <2>2, DropStep
    <2>. QED  BY <2>3 DEF Directory!Next
<1>4. CASE StartCheck(c) \/ StopReturns(c)
    <2>1. UNCHANGED <<items, serial, st>>
        BY <1>4 DEF StartCheck, StopReturns, bridgeVars
    <2>2. \A i \in Bridges : Phase(i)' = Phase(i)
        BY <2>1, SamePhase DEF Registered
    <2>. QED  BY <2>1, <2>2, Stutter
<1>. QED  BY <1>1, <1>2, <1>3, <1>4 DEF CallerStep

(* A bridge ends when its Serve returns, and is dropped when it unregisters. *)
LEMMA ServeDirectory ==
    ASSUME IInv, NEW b \in Bridges,
           \/ CloseOnCancel(b) \/ Accept(b) \/ AcceptFails(b)
           \/ ServeReturns(b) \/ Unregister(b)
           \/ SessionEnds(b) \/ CallDevice(b) \/ Report(b)
    PROVE  [Directory!Next]_Directory!vars
<1>0. TypeOK /\ serial' = serial
    BY DEF IInv, CloseOnCancel, Accept, AcceptFails, ServeReturns, Unregister, SessionEnds,
           CallDevice, Report, bridgeVars
<1>1. CASE ServeReturns(b)
    <2>1. UNCHANGED items /\ st' = [st EXCEPT ![b] = "done"] /\ st[b] = "drain"
        BY <1>1 DEF ServeReturns
    <2>2. st'[b] = "done" /\ \A i \in Bridges : i # b => st'[i] = st[i]
        BY <1>0, <2>1 DEF TypeOK
    <2>3. \A i \in Bridges : i # b => Phase(i)' = Phase(i)
        BY <1>0, <2>1, <2>2, SamePhase DEF Registered
    <2>4. Directory!End(b)
        BY <2>1, <2>2, <2>3, EndStep
    <2>. QED  BY <2>4 DEF Directory!Next
<1>2. CASE Unregister(b)
    <2>0. PICK S \in SUBSET Serials : S = {s \in Serials : items[s].id = b}
        OBVIOUS
    <2>1. /\ st[b] = "done" /\ st' = [st EXCEPT ![b] = "ended"]
          /\ \A s \in Serials : items'[s].id = IF s \in S THEN 0 ELSE items[s].id
        BY <1>2, <2>0, Facts DEF Unregister, NoItem, Fresh, None
    <2>2. \A s \in S : items[s].id # 0
        BY <2>0, Facts DEF None
    <2>3. \A i \in Bridges : st'[i] = st[i] \/ (st[i] = "done" /\ st'[i] = "ended")
        BY <1>0, <2>1 DEF TypeOK
    <2>4. Directory!Drop(S)
        BY <1>0, <2>1, <2>2, <2>3, DropStep
    <2>. QED  BY <2>4 DEF Directory!Next
<1>3. CASE ~(ServeReturns(b) \/ Unregister(b))
    <2>1. st' = st \/ (st[b] = "serve" /\ st' = [st EXCEPT ![b] = "drain"])
        BY <1>3 DEF CloseOnCancel, Accept, AcceptFails, SessionEnds, CallDevice, Report, bridgeVars
    <2>2. \A s \in Serials : items'[s].id = items[s].id
        <3>1. CASE Report(b)
            BY <1>0, <3>1, ClockParts, Facts DEF Report
        <3>2. CASE ~Report(b)
            BY <1>3, <3>2 DEF CloseOnCancel, Accept, AcceptFails, SessionEnds, CallDevice
        <3>. QED  BY <3>1, <3>2
    <2>3. \A i \in Bridges : Registered(i)' <=> Registered(i)
        BY <1>0, <2>2 DEF Registered, TypeOK
    <2>4. ASSUME NEW i \in Bridges PROVE Phase(i)' = Phase(i)
        <3>1. CASE st'[i] = st[i]
            BY <2>3, <3>1, SamePhase
        <3>2. CASE st[i] = "serve" /\ st'[i] = "drain"
            BY <2>3, <3>2, PhaseIs, NextPhaseIs
        <3>. QED  BY <1>0, <2>1, <3>1, <3>2 DEF TypeOK
    <2>. QED  BY <2>2, <2>4, Stutter
<1>. QED  BY <1>1, <1>2, <1>3

(* The reaper and StopAll drop the bridges they take; time and the flags of the end
   of the daemon are not seen. *)
LEMMA DaemonDirectory ==
    ASSUME IInv, Reaping \/ Tick \/ Shutdown \/ RunReturns \/ Ending
    PROVE  [Directory!Next]_Directory!vars
<1>1. UNCHANGED <<serial, st>>
    BY DEF Reaping, ReapTake, ReapCancel, ReapWait, ReaperEnds, Tick, Shutdown, RunReturns,
           Ending, StopAllTake, StopAllWait, RunJoins, bridgeVars
<1>2. CASE ReapTake \/ StopAllTake
    <2>1. PICK S \in SUBSET Serials :
             S = {s \in Serials : items[s].id # 0 /\ items'[s] = NoItem}
        OBVIOUS
    <2>2. \A s \in Serials : items'[s].id = IF s \in S THEN 0 ELSE items[s].id
        <3>1. \A s \in Serials : items'[s] = NoItem \/ items'[s] = items[s]
            BY <1>2 DEF ReapTake, StopAllTake
        <3>2. NoItem.id = 0
            BY DEF NoItem, Fresh, None
        <3>. QED  BY <2>1, <3>1, <3>2
    <2>3. Directory!Drop(S)
        BY <1>1, <2>1, <2>2, DropStep
    <2>. QED  BY <2>3 DEF Directory!Next
<1>3. CASE ~(ReapTake \/ StopAllTake)
    <2>1. \A s \in Serials : items'[s].id = items[s].id
        <3>1. CASE Tick
            <4>1. ASSUME NEW s \in Serials
                  PROVE  items'[s] = items[s] \/
                         items'[s] = Clock(items[s], Ticked(items[s].age), Ticked(items[s].quiet))
                BY <3>1 DEF Tick
            <4>. QED  BY <4>1, ClockParts
        <3>2. CASE ~Tick
            BY <1>3, <3>2 DEF Reaping, ReapCancel, ReapWait, ReaperEnds, Shutdown, RunReturns,
                              Ending, StopAllWait, RunJoins
        <3>. QED  BY <3>1, <3>2
    <2>2. \A i \in Bridges : Registered(i)' <=> Registered(i)
        BY <1>1, <2>1 DEF Registered, IInv, TypeOK
    <2>3. \A i \in Bridges : Phase(i)' = Phase(i)
        BY <1>1, <2>2, SamePhase
    <2>. QED  BY <2>1, <2>3, Stutter
<1>. QED  BY <1>2, <1>3

(* The registry implements its abstract specification: each of its steps lists,
   drops or ends a bridge of BridgeDirectory, or cannot be seen there.  So a device
   has at most one listed bridge, which is never replaced, and none comes back. *)
THEOREM Refinement == Spec => ImplementsDirectory
<1>1. IInv /\ [Next]_vars => [Directory!Next]_Directory!vars
    <2>. SUFFICES ASSUME IInv, [Next]_vars PROVE [Directory!Next]_Directory!vars
        OBVIOUS
    <2>1. CASE Next
        BY <2>1, CallerDirectory, ServeDirectory, DaemonDirectory DEF Next
    <2>2. CASE UNCHANGED vars
        <3>1. UNCHANGED <<items, serial, st>>
            BY <2>2 DEF vars, bridgeVars
        <3>2. \A i \in Bridges : Phase(i)' = Phase(i)
            BY <3>1, SamePhase DEF Registered
        <3>. QED  BY <3>1, <3>2, Stutter
    <2>. QED  BY <2>1, <2>2
<1>. QED  BY <1>1, InitDirectory, Invariance, PTL DEF Spec, ImplementsDirectory, Directory!Spec

=============================================================================
