-------------------------- MODULE ReverseManagerProofs --------------------------
(***************************************************************************)
(* Proofs about the reverse forwards of ReverseManager, for every set of   *)
(* goroutines and names and every number of commands.                      *)
(***************************************************************************)
EXTENDS ReverseManager, TLAPS

----------------------------------------------------------------------------
(* The inductive invariant                                                 *)

\* A forward in progress has an open listener of its own.
OwnInv ==
    /\ \A h \in Handlers : pc[h] \in ForwardLabels =>
          own[h] \in Listeners /\ listener[own[h]] = "open"
    /\ \A h \in Handlers : pc[h] \notin ForwardLabels => own[h] = None
    /\ \A h, g \in Handlers : own[h] # None /\ own[h] = own[g] => h = g

\* A listener is in one hand: a forward's, the map's, or a drain's.
HandInv ==
    /\ \A h \in Handlers, k \in Keys : own[h] # None => mappings[k] # own[h]
    /\ \A p \in Procs : \A m \in swept[p] :
          (\A k \in Keys : mappings[k] # m[2]) /\ (\A h \in Handlers : own[h] # m[2])

\* Listeners are numbered by the commands that opened them.
NumberInv ==
    /\ \A k \in Keys : mappings[k] <= commands
    /\ \A h \in Handlers : own[h] <= commands
    /\ \A p \in Procs : \A m \in swept[p] : m[2] <= commands

\* Only a sweep has drained mappings in hand.
SweptInv == \A p \in Procs : pc[p] # "sweep" => swept[p] = {}

\* Who holds which listener.
Hands == OwnInv /\ HandInv /\ NumberInv /\ SweptInv /\ MappedListenerOpen

\* Forwards in progress have different names, until rivals says otherwise.
RivalsInv ==
    rivals \/ \A h, g \in Handlers :
        Forwarding(h) /\ Forwarding(g) /\ local[h] = local[g] => h = g \/ local[h] = AutoPort

\* A device that answers in full resolves tcp:0: no mapping has that name.
ResolvedInv ==
    answered => /\ mappings[AutoPort] = None
                /\ \A h \in Handlers :
                      pc[h] \in {"evictResolved", "unforwardResolved", "insert"} =>
                          local[h] # AutoPort

\* A forward has evicted the mapping of its name: it will overwrite nothing.
EvictedInv ==
    (answered /\ ~rivals) =>
        \A h \in Handlers : pc[h] \in {"unforward", "install", "unforwardResolved", "insert"} =>
            mappings[local[h]] = None

Orphans == RivalsInv /\ ResolvedInv /\ EvictedInv /\ NoOrphanListener

\* Commands in progress work on different names, until clash says otherwise.
ClashInv == clash \/ \A p, q \in Procs : p # q => Working(p) \cap Working(q) = {}

\* What a command knows of the two tables at its own name, from label to label.
Holds(h) ==
    /\ pc[h] \in {"check", "evict", "kill"} => dev[local[h]] = mappings[local[h]]
    /\ pc[h] \in {"unforward", "install", "killDevice", "evictResolved", "insert"} =>
          mappings[local[h]] = None
    /\ pc[h] = "install" => dev[local[h]] = None
    /\ pc[h] \in {"evictResolved", "insert"} => dev[local[h]] = own[h]
    /\ pc[h] = "evictResolved" => local[h] # AutoPort
    /\ pc[h] # "unforwardResolved"

AgreeInv ==
    (answered /\ ~clash) =>
        /\ \A k \in Keys : (\A p \in Procs : k \notin Working(p)) => dev[k] = mappings[k]
        /\ \A h \in Handlers : Holds(h)
        /\ \A p \in Procs : \A m \in swept[p] : mappings[m[1]] = None

Tables == ClashInv /\ AgreeInv

IInv == TypeOK /\ Hands /\ Orphans /\ Tables

----------------------------------------------------------------------------
(* Types                                                                   *)

Labels == ForwardLabels \cup {"idle", "kill", "killDevice", "drain", "sweep", "end"}

LEMMA NoneNotListener == None \notin Listeners
BY DEF None, Listeners

(* The two halves of evict, as their four uses run them. *)
LEMMA EvictTypeOK ==
    ASSUME TypeOK, NEW h \in Handlers, NEW from, NEW told \in Labels, NEW next \in Labels,
           Evict(h, from, told, next)
    PROVE  TypeOK'
<1>1. pc' \in [Procs -> Labels]
    BY DEF Evict, TypeOK, Goto, Labels
<1>2. /\ mappings' \in [Keys -> Listeners \cup {None}]
      /\ listener' \in [Listeners -> {"free", "open", "closed"}]
    BY DEF Evict, TypeOK, Remove, CloseListener
<1>3. UNCHANGED <<dev, local, own, swept, commands, history>>
    BY DEF Evict
<1>. QED  BY <1>1, <1>2, <1>3 DEF TypeOK, Labels, history

LEMMA UnforwardTypeOK ==
    ASSUME TypeOK, NEW h \in Handlers, NEW from, NEW next \in Labels, Unforward(h, from, next)
    PROVE  TypeOK'
<1>1. pc' \in [Procs -> Labels]
    BY DEF Unforward, TypeOK, Goto, Labels
<1>2. dev' \in [Keys -> Listeners \cup {None}] /\ answered' \in BOOLEAN
    BY DEF Unforward, TypeOK, DeviceKills, DeviceErrs
<1>3. UNCHANGED <<mappings, listener, local, own, swept, commands, rivals, clash>>
    BY DEF Unforward
<1>. QED  BY <1>1, <1>2, <1>3 DEF TypeOK, Labels

LEMMA GiveUpTypeOK ==
    ASSUME TypeOK, NEW h \in Handlers, GiveUp(h)
    PROVE  /\ pc' \in [Procs -> Labels] /\ own' \in [Handlers -> Listeners \cup {None}]
           /\ listener' \in [Listeners -> {"free", "open", "closed"}]
BY DEF GiveUp, TypeOK, CloseListener, Goto, Labels

LEMMA GhostTypeOK ==
    ASSUME TypeOK, NEW p, NEW K, Takes(p, K)
    PROVE  clash' \in BOOLEAN
BY Zenon DEF Takes

LEMMA RivalTypeOK ==
    ASSUME TypeOK, NEW h, NEW k, ForwardsName(h, k)
    PROVE  clash' \in BOOLEAN /\ rivals' \in BOOLEAN
<1>1. Takes(h, {k}) /\ rivals' \in BOOLEAN
    BY Zenon DEF ForwardsName
<1>. QED  BY <1>1, GhostTypeOK

LEMMA StartTypeOK ==
    ASSUME TypeOK, NEW h \in Handlers, StartForward(h) \/ StartKill(h) \/ StartKillAll(h)
    PROVE  TypeOK'
<1>1. /\ commands + 1 \in Listeners /\ commands' \in 0 .. MaxCommands
      /\ UNCHANGED <<mappings, dev, swept, answered>>
    <2>1. Starts(h)
        BY DEF StartForward, StartKill, StartKillAll
    <2>2. commands + 1 \in Listeners /\ commands' \in 0 .. MaxCommands
        BY <2>1, ReverseAssumption DEF Starts, TypeOK, Listeners
    <2>. QED  BY <2>1, <2>2 DEF Starts
<1>2. pc' \in [Procs -> Labels]
    BY DEF StartForward, StartKill, StartKillAll, TypeOK, Goto, Labels, ForwardLabels
<1>3. CASE StartForward(h)
    <2>1. PICK k \in Keys : local' = [local EXCEPT ![h] = k] /\ ForwardsName(h, k)
        BY <1>3 DEF StartForward
    <2>2. local' \in [Handlers -> Keys] /\ clash' \in BOOLEAN /\ rivals' \in BOOLEAN
        BY <2>1, RivalTypeOK DEF TypeOK
    <2>3. /\ own' \in [Handlers -> Listeners \cup {None}]
          /\ listener' \in [Listeners -> {"free", "open", "closed"}]
        BY <1>1, <1>3 DEF StartForward, TypeOK
    <2>. QED  BY <1>1, <1>2, <2>2, <2>3 DEF TypeOK, Labels
<1>4. CASE StartKill(h)
    <2>1. PICK k \in Keys : local' = [local EXCEPT ![h] = k] /\ Takes(h, {k})
        BY <1>4 DEF StartKill
    <2>2. local' \in [Handlers -> Keys] /\ clash' \in BOOLEAN
        BY <2>1, GhostTypeOK DEF TypeOK
    <2>. QED  BY <1>1, <1>2, <1>4, <2>2 DEF StartKill, TypeOK, Labels
<1>5. CASE StartKillAll(h)
    BY <1>1, <1>2, <1>5 DEF StartKillAll, TypeOK, Labels
<1>. QED  BY <1>3, <1>4, <1>5

\* A device name is a name or a port.
LEMMA ChoicesAreKeys ==
    ASSUME TypeOK, NEW h \in Handlers
    PROVE  /\ Choices(h) \subseteq Keys \ {AutoPort} \/ local[h] = AutoPort
           /\ Choices(h) \subseteq Keys
           /\ local[h] = AutoPort => Choices(h) \subseteq Ports /\ AutoPort \notin Ports
BY ReverseAssumption DEF Choices, Keys, TypeOK

LEMMA InstallTypeOK ==
    ASSUME TypeOK, NEW h \in Handlers,
           Install(h) \/ InstallUnresolved(h) \/ InstallRefused(h) \/ InstallFails(h)
    PROVE  TypeOK'
<1>1. CASE Install(h)
    <2>1. PICK k \in Keys : /\ dev' = [dev EXCEPT ![k] = own[h]]
                            /\ local' = [local EXCEPT ![h] = k]
                            /\ ForwardsName(h, k)
        BY <1>1, ChoicesAreKeys DEF Install
    <2>2. pc' \in [Procs -> Labels]
        BY <1>1 DEF Install, TypeOK, Goto, Labels, ForwardLabels
    <2>3. /\ dev' \in [Keys -> Listeners \cup {None}] /\ local' \in [Handlers -> Keys]
          /\ clash' \in BOOLEAN /\ rivals' \in BOOLEAN
        BY <2>1, RivalTypeOK DEF TypeOK
    <2>. QED  BY <1>1, <2>2, <2>3 DEF Install, TypeOK, Labels
<1>2. CASE InstallUnresolved(h)
    <2>1. dev' \in [Keys -> Listeners \cup {None}]
        BY <1>2, ChoicesAreKeys DEF InstallUnresolved, TypeOK
    <2>2. pc' \in [Procs -> Labels]
        BY <1>2 DEF InstallUnresolved, TypeOK, Goto, Labels, ForwardLabels
    <2>. QED  BY <1>2, <2>1, <2>2 DEF InstallUnresolved, TypeOK, Labels
<1>3. CASE InstallRefused(h)
    BY <1>3, GiveUpTypeOK DEF InstallRefused, TypeOK, Labels, history
<1>4. CASE InstallFails(h)
    <2>1. dev' \in [Keys -> Listeners \cup {None}]
        BY <1>4, ChoicesAreKeys DEF InstallFails, TypeOK
    <2>. QED  BY <1>4, <2>1, GiveUpTypeOK DEF InstallFails, TypeOK, Labels
<1>. QED  BY <1>1, <1>2, <1>3, <1>4

LEMMA ForwardTypeOK ==
    ASSUME TypeOK, NEW h \in Handlers, Forward(h)
    PROVE  TypeOK'
<1>1. CASE Check(h)
    <2>1. /\ pc' \in [Procs -> Labels] /\ own' \in [Handlers -> Listeners \cup {None}]
          /\ listener' \in [Listeners -> {"free", "open", "closed"}]
        <3>1. CASE GiveUp(h)
            BY <3>1, GiveUpTypeOK
        <3>2. CASE Goto(h, "evict") /\ UNCHANGED <<listener, own>>
            BY <3>2 DEF Goto, TypeOK, Labels, ForwardLabels
        <3>. QED  BY <1>1, <3>1, <3>2 DEF Check
    <2>. QED  BY <1>1, <2>1 DEF Check, TypeOK, Labels, history
<1>2. CASE EvictLocal(h) \/ EvictResolved(h)
    BY <1>2, EvictTypeOK DEF EvictLocal, EvictResolved, Labels, ForwardLabels
<1>3. CASE UnforwardLocal(h) \/ UnforwardResolved(h)
    BY <1>3, UnforwardTypeOK DEF UnforwardLocal, UnforwardResolved, Labels, ForwardLabels
<1>4. CASE Insert(h)
    <2>1. /\ mappings' \in [Keys -> Listeners \cup {None}]
          /\ own' \in [Handlers -> Listeners \cup {None}]
        BY <1>4 DEF Insert, TypeOK
    <2>2. pc' \in [Procs -> Labels]
        BY <1>4 DEF Insert, TypeOK, Goto, Labels
    <2>. QED  BY <1>4, <2>1, <2>2 DEF Insert, TypeOK, Labels, history
<1>. QED  BY <1>1, <1>2, <1>3, <1>4, InstallTypeOK DEF Forward

LEMMA KillTypeOK ==
    ASSUME TypeOK, NEW h \in Handlers, Kill(h) \/ KillDevice(h)
    PROVE  TypeOK'
<1>1. CASE Kill(h)
    BY <1>1 DEF Kill, TypeOK, Remove, CloseListener, Goto, history
<1>2. CASE KillDevice(h)
    BY <1>2, UnforwardTypeOK DEF KillDevice, Labels
<1>. QED  BY <1>1, <1>2

LEMMA SweepingTypeOK ==
    ASSUME TypeOK, NEW p \in Procs, Sweeping(p)
    PROVE  TypeOK'
<1>1. CASE Drain(p)
    <2>1. /\ mappings' \in [Keys -> Listeners \cup {None}]
          /\ swept' \in [Procs -> SUBSET (Keys \X Listeners)]
        BY <1>1 DEF Drain, TypeOK, Mapped
    <2>2. pc' \in [Procs -> Labels]
        BY <1>1 DEF Drain, TypeOK, Goto, Labels
    <2>3. clash' \in BOOLEAN
        BY <1>1, GhostTypeOK DEF Drain
    <2>. QED  BY <1>1, <2>1, <2>2, <2>3 DEF Drain, TypeOK, Labels
<1>2. CASE Sweep(p) \/ SweepFails(p)
    <2>1. PICK m \in Keys \X Listeners :
             /\ m \in swept[p] /\ CloseListener(m[2])
             /\ DeviceKills(m[1]) \/ DeviceErrs(m[1])
        <3>1. swept[p] \subseteq Keys \X Listeners
            BY DEF TypeOK
        <3>. QED  BY <1>2, <3>1 DEF Sweep, SweepFails
    <2>2. /\ listener' \in [Listeners -> {"free", "open", "closed"}]
          /\ dev' \in [Keys -> Listeners \cup {None}] /\ answered' \in BOOLEAN
        BY <2>1 DEF TypeOK, CloseListener, DeviceKills, DeviceErrs
    <2>3. swept' \in [Procs -> SUBSET (Keys \X Listeners)] /\ pc' \in [Procs -> Labels]
        BY <1>2 DEF Sweep, SweepFails, TypeOK, Goto, Labels
    <2>. QED  BY <1>2, <2>2, <2>3 DEF Sweep, SweepFails, TypeOK, Labels
<1>3. CASE SweepEnds(p)
    BY <1>3 DEF SweepEnds, TypeOK, Goto, Return, history
<1>. QED  BY <1>1, <1>2, <1>3 DEF Sweeping

LEMMA OtherTypeOK ==
    ASSUME TypeOK, StartCloseAll \/ DeviceForgets
    PROVE  TypeOK'
<1>1. CASE StartCloseAll
    BY <1>1 DEF StartCloseAll, TypeOK, Goto, history
<1>2. CASE DeviceForgets
    <2>1. dev' \in [Keys -> Listeners \cup {None}]
        BY <1>2 DEF DeviceForgets
    <2>. QED  BY <1>2, <2>1 DEF DeviceForgets, TypeOK
<1>. QED  BY <1>1, <1>2

LEMMA InitTypeOK == Init => TypeOK
<1>. SUFFICES ASSUME Init PROVE TypeOK
    OBVIOUS
<1>1. answered \in BOOLEAN /\ rivals \in BOOLEAN /\ clash \in BOOLEAN
    BY Zenon DEF Init
<1>2. commands \in 0 .. MaxCommands /\ local \in [Handlers -> Keys]
    BY ReverseAssumption DEF Init, Keys
<1>. QED  BY <1>1, <1>2 DEF Init, TypeOK

(* TypeOK is inductive by itself: tables, goroutines and listeners keep their types. *)
THEOREM TypeCorrect == Spec => []TypeOK
<1>1. TypeOK /\ [Next]_vars => TypeOK'
    <2>. SUFFICES ASSUME TypeOK, [Next]_vars PROVE TypeOK'
        OBVIOUS
    <2>1. CASE Next
        BY <2>1, StartTypeOK, ForwardTypeOK, KillTypeOK, SweepingTypeOK, OtherTypeOK DEF Next
    <2>2. CASE UNCHANGED vars
        BY <2>2 DEF vars, history, TypeOK
    <2>. QED  BY <2>1, <2>2
<1>. QED  BY <1>1, InitTypeOK, PTL DEF Spec

----------------------------------------------------------------------------
(* Listeners are held by one hand                                          *)

(* What the proofs of the steps use of one goroutine. *)
LEMMA HandFacts ==
    ASSUME TypeOK, Hands
    PROVE  /\ \A h \in Handlers : h \in Procs /\ h # Closer
           /\ \A h \in Handlers : own[h] # None => listener[own[h]] = "open" /\ own[h] \in Listeners
           /\ \A k \in Keys : mappings[k] # None =>
                 listener[mappings[k]] = "open" /\ mappings[k] \in Listeners
           /\ \A p \in Procs : \A m \in swept[p] : m[2] \in Listeners
           /\ None \notin Listeners /\ Listeners \subseteq Nat /\ None \in Nat
           /\ commands \in Nat /\ None <= commands
<1>1. \A p \in Procs : swept[p] \in SUBSET (Keys \X Listeners)
    BY DEF TypeOK
<1>2. None \notin Listeners /\ Listeners \subseteq Nat /\ None \in Nat
    BY DEF Listeners, None
<1>3. commands \in Nat /\ None <= commands
    BY ReverseAssumption DEF TypeOK, None
<1>. QED
    BY <1>1, <1>2, <1>3, ReverseAssumption DEF TypeOK, Hands, OwnInv, MappedListenerOpen, Procs

LEMMA InitHands == Init => Hands
BY ReverseAssumption DEF Init, Hands, OwnInv, HandInv, NumberInv, SweptInv,
    MappedListenerOpen, ForwardLabels, Procs, None, Listeners

(* A command starts with a listener nobody has yet, or with none. *)
LEMMA StartHands ==
    ASSUME TypeOK, Hands, NEW h \in Handlers, StartForward(h) \/ StartKill(h) \/ StartKillAll(h)
    PROVE  Hands'
<1>1. /\ commands \in Nat /\ commands' = commands + 1 /\ commands + 1 \in Listeners
      /\ pc[h] = "idle" /\ UNCHANGED <<mappings, swept>>
    BY ReverseAssumption DEF StartForward, StartKill, StartKillAll, Starts, TypeOK, Listeners
<1>2. NumberInv /\ HandInv /\ OwnInv /\ SweptInv /\ MappedListenerOpen
    BY DEF Hands
<1>3. SweptInv'
    BY <1>1, <1>2, HandFacts
    DEF StartForward, StartKill, StartKillAll, Goto, SweptInv, TypeOK
<1>4. CASE StartForward(h)
    <2>1. /\ own' = [own EXCEPT ![h] = commands + 1]
          /\ listener' = [listener EXCEPT ![commands + 1] = "open"]
          /\ pc' = [pc EXCEPT ![h] = "check"]
        BY <1>4 DEF StartForward, Goto
    <2>2. OwnInv'
        BY <1>1, <1>2, <2>1, HandFacts DEF OwnInv, NumberInv, TypeOK, ForwardLabels, None, Listeners
    <2>3. HandInv'
        BY <1>1, <1>2, <2>1, HandFacts DEF HandInv, NumberInv, TypeOK, Listeners, None
    <2>4. NumberInv'
        BY <1>1, <1>2, <2>1, HandFacts DEF NumberInv, TypeOK
    <2>5. MappedListenerOpen'
        BY <1>1, <1>2, <2>1 DEF MappedListenerOpen, TypeOK
    <2>. QED  BY <1>3, <2>2, <2>3, <2>4, <2>5 DEF Hands
<1>5. CASE StartKill(h) \/ StartKillAll(h)
    <2>1. UNCHANGED <<own, listener>> /\ \E l \in {"kill", "drain"} : pc' = [pc EXCEPT ![h] = l]
        BY <1>5 DEF StartKill, StartKillAll, Goto
    <2>2. OwnInv' /\ HandInv'
        BY <1>1, <1>2, <2>1, HandFacts DEF OwnInv, HandInv, TypeOK, ForwardLabels
    <2>3. NumberInv'
        BY <1>1, <1>2, <2>1, HandFacts DEF NumberInv, TypeOK
    <2>4. MappedListenerOpen'
        BY <1>1, <1>2, <2>1 DEF MappedListenerOpen
    <2>. QED  BY <1>3, <2>2, <2>3, <2>4 DEF Hands
<1>. QED  BY <1>4, <1>5

(* A forward that gives up closes its own listener, which nobody else holds. *)
LEMMA GiveUpHands ==
    ASSUME TypeOK, Hands, NEW h \in Handlers, pc[h] \in ForwardLabels, GiveUp(h),
           UNCHANGED <<mappings, swept, commands>>
    PROVE  Hands'
<1>1. own[h] \in Listeners /\ own[h] # None
    BY NoneNotListener DEF Hands, OwnInv
<1>2. /\ own' = [own EXCEPT ![h] = None] /\ pc' = [pc EXCEPT ![h] = "idle"]
      /\ listener' = [listener EXCEPT ![own[h]] = "closed"]
    BY DEF GiveUp, CloseListener, Goto
<1>3. NumberInv /\ HandInv /\ OwnInv /\ SweptInv /\ MappedListenerOpen
    BY DEF Hands
<1>4. OwnInv' /\ SweptInv'
    BY <1>1, <1>2, <1>3, HandFacts DEF OwnInv, SweptInv, TypeOK, ForwardLabels
<1>5. HandInv' /\ NumberInv'
    BY <1>1, <1>2, <1>3, HandFacts DEF HandInv, NumberInv, TypeOK
<1>6. MappedListenerOpen'
    BY <1>1, <1>2, <1>3 DEF MappedListenerOpen, HandInv, TypeOK
<1>. QED  BY <1>4, <1>5, <1>6 DEF Hands

(* A goroutine of a forward that moves on keeps its listener. *)
LEMMA MoveHands ==
    ASSUME TypeOK, Hands, NEW h \in Handlers, NEW l \in Labels \ {"sweep"}, Goto(h, l),
           pc[h] # "sweep", pc[h] \in ForwardLabels <=> l \in ForwardLabels,
           UNCHANGED <<mappings, listener, own, swept, commands>>
    PROVE  Hands'
<1>1. pc' = [pc EXCEPT ![h] = l]
    BY DEF Goto
<1>2. OwnInv' /\ SweptInv'
    BY <1>1, HandFacts DEF Hands, OwnInv, SweptInv, TypeOK
<1>3. HandInv' /\ NumberInv' /\ MappedListenerOpen'
    BY DEF Hands, HandInv, NumberInv, MappedListenerOpen
<1>. QED  BY <1>2, <1>3 DEF Hands

(* A mapping is removed together with its listener, which no other name has. *)
LEMMA RemoveHands ==
    ASSUME TypeOK, Hands, NEW h \in Handlers, NEW l \in Labels \ {"sweep"}, Goto(h, l),
           pc[h] # "sweep", pc[h] \in ForwardLabels <=> l \in ForwardLabels,
           NEW k \in Keys, mappings[k] # None, Remove(k),
           UNCHANGED <<own, swept, commands>>
    PROVE  Hands'
<1>1. /\ pc' = [pc EXCEPT ![h] = l] /\ mappings' = [mappings EXCEPT ![k] = None]
      /\ listener' = [listener EXCEPT ![mappings[k]] = "closed"]
    BY DEF Goto, Remove, CloseListener
<1>2. NumberInv /\ HandInv /\ OwnInv /\ SweptInv /\ MappedListenerOpen
    BY DEF Hands
<1>3. mappings[k] \in Listeners
    BY DEF TypeOK
<1>4. OwnInv' /\ SweptInv'
    BY <1>1, <1>2, <1>3, HandFacts DEF OwnInv, SweptInv, HandInv, TypeOK
<1>5. HandInv' /\ NumberInv'
    BY <1>1, <1>2, <1>3, HandFacts DEF HandInv, NumberInv, TypeOK, None
<1>6. MappedListenerOpen'
    BY <1>1, <1>2, <1>3 DEF MappedListenerOpen, TypeOK
<1>. QED  BY <1>4, <1>5, <1>6 DEF Hands

(* evict, kill and the device's part of both. *)
LEMMA EvictHands ==
    ASSUME TypeOK, Hands, NEW h \in Handlers, NEW from \in Labels, NEW told \in Labels \ {"sweep"},
           NEW next \in Labels \ {"sweep"}, Evict(h, from, told, next), from # "sweep",
           from \in ForwardLabels, told \in ForwardLabels, next \in ForwardLabels
    PROVE  Hands'
<1>1. local[h] \in Keys
    BY DEF TypeOK
<1>2. CASE mappings[local[h]] # None
    BY <1>1, <1>2, RemoveHands DEF Evict
<1>3. CASE mappings[local[h]] = None
    BY <1>3, MoveHands DEF Evict
<1>. QED  BY <1>2, <1>3

LEMMA ForwardHands ==
    ASSUME TypeOK, Hands, NEW h \in Handlers, Forward(h)
    PROVE  Hands'
<1>1. CASE Check(h)
    <2>1. CASE GiveUp(h)
        BY <1>1, <2>1, GiveUpHands DEF Check, ForwardLabels
    <2>2. CASE Goto(h, "evict") /\ UNCHANGED <<listener, own>>
        BY <1>1, <2>2, MoveHands DEF Check, ForwardLabels, Labels
    <2>. QED  BY <1>1, <2>1, <2>2 DEF Check
<1>2. CASE EvictLocal(h)
    BY <1>2, EvictHands DEF EvictLocal, ForwardLabels, Labels
<1>3. CASE UnforwardLocal(h)
    BY <1>3, MoveHands DEF UnforwardLocal, Unforward, ForwardLabels, Labels
<1>4. CASE Install(h) \/ InstallUnresolved(h)
    <2>1. PICK l \in {"evictResolved", "insert"} : Goto(h, l)
        BY <1>4 DEF Install, InstallUnresolved
    <2>. QED  BY <1>4, <2>1, MoveHands DEF Install, InstallUnresolved, ForwardLabels, Labels
<1>5. CASE InstallRefused(h) \/ InstallFails(h)
    BY <1>5, GiveUpHands DEF InstallRefused, InstallFails, ForwardLabels
<1>6. CASE EvictResolved(h)
    BY <1>6, EvictHands DEF EvictResolved, ForwardLabels, Labels
<1>7. CASE UnforwardResolved(h)
    BY <1>7, MoveHands DEF UnforwardResolved, Unforward, ForwardLabels, Labels
<1>8. CASE Insert(h)
    <2>1. /\ mappings' = [mappings EXCEPT ![local[h]] = own[h]]
          /\ own' = [own EXCEPT ![h] = None] /\ pc' = [pc EXCEPT ![h] = "idle"]
          /\ UNCHANGED <<listener, swept, commands>>
        BY <1>8 DEF Insert, Goto
    <2>2. NumberInv /\ HandInv /\ OwnInv /\ SweptInv /\ MappedListenerOpen
        BY DEF Hands
    <2>3. own[h] \in Listeners /\ own[h] # None /\ local[h] \in Keys /\ listener[own[h]] = "open"
          /\ pc[h] = "insert"
        BY <1>8, <2>2, HandFacts DEF Insert, OwnInv, ForwardLabels, TypeOK
    <2>4. OwnInv' /\ SweptInv'
        BY <2>1, <2>2, <2>3, HandFacts DEF OwnInv, SweptInv, TypeOK, ForwardLabels
    <2>5. HandInv'
        BY <2>1, <2>2, <2>3, HandFacts DEF HandInv, OwnInv, TypeOK
    <2>6. NumberInv'
        BY <2>1, <2>2, <2>3, HandFacts DEF NumberInv, TypeOK
    <2>7. MappedListenerOpen'
        BY <2>1, <2>2, <2>3, HandFacts DEF MappedListenerOpen, HandInv, TypeOK
    <2>. QED  BY <2>4, <2>5, <2>6, <2>7 DEF Hands
<1>. QED  BY <1>1, <1>2, <1>3, <1>4, <1>5, <1>6, <1>7, <1>8 DEF Forward

LEMMA KillHands ==
    ASSUME TypeOK, Hands, NEW h \in Handlers, Kill(h) \/ KillDevice(h)
    PROVE  Hands'
<1>1. local[h] \in Keys
    BY DEF TypeOK
<1>2. CASE Kill(h) /\ mappings[local[h]] # None
    BY <1>1, <1>2, RemoveHands DEF Kill, ForwardLabels, Labels
<1>3. CASE Kill(h) /\ mappings[local[h]] = None
    BY <1>3, MoveHands DEF Kill, ForwardLabels, Labels
<1>4. CASE KillDevice(h)
    BY <1>4, MoveHands DEF KillDevice, Unforward, ForwardLabels, Labels
<1>. QED  BY <1>2, <1>3, <1>4

(* A drain moves every mapping into one hand; a sweep closes what it holds, which
   nobody else does. *)
LEMMA SweepingHands ==
    ASSUME TypeOK, Hands, NEW p \in Procs, Sweeping(p)
    PROVE  Hands'
<1>1. NumberInv /\ HandInv /\ OwnInv /\ SweptInv /\ MappedListenerOpen
    BY DEF Hands
<1>2. CASE Drain(p)
    <2>1. /\ \A k \in Keys : mappings'[k] = None
          /\ \A q \in Procs : swept'[q] =
                IF q = p THEN {<<k, mappings[k]>> : k \in {j \in Keys : mappings[j] # None}}
                         ELSE swept[q]
          /\ pc[p] = "drain" /\ pc' = [pc EXCEPT ![p] = "sweep"]
          /\ UNCHANGED <<listener, own, commands>>
        BY <1>2 DEF Drain, Goto, TypeOK, Mapped
    <2>2. swept[p] = {}
        BY <1>1, <2>1 DEF SweptInv
    <2>3. \A m \in swept'[p] : \E k \in Keys : mappings[k] # None /\ m = <<k, mappings[k]>>
        BY <2>1
    <2>4. \A k \in Keys : mappings[k] # None => <<k, mappings[k]>> \in swept'[p]
        BY <2>1
    <2>5. OwnInv' /\ SweptInv'
        BY <1>1, <2>1, HandFacts DEF OwnInv, SweptInv, TypeOK, ForwardLabels
    <2>6. HandInv' /\ NumberInv'
        <3>1. ASSUME NEW q \in Procs, NEW m \in swept'[q]
              PROVE  /\ \A k \in Keys : mappings'[k] # m[2]
                     /\ \A h \in Handlers : own'[h] # m[2]
                     /\ m[2] <= commands'
            <4>1. CASE q = p
                <5>1. PICK k \in Keys : mappings[k] # None /\ m = <<k, mappings[k]>>
                    BY <2>3, <4>1, <3>1
                <5>. QED  BY <1>1, <2>1, <5>1, HandFacts DEF HandInv, NumberInv
            <4>2. CASE q # p
                <5>1. m \in swept[q]
                    BY <2>1, <3>1, <4>2
                <5>. QED  BY <1>1, <2>1, <5>1, HandFacts DEF HandInv, NumberInv
            <4>. QED  BY <4>1, <4>2
        <3>2. /\ \A h \in Handlers, k \in Keys : own'[h] # None => mappings'[k] # own'[h]
              /\ \A k \in Keys : mappings'[k] <= commands'
              /\ \A h \in Handlers : own'[h] <= commands'
            BY <1>1, <2>1, HandFacts DEF NumberInv
        <3>. QED  BY <3>1, <3>2 DEF HandInv, NumberInv
    <2>7. MappedListenerOpen'
        BY <2>1 DEF MappedListenerOpen
    <2>. QED  BY <2>5, <2>6, <2>7 DEF Hands
<1>3. CASE Sweep(p) \/ SweepFails(p)
    <2>1. PICK m \in swept[p] :
             /\ CloseListener(m[2])
             /\ \/ /\ swept' = [swept EXCEPT ![p] = @ \ {m}] /\ UNCHANGED pc
                \/ /\ p # Closer /\ swept' = [swept EXCEPT ![p] = {}]
                   /\ pc' = [pc EXCEPT ![p] = "idle"]
        BY <1>3 DEF Sweep, SweepFails, Goto
    <2>2. /\ m[2] \in Listeners /\ \A h \in Handlers : own[h] # m[2]
          /\ \A k \in Keys : mappings[k] # m[2]
          /\ listener' = [listener EXCEPT ![m[2]] = "closed"]
          /\ pc[p] = "sweep" /\ UNCHANGED <<mappings, own, commands>>
        BY <1>1, <1>3, <2>1, HandFacts DEF HandInv, Sweep, SweepFails, CloseListener
    <2>3. \A q \in Procs : swept'[q] \subseteq swept[q]
        BY <2>1 DEF TypeOK
    <2>4. OwnInv' /\ MappedListenerOpen'
        BY <1>1, <2>1, <2>2, HandFacts DEF OwnInv, MappedListenerOpen, TypeOK, ForwardLabels
    <2>5. HandInv' /\ NumberInv'
        BY <1>1, <2>2, <2>3 DEF HandInv, NumberInv
    <2>6. SweptInv'
        BY <1>1, <2>1, <2>2 DEF SweptInv, TypeOK
    <2>. QED  BY <2>4, <2>5, <2>6 DEF Hands
<1>4. CASE SweepEnds(p)
    <2>1. /\ pc[p] = "sweep" /\ swept[p] = {}
          /\ \E l \in {"idle", "end"} : pc' = [pc EXCEPT ![p] = l]
          /\ UNCHANGED <<mappings, listener, own, swept, commands>>
        BY <1>4 DEF SweepEnds, Goto, Return
    <2>2. OwnInv' /\ SweptInv'
        BY <1>1, <2>1, HandFacts DEF OwnInv, SweptInv, TypeOK, ForwardLabels
    <2>3. HandInv' /\ NumberInv' /\ MappedListenerOpen'
        BY <1>1, <2>1 DEF HandInv, NumberInv, MappedListenerOpen
    <2>. QED  BY <2>2, <2>3 DEF Hands
<1>. QED  BY <1>2, <1>3, <1>4 DEF Sweeping

LEMMA OtherHands ==
    ASSUME TypeOK, Hands, StartCloseAll \/ DeviceForgets
    PROVE  Hands'
<1>1. /\ UNCHANGED <<mappings, listener, own, swept, commands>>
      /\ pc' = pc \/ (pc[Closer] = "idle" /\ pc' = [pc EXCEPT ![Closer] = "drain"])
    BY DEF StartCloseAll, DeviceForgets, Goto
<1>2. OwnInv' /\ SweptInv'
    BY <1>1, HandFacts DEF Hands, OwnInv, SweptInv, TypeOK, Procs
<1>3. HandInv' /\ NumberInv' /\ MappedListenerOpen'
    BY <1>1 DEF Hands, HandInv, NumberInv, MappedListenerOpen
<1>. QED  BY <1>2, <1>3 DEF Hands


----------------------------------------------------------------------------
(* No listener is forgotten                                                *)

LEMMA InitOrphans == Init => Orphans
<1>. SUFFICES ASSUME Init PROVE Orphans
    OBVIOUS
<1>1. \A h \in Handlers : pc[h] = "idle"
    BY DEF Init, Procs
<1>2. mappings[AutoPort] = None /\ \A l \in Listeners : listener[l] = "free"
    BY DEF Init, Keys
<1>. QED
    BY <1>1, <1>2
    DEF Orphans, RivalsInv, ResolvedInv, EvictedInv, NoOrphanListener, Forwarding, ForwardLabels

(* What h knew of its rivals still holds after a step of h that takes no name. *)
LEMMA SameRivals ==
    ASSUME TypeOK, RivalsInv, NEW h \in Handlers, NEW l \in Labels, Goto(h, l),
           l \in ForwardLabels => pc[h] \in ForwardLabels,
           rivals' = rivals, local' = local
    PROVE  RivalsInv'
BY DEF RivalsInv, Forwarding, Goto, TypeOK, Procs

(* A forward that takes a name of its own has it for itself, or rivals says so. *)
LEMMA NewRival ==
    ASSUME TypeOK, RivalsInv, NEW h \in Handlers, NEW k \in Keys, ForwardsName(h, k),
           local' = [local EXCEPT ![h] = k], NEW l \in ForwardLabels, Goto(h, l)
    PROVE  RivalsInv' /\ (~rivals' => ~rivals)
<1>1. ~rivals' => ~rivals
    BY DEF ForwardsName
<1>2. ASSUME ~rivals', NEW g \in Handlers, g # h, Forwarding(g)', local'[g] = k, k # AutoPort
      PROVE  FALSE
    <2>1. Forwarding(g) /\ local[g] = k /\ g \in Procs
        BY <1>2 DEF Forwarding, Goto, TypeOK, Procs
    <2>2. k \in Working(g)
        BY <1>2, <2>1 DEF Working, Forwarding
    <2>. QED  BY <1>2, <2>1, <2>2 DEF ForwardsName
<1>3. ASSUME ~rivals', NEW g \in Handlers, NEW f \in Handlers, g # h, f # h,
             Forwarding(g)', Forwarding(f)', local'[g] = local'[f]
      PROVE  g = f \/ local'[g] = AutoPort
    BY <1>1, <1>3 DEF RivalsInv, Forwarding, Goto, TypeOK, Procs
<1>4. local'[h] = k
    BY DEF TypeOK
<1>. QED  BY <1>1, <1>2, <1>3, <1>4 DEF RivalsInv

(* A mapping is only removed: nobody's name gets one. *)
LEMMA FewerMappings ==
    ASSUME TypeOK, ResolvedInv, EvictedInv, NEW h \in Handlers, NEW l \in Labels, Goto(h, l),
           \A k \in Keys : mappings'[k] \in {mappings[k], None},
           answered' => answered, ~rivals' => ~rivals, local' = local,
           answered' /\ l \in {"evictResolved", "unforwardResolved", "insert"} =>
              local[h] # AutoPort,
           l \in {"unforward", "install", "unforwardResolved", "insert"} /\ answered' /\ ~rivals' =>
              mappings'[local[h]] = None
    PROVE  ResolvedInv' /\ EvictedInv'
<1>1. \A g \in Handlers : pc'[g] = IF g = h THEN l ELSE pc[g]
    BY DEF Goto, TypeOK, Procs
<1>2. \A g \in Handlers : local[g] \in Keys
    BY DEF TypeOK
<1>3. AutoPort \in Keys
    BY DEF Keys
<1>. QED  BY <1>1, <1>2, <1>3 DEF ResolvedInv, EvictedInv

LEMMA StartOrphans ==
    ASSUME TypeOK, Hands, Orphans, NEW h \in Handlers,
           StartForward(h) \/ StartKill(h) \/ StartKillAll(h)
    PROVE  Orphans'
<1>1. /\ commands + 1 \in Listeners /\ UNCHANGED <<mappings, swept, answered>> /\ own[h] = None
      /\ pc[h] = "idle" /\ h \in Procs
    BY ReverseAssumption
    DEF StartForward, StartKill, StartKillAll, Starts, TypeOK, Listeners, Hands, OwnInv,
        ForwardLabels, Procs
<1>2. CASE StartForward(h)
    <2>1. PICK k \in Keys : local' = [local EXCEPT ![h] = k] /\ ForwardsName(h, k)
        BY <1>2 DEF StartForward
    <2>2. Goto(h, "check") /\ "check" \in ForwardLabels /\ RivalsInv
        BY <1>2 DEF StartForward, ForwardLabels, Orphans
    <2>3. RivalsInv' /\ (~rivals' => ~rivals)
        BY <2>1, <2>2, NewRival
    <2>4. \A g \in Handlers : /\ pc'[g] = IF g = h THEN "check" ELSE pc[g]
                              /\ g # h => local'[g] = local[g]
        BY <2>1, <2>2 DEF Goto, TypeOK, Procs
    <2>5. ResolvedInv' /\ EvictedInv'
        BY <1>1, <2>3, <2>4 DEF Orphans, ResolvedInv, EvictedInv
    <2>6. NoOrphanListener'
        BY <1>1, <1>2, <2>3 DEF StartForward, Orphans, NoOrphanListener, Kept, TypeOK, None, Listeners
    <2>. QED  BY <2>3, <2>5, <2>6 DEF Orphans
<1>3. CASE StartKill(h) \/ StartKillAll(h)
    <2>1. PICK l \in {"kill", "drain"} : Goto(h, l) /\ l \in Labels
        BY <1>3 DEF StartKill, StartKillAll, Labels
    <2>2. /\ \A g \in Handlers : /\ pc'[g] = IF g = h THEN l ELSE pc[g]
                                 /\ g # h => local'[g] = local[g]
          /\ UNCHANGED <<listener, own, rivals>>
        BY <1>3, <2>1 DEF StartKill, StartKillAll, Goto, TypeOK, Procs
    <2>3. RivalsInv' /\ ResolvedInv' /\ EvictedInv'
        BY <1>1, <2>1, <2>2
        DEF Orphans, RivalsInv, ResolvedInv, EvictedInv, Forwarding, ForwardLabels
    <2>4. NoOrphanListener'
        BY <1>1, <2>2 DEF Orphans, NoOrphanListener, Kept
    <2>. QED  BY <2>3, <2>4 DEF Orphans
<1>. QED  BY <1>2, <1>3

(* Closing a forward's own listener forgets no other. *)
LEMMA GiveUpOrphans ==
    ASSUME TypeOK, Hands, Orphans, NEW h \in Handlers, pc[h] \in ForwardLabels, GiveUp(h),
           UNCHANGED <<mappings, local, swept, rivals>>, answered' => answered
    PROVE  Orphans'
<1>1. Goto(h, "idle") /\ "idle" \in Labels /\ "idle" \notin ForwardLabels
    BY DEF GiveUp, Labels, ForwardLabels
<1>2. RivalsInv'
    BY <1>1, SameRivals DEF Orphans
<1>3. ResolvedInv' /\ EvictedInv'
    BY <1>1, FewerMappings DEF Orphans
<1>4. NoOrphanListener'
    BY DEF GiveUp, CloseListener, Orphans, NoOrphanListener, Kept, TypeOK
<1>. QED  BY <1>2, <1>3, <1>4 DEF Orphans

(* Removing a mapping closes its listener; moving on changes no listener. *)
LEMMA MoveOrphans ==
    ASSUME TypeOK, Hands, Orphans, NEW h \in Handlers, NEW l \in Labels, Goto(h, l),
           l \in ForwardLabels => pc[h] \in ForwardLabels,
           \/ UNCHANGED <<mappings, listener>>
           \/ mappings[local[h]] # None /\ Remove(local[h]),
           UNCHANGED <<local, own, swept, rivals>>, answered' => answered,
           answered' /\ l \in {"evictResolved", "unforwardResolved", "insert"} =>
              local[h] # AutoPort,
           l \in {"unforward", "install", "unforwardResolved", "insert"} /\ answered' /\ ~rivals' =>
              mappings'[local[h]] = None
    PROVE  Orphans'
<1>1. local[h] \in Keys
    BY DEF TypeOK
<1>2. RivalsInv'
    BY SameRivals DEF Orphans
<1>3. \A k \in Keys : mappings'[k] \in {mappings[k], None}
    BY <1>1 DEF Remove, TypeOK
<1>4. ResolvedInv' /\ EvictedInv'
    BY <1>3, FewerMappings DEF Orphans
<1>5. NoOrphanListener'
    <2>1. CASE UNCHANGED <<mappings, listener>>
        BY <2>1 DEF Orphans, NoOrphanListener, Kept
    <2>2. CASE mappings[local[h]] # None /\ Remove(local[h])
        BY <1>1, <2>2 DEF Remove, CloseListener, Orphans, NoOrphanListener, Kept, TypeOK
    <2>. QED  BY <2>1, <2>2
<1>. QED  BY <1>2, <1>4, <1>5 DEF Orphans

LEMMA EvictOrphans ==
    ASSUME TypeOK, Hands, Orphans, NEW h \in Handlers, EvictLocal(h) \/ EvictResolved(h)
    PROVE  Orphans'
<1>1. /\ local[h] \in Keys /\ UNCHANGED <<local, own, swept, rivals, answered>>
      /\ pc[h] \in {"evict", "evictResolved"}
    BY DEF TypeOK, EvictLocal, EvictResolved, Evict, history
<1>2. mappings'[local[h]] = None
    BY <1>1 DEF EvictLocal, EvictResolved, Evict, Remove, TypeOK
<1>3. \/ UNCHANGED <<mappings, listener>>
      \/ mappings[local[h]] # None /\ Remove(local[h])
    BY DEF EvictLocal, EvictResolved, Evict
<1>4. PICK l \in ForwardLabels :
         /\ Goto(h, l)
         /\ l \in {"unforwardResolved", "insert"} => pc[h] = "evictResolved"
         /\ l \in {"unforward", "install", "unforwardResolved", "insert"}
    BY DEF EvictLocal, EvictResolved, Evict, ForwardLabels
<1>5. answered' /\ l \in {"evictResolved", "unforwardResolved", "insert"} => local[h] # AutoPort
    BY <1>1, <1>4 DEF Orphans, ResolvedInv
<1>. QED  BY <1>1, <1>2, <1>3, <1>4, <1>5, MoveOrphans DEF Labels, ForwardLabels

LEMMA UnforwardOrphans ==
    ASSUME TypeOK, Hands, Orphans, NEW h \in Handlers,
           UnforwardLocal(h) \/ UnforwardResolved(h) \/ KillDevice(h)
    PROVE  Orphans'
<1>1. /\ UNCHANGED <<mappings, listener, local, own, swept, rivals>>
      /\ answered' => answered
      /\ pc[h] \in {"unforward", "unforwardResolved", "killDevice"}
    BY DEF UnforwardLocal, UnforwardResolved, KillDevice, Unforward, DeviceKills, DeviceErrs
<1>2. PICK l \in {"install", "insert", "idle"} :
         /\ Goto(h, l)
         /\ l = "insert" => pc[h] = "unforwardResolved"
         /\ l = "install" => pc[h] = "unforward"
         /\ l = "idle" => pc[h] = "killDevice"
    BY DEF UnforwardLocal, UnforwardResolved, KillDevice, Unforward
<1>3. /\ answered' /\ l = "insert" => local[h] # AutoPort
      /\ l \in {"install", "insert"} /\ answered' /\ ~rivals' => mappings'[local[h]] = None
    BY <1>1, <1>2 DEF Orphans, ResolvedInv, EvictedInv
<1>. QED  BY <1>1, <1>2, <1>3, MoveOrphans DEF Labels, ForwardLabels

(* The name that the device chose for tcp:0 has not been evicted yet. *)
LEMMA InstallOrphans ==
    ASSUME TypeOK, Hands, Orphans, NEW h \in Handlers, Install(h)
    PROVE  Orphans'
<1>1. PICK k \in Keys : /\ k \in Choices(h) /\ local' = [local EXCEPT ![h] = k]
                        /\ ForwardsName(h, k)
    BY ChoicesAreKeys DEF Install
<1>2. PICK l \in {"evictResolved", "insert"} :
         Goto(h, l) /\ l = IF local[h] = AutoPort THEN "evictResolved" ELSE "insert"
    BY DEF Install
<1>3. pc[h] = "install" /\ UNCHANGED <<mappings, listener, own, swept, answered>>
    BY DEF Install
<1>4. RivalsInv' /\ (~rivals' => ~rivals)
    BY <1>1, <1>2, NewRival DEF Orphans, ForwardLabels
<1>5. \A g \in Handlers : /\ pc'[g] = IF g = h THEN l ELSE pc[g]
                          /\ local'[g] = IF g = h THEN k ELSE local[g]
    BY <1>1, <1>2 DEF Goto, TypeOK, Procs
<1>6. k # AutoPort /\ (local[h] # AutoPort => k = local[h])
    BY <1>1, ChoicesAreKeys DEF Choices
<1>7. ResolvedInv'
    BY <1>3, <1>5, <1>6 DEF Orphans, ResolvedInv
<1>8. EvictedInv'
    BY <1>2, <1>3, <1>4, <1>5, <1>6 DEF Orphans, EvictedInv
<1>9. NoOrphanListener'
    BY <1>3, <1>4 DEF Orphans, NoOrphanListener, Kept
<1>. QED  BY <1>4, <1>7, <1>8, <1>9 DEF Orphans

(* The name of the mapping is evicted, and no rival has registered one since. *)
LEMMA InsertOrphans ==
    ASSUME TypeOK, Hands, Orphans, NEW h \in Handlers, Insert(h)
    PROVE  Orphans'
<1>1. /\ pc[h] = "insert" /\ local[h] \in Keys /\ h \in Procs
      /\ mappings' = [mappings EXCEPT ![local[h]] = own[h]]
      /\ own' = [own EXCEPT ![h] = None] /\ Goto(h, "idle")
      /\ UNCHANGED <<listener, local, swept, rivals, answered>>
    BY DEF Insert, TypeOK, history, Procs
<1>2. \A g \in Handlers : pc'[g] = IF g = h THEN "idle" ELSE pc[g]
    BY <1>1 DEF Goto, TypeOK, Procs
<1>3. RivalsInv'
    BY <1>1, SameRivals DEF Orphans, Labels, ForwardLabels
<1>4. ResolvedInv'
    BY <1>1, <1>2 DEF Orphans, ResolvedInv, Keys, TypeOK
<1>5. EvictedInv'
    <2>. SUFFICES ASSUME answered, ~rivals, NEW g \in Handlers, g # h,
                         pc[g] \in {"unforward", "install", "unforwardResolved", "insert"}
                  PROVE  mappings'[local[g]] = None
        BY <1>1, <1>2 DEF EvictedInv
    <2>1. local[h] # AutoPort /\ local[g] # local[h]
        BY <1>1 DEF Orphans, RivalsInv, ResolvedInv, Forwarding, ForwardLabels
    <2>2. local[g] \in Keys /\ mappings[local[g]] = None
        BY DEF Orphans, EvictedInv, TypeOK
    <2>. QED  BY <1>1, <2>1, <2>2 DEF TypeOK
<1>6. NoOrphanListener'
    <2>. SUFFICES ASSUME answered, ~rivals, NEW l \in Listeners, listener[l] = "open"
                  PROVE  Kept(l)'
        BY <1>1 DEF NoOrphanListener
    <2>1. Kept(l) /\ mappings[local[h]] = None
        BY <1>1 DEF Orphans, NoOrphanListener, EvictedInv
    <2>2. CASE \E k \in Keys : mappings[k] = l
        BY <1>1, <2>1, <2>2, NoneNotListener DEF Kept, TypeOK
    <2>3. CASE \E g \in Handlers : own[g] = l
        <3>1. PICK g \in Handlers : own[g] = l
            BY <2>3
        <3>2. CASE g = h
            BY <1>1, <3>1, <3>2 DEF Kept, TypeOK
        <3>3. CASE g # h
            BY <1>1, <3>1, <3>3 DEF Kept, TypeOK
        <3>. QED  BY <3>2, <3>3
    <2>4. CASE \E p \in Procs : \E m \in swept[p] : m[2] = l
        BY <1>1, <2>4 DEF Kept
    <2>. QED  BY <2>1, <2>2, <2>3, <2>4 DEF Kept
<1>. QED  BY <1>3, <1>4, <1>5, <1>6 DEF Orphans

LEMMA ForwardOrphans ==
    ASSUME TypeOK, Hands, Orphans, NEW h \in Handlers, Forward(h)
    PROVE  Orphans'
<1>1. CASE Check(h)
    <2>1. pc[h] = "check" /\ UNCHANGED <<mappings, local, swept, rivals, answered>>
        BY <1>1 DEF Check, history
    <2>2. CASE GiveUp(h)
        BY <2>1, <2>2, GiveUpOrphans DEF ForwardLabels
    <2>3. CASE Goto(h, "evict") /\ UNCHANGED <<listener, own>>
        BY <2>1, <2>3, MoveOrphans DEF ForwardLabels, Labels
    <2>. QED  BY <1>1, <2>2, <2>3 DEF Check
<1>2. CASE InstallUnresolved(h)
    <2>1. /\ ~answered' /\ Goto(h, "insert") /\ pc[h] = "install"
          /\ UNCHANGED <<rivals, local>>
        BY <1>2 DEF InstallUnresolved
    <2>2. RivalsInv'
        BY <2>1, SameRivals DEF Orphans, Labels, ForwardLabels
    <2>. QED  BY <2>1, <2>2 DEF Orphans, ResolvedInv, EvictedInv, NoOrphanListener
<1>3. CASE InstallRefused(h) \/ InstallFails(h)
    <2>1. /\ pc[h] = "install" /\ GiveUp(h) /\ UNCHANGED <<mappings, local, swept, rivals>>
          /\ answered' => answered
        BY <1>3 DEF InstallRefused, InstallFails, history
    <2>. QED  BY <2>1, GiveUpOrphans DEF ForwardLabels
<1>. QED
    BY <1>1, <1>2, <1>3, EvictOrphans, UnforwardOrphans, InstallOrphans, InsertOrphans DEF Forward

LEMMA KillOrphans ==
    ASSUME TypeOK, Hands, Orphans, NEW h \in Handlers, Kill(h) \/ KillDevice(h)
    PROVE  Orphans'
<1>1. CASE Kill(h)
    <2>1. /\ pc[h] = "kill" /\ UNCHANGED <<local, own, swept, rivals, answered>>
          /\ \/ UNCHANGED <<mappings, listener>>
             \/ mappings[local[h]] # None /\ Remove(local[h])
        BY <1>1 DEF Kill, history
    <2>2. PICK l \in {"killDevice", "idle"} : Goto(h, l)
        BY <1>1 DEF Kill
    <2>. QED  BY <2>1, <2>2, MoveOrphans DEF Labels, ForwardLabels
<1>. QED  BY <1>1, UnforwardOrphans

(* A drain takes the listeners of the map in hand; a sweep closes what it takes out
   of the hand, unless the device fails. *)
LEMMA SweepingOrphans ==
    ASSUME TypeOK, Hands, Orphans, NEW p \in Procs, Sweeping(p)
    PROVE  Orphans'
<1>1. PICK next \in {"sweep", "idle", "end"} : pc' = pc \/ pc' = [pc EXCEPT ![p] = next]
    BY DEF Sweeping, Drain, Sweep, SweepFails, SweepEnds, Goto, Return
<1>2. /\ UNCHANGED <<local, own, rivals>> /\ (answered' => answered)
      /\ \A k \in Keys : mappings'[k] \in {mappings[k], None}
    BY DEF Sweeping, Drain, Sweep, SweepFails, SweepEnds, DeviceKills, DeviceErrs, TypeOK, history
<1>3. \A h \in Handlers : pc'[h] \in {pc[h], "sweep", "idle", "end"} /\ local[h] \in Keys
    BY <1>1 DEF TypeOK, Procs
<1>4. AutoPort \in Keys
    BY DEF Keys
<1>5. RivalsInv'
    <2>1. \A h \in Handlers : Forwarding(h)' => Forwarding(h)
        BY <1>3 DEF Forwarding, ForwardLabels
    <2>. QED  BY <1>2, <2>1 DEF Orphans, RivalsInv
<1>6. ResolvedInv' /\ EvictedInv'
    BY <1>2, <1>3, <1>4 DEF Orphans, ResolvedInv, EvictedInv
<1>7. NoOrphanListener'
    <2>. SUFFICES ASSUME answered', ~rivals, NEW l \in Listeners, listener'[l] = "open"
                  PROVE  Kept(l)'
        BY <1>2 DEF NoOrphanListener
    <2>1. listener[l] = "open" /\ Kept(l)
        <3>1. listener[l] = "open"
            BY DEF Sweeping, Drain, Sweep, SweepFails, SweepEnds, CloseListener, TypeOK
        <3>. QED  BY <1>2, <3>1 DEF Orphans, NoOrphanListener
    <2>2. CASE \E h \in Handlers : own[h] = l
        BY <1>2, <2>2 DEF Kept
    <2>3. CASE Drain(p)
        <3>1. /\ swept' = [swept EXCEPT ![p] = {<<k, mappings[k]>> : k \in Mapped}]
              /\ swept[p] = {}
            BY <2>3 DEF Drain, Hands, SweptInv
        <3>2. ASSUME NEW k \in Keys, mappings[k] = l PROVE Kept(l)'
            <4>1. <<k, l>> \in swept'[p]
                BY <3>1, <3>2, NoneNotListener DEF Mapped, TypeOK
            <4>. QED  BY <4>1 DEF Kept
        <3>3. ASSUME NEW q \in Procs, NEW m \in swept[q], m[2] = l PROVE Kept(l)'
            <4>1. m \in swept'[q]
                BY <3>1, <3>3 DEF TypeOK
            <4>. QED  BY <3>3, <4>1 DEF Kept
        <3>. QED  BY <2>1, <2>2, <3>2, <3>3 DEF Kept
    <2>4. CASE Sweep(p) \/ SweepFails(p)
        <3>1. PICK m \in swept[p] : /\ listener' = [listener EXCEPT ![m[2]] = "closed"]
                                    /\ swept' = [swept EXCEPT ![p] = @ \ {m}]
                                    /\ UNCHANGED mappings
            BY <2>4 DEF Sweep, SweepFails, CloseListener, DeviceErrs
        <3>2. m[2] # l
            BY <3>1 DEF TypeOK
        <3>3. ASSUME NEW q \in Procs, NEW n \in swept[q], n[2] = l PROVE Kept(l)'
            <4>1. n \in swept'[q]
                BY <3>1, <3>2, <3>3 DEF TypeOK
            <4>. QED  BY <3>3, <4>1 DEF Kept
        <3>4. (\E k \in Keys : mappings[k] = l) => Kept(l)'
            BY <3>1 DEF Kept
        <3>. QED  BY <2>1, <2>2, <3>3, <3>4 DEF Kept
    <2>5. CASE SweepEnds(p)
        BY <2>1, <2>5 DEF SweepEnds, Kept
    <2>. QED  BY <2>3, <2>4, <2>5 DEF Sweeping
<1>. QED  BY <1>5, <1>6, <1>7 DEF Orphans

LEMMA OtherOrphans ==
    ASSUME TypeOK, Hands, Orphans, StartCloseAll \/ DeviceForgets
    PROVE  Orphans'
<1>1. /\ UNCHANGED <<mappings, listener, local, own, swept, rivals>> /\ (answered' => answered)
      /\ \A h \in Handlers : pc'[h] = pc[h]
    BY ReverseAssumption DEF StartCloseAll, DeviceForgets, history, Goto, TypeOK, Procs
<1>2. RivalsInv' /\ ResolvedInv' /\ EvictedInv'
    BY <1>1 DEF Orphans, RivalsInv, ResolvedInv, EvictedInv, Forwarding
<1>3. NoOrphanListener'
    BY <1>1 DEF Orphans, NoOrphanListener, Kept
<1>. QED  BY <1>2, <1>3 DEF Orphans

----------------------------------------------------------------------------
(* Commands for different names keep the two tables together               *)

\* A step of p alone.
StepOf(p) ==
    /\ \A q \in Procs \ {p} : pc'[q] = pc[q] /\ swept'[q] = swept[q]
    /\ \A h \in Handlers \ {p} : local'[h] = local[h] /\ own'[h] = own[h]

LEMMA InitTables == Init => Tables
<1>. SUFFICES ASSUME Init PROVE Tables
    OBVIOUS
<1>1. /\ \A p \in Procs : pc[p] = "idle" /\ swept[p] = {}
      /\ \A k \in Keys : dev[k] = None /\ mappings[k] = None
    BY DEF Init
<1>2. \A p \in Procs : Working(p) = {}
    BY <1>1 DEF Working, ForwardLabels
<1>. QED  BY <1>1, <1>2 DEF Tables, ClashInv, AgreeInv, Holds, Procs

LEMMA OthersWork ==
    ASSUME NEW p \in Procs, StepOf(p), NEW q \in Procs \ {p}
    PROVE  Working(q)' = Working(q)
BY DEF StepOf, Working

\* p may take names: then it works on them alone, or clash says otherwise.
LEMMA TakeNames ==
    ASSUME ClashInv, NEW p \in Procs, StepOf(p), NEW K, Takes(p, K),
           Working(p)' \subseteq Working(p) \cup K
    PROVE  ClashInv' /\ (~clash' => ~clash)
<1>1. ~clash' => ~clash
    BY DEF Takes
<1>2. ASSUME ~clash', NEW q \in Procs, q # p PROVE Working(p)' \cap Working(q)' = {}
    <2>1. Working(q)' = Working(q) /\ Working(p) \cap Working(q) = {}
        BY <1>1, <1>2, OthersWork DEF ClashInv
    <2>2. Working(q) \cap K = {}
        BY <1>2, Zenon DEF Takes
    <2>. QED  BY <2>1, <2>2
<1>3. ASSUME ~clash', NEW q \in Procs, NEW r \in Procs, q # r
      PROVE  Working(q)' \cap Working(r)' = {}
    <2>1. CASE q = p \/ r = p
        BY <1>2, <1>3, <2>1
    <2>2. CASE q # p /\ r # p
        BY <1>1, <1>3, <2>2, OthersWork DEF ClashInv
    <2>. QED  BY <2>1, <2>2
<1>. QED  BY <1>1, <1>3 DEF ClashInv

LEMMA KeepNames ==
    ASSUME ClashInv, NEW p \in Procs, StepOf(p), clash' = clash,
           Working(p)' \subseteq Working(p)
    PROVE  ClashInv'
<1>1. ASSUME ~clash', NEW q \in Procs, NEW r \in Procs, q # r
      PROVE  Working(q)' \cap Working(r)' = {}
    BY <1>1, OthersWork DEF ClashInv
<1>. QED  BY <1>1 DEF ClashInv

\* A step of p touches the tables only at names p works on, and leaves a name only
\* when they agree on it: everybody else sees what they saw.
LEMMA AgreeStep ==
    ASSUME TypeOK, AgreeInv, ClashInv, ClashInv', NEW p \in Procs, StepOf(p),
           answered' => answered, ~clash' => ~clash,
           answered' /\ ~clash' =>
              /\ \A k \in Keys \ (Working(p) \cup Working(p)') :
                    dev'[k] = dev[k] /\ mappings'[k] = mappings[k]
              /\ \A k \in Working(p) \ Working(p)' : dev'[k] = mappings'[k]
              /\ p \in Handlers => Holds(p)'
              /\ \A m \in swept'[p] : mappings'[m[1]] = None
    PROVE  AgreeInv'
<1>. SUFFICES ASSUME answered', ~clash'
              PROVE  /\ \A k \in Keys : (\A q \in Procs : k \notin Working(q)') => dev'[k] = mappings'[k]
                     /\ \A h \in Handlers : Holds(h)'
                     /\ \A q \in Procs : \A m \in swept'[q] : mappings'[m[1]] = None
    BY DEF AgreeInv
<1>1. answered /\ ~clash
    OBVIOUS
<1>2. ASSUME NEW k \in Keys, \A q \in Procs : k \notin Working(q)'
      PROVE  dev'[k] = mappings'[k]
    <2>1. CASE k \in Working(p)
        BY <1>2, <2>1
    <2>2. CASE k \notin Working(p)
        <3>1. \A q \in Procs : k \notin Working(q)
            BY <1>2, <2>2, OthersWork
        <3>. QED  BY <1>1, <1>2, <2>2, <3>1 DEF AgreeInv
    <2>. QED  BY <2>1, <2>2
<1>3. ASSUME NEW q \in Procs, q # p, NEW k \in Keys, k \in Working(q) \/ k = AutoPort
      PROVE  dev'[k] = dev[k] /\ mappings'[k] = mappings[k]
    <2>1. AutoPort \notin Working(p) \cup Working(p)'
        BY DEF Working
    <2>2. CASE k \in Working(q)
        <3>1. k \in Working(q)'
            BY <1>3, <2>2, OthersWork
        <3>2. k \notin Working(p) /\ k \notin Working(p)'
            BY <1>1, <1>3, <2>2, <3>1 DEF ClashInv
        <3>. QED  BY <3>2
    <2>. QED  BY <1>3, <2>1, <2>2
<1>4. ASSUME NEW h \in Handlers PROVE Holds(h)'
    <2>1. CASE h = p
        BY <2>1
    <2>2. CASE h # p
        <3>1. h \in Procs /\ pc'[h] = pc[h] /\ local'[h] = local[h] /\ own'[h] = own[h]
            BY <2>2 DEF StepOf, Procs
        <3>2. CASE pc[h] \in ForwardLabels \cup {"kill", "killDevice"}
            <4>1. local[h] \in Keys /\ (local[h] \in Working(h) \/ local[h] = AutoPort)
                BY <3>2 DEF Working, TypeOK
            <4>2. dev'[local[h]] = dev[local[h]] /\ mappings'[local[h]] = mappings[local[h]]
                BY <1>3, <2>2, <3>1, <4>1
            <4>. QED  BY <1>1, <3>1, <4>2 DEF AgreeInv, Holds
        <3>3. CASE pc[h] \notin ForwardLabels \cup {"kill", "killDevice"}
            BY <3>1, <3>3 DEF Holds, ForwardLabels
        <3>. QED  BY <3>2, <3>3
    <2>. QED  BY <2>1, <2>2
<1>5. ASSUME NEW q \in Procs, NEW m \in swept'[q] PROVE mappings'[m[1]] = None
    <2>1. CASE q = p
        BY <1>5, <2>1
    <2>2. CASE q # p
        <3>1. m \in swept[q] /\ m[1] \in Keys /\ mappings[m[1]] = None
            BY <1>1, <1>5, <2>2 DEF StepOf, AgreeInv, TypeOK
        <3>2. m[1] \in Working(q) \/ m[1] = AutoPort
            BY <3>1 DEF Working
        <3>. QED  BY <1>3, <2>2, <3>1, <3>2
    <2>. QED  BY <2>1, <2>2
<1>. QED  BY <1>2, <1>4, <1>5

CommandLabels == ForwardLabels \cup {"kill", "killDevice"}

\* A handler works on the name of its command, or on what it has drained.
LEMMA HandlerWorks ==
    ASSUME SweptInv, NEW h \in Handlers, local[h] \in Keys, pc[h] # "sweep"
    PROVE  Working(h) = IF pc[h] \in CommandLabels THEN {local[h]} \ {AutoPort} ELSE {}
BY DEF Working, SweptInv, Procs, CommandLabels

LEMMA HandlerWorksNext ==
    ASSUME SweptInv', NEW h \in Handlers, local'[h] \in Keys, pc'[h] # "sweep"
    PROVE  Working(h)' = IF pc'[h] \in CommandLabels THEN {local'[h]} \ {AutoPort} ELSE {}
BY DEF Working, SweptInv, Procs, CommandLabels

(* The facts a step of one handler starts from. *)
LEMMA HandlerStep ==
    ASSUME TypeOK, TypeOK', Hands, Hands', NEW h \in Handlers, NEW l \in Labels \ {"sweep"},
           Goto(h, l), pc[h] # "sweep", swept' = swept,
           \A g \in Handlers \ {h} : local'[g] = local[g] /\ own'[g] = own[g]
    PROVE  /\ StepOf(h) /\ pc'[h] = l /\ swept'[h] = {}
           /\ h \in Procs /\ local[h] \in Keys /\ local'[h] \in Keys
           /\ Working(h) = IF pc[h] \in CommandLabels THEN {local[h]} \ {AutoPort} ELSE {}
           /\ Working(h)' = IF l \in CommandLabels THEN {local'[h]} \ {AutoPort} ELSE {}
<1>1. /\ h \in Procs /\ local[h] \in Keys /\ local'[h] \in Keys
      /\ \A q \in Procs : pc'[q] = IF q = h THEN l ELSE pc[q]
    BY DEF TypeOK, Goto, Procs
<1>2. SweptInv /\ SweptInv'
    BY DEF Hands
<1>3. swept'[h] = {}
    BY <1>1, <1>2 DEF SweptInv
<1>. QED  BY <1>1, <1>2, <1>3, HandlerWorks, HandlerWorksNext DEF StepOf

\* A new command finds its name settled, unless another one works on it.
LEMMA StartTables ==
    ASSUME TypeOK, TypeOK', Hands, Hands', Tables, NEW h \in Handlers,
           StartForward(h) \/ StartKill(h) \/ StartKillAll(h)
    PROVE  Tables'
<1>1. /\ pc[h] = "idle" /\ UNCHANGED <<mappings, dev, swept, answered>>
    BY DEF StartForward, StartKill, StartKillAll, Starts
<1>2. PICK l \in {"check", "kill", "drain"} :
         /\ Goto(h, l)
         /\ l = "drain" => StartKillAll(h)
         /\ l # "drain" => StartForward(h) \/ StartKill(h)
    BY DEF StartForward, StartKill, StartKillAll
<1>3. \A g \in Handlers \ {h} : local'[g] = local[g] /\ own'[g] = own[g]
    BY DEF StartForward, StartKill, StartKillAll, TypeOK
<1>4. /\ StepOf(h) /\ pc'[h] = l /\ swept'[h] = {} /\ h \in Procs /\ local'[h] \in Keys
      /\ Working(h) = {}
      /\ Working(h)' = IF l = "drain" THEN {} ELSE {local'[h]} \ {AutoPort}
    BY <1>1, <1>2, <1>3, HandlerStep DEF Labels, ForwardLabels, CommandLabels
<1>5. ClashInv' /\ (~clash' => ~clash)
    <2>1. CASE l = "drain"
        <3>1. clash' = clash
            BY <1>2, <2>1 DEF StartKillAll
        <3>. QED  BY <1>4, <2>1, <3>1, KeepNames DEF Tables
    <2>2. CASE l # "drain"
        <3>1. Takes(h, {local'[h]})
            BY <1>2, <2>2 DEF StartForward, StartKill, ForwardsName, TypeOK
        <3>. QED  BY <1>4, <2>2, <3>1, TakeNames DEF Tables
    <2>. QED  BY <2>1, <2>2
<1>6. ASSUME answered', ~clash' PROVE dev'[local'[h]] = mappings'[local'[h]] \/ l = "drain"
    <2>1. CASE l # "drain"
        <3>1. \A q \in Procs \ {h} : local'[h] \notin Working(q)
            <4>1. CASE local'[h] = AutoPort
                BY <4>1 DEF Working
            <4>2. CASE local'[h] # AutoPort
                BY <1>4, <1>5, <1>6, <2>1, <4>2, OthersWork DEF ClashInv
            <4>. QED  BY <4>1, <4>2
        <3>. QED  BY <1>1, <1>4, <1>5, <1>6, <3>1 DEF Tables, AgreeInv
    <2>. QED  BY <2>1
<1>7. answered' /\ ~clash' => Holds(h)'
    BY <1>2, <1>4, <1>6 DEF Holds
<1>8. AgreeInv'
    BY <1>1, <1>4, <1>5, <1>7, AgreeStep DEF Tables
<1>. QED  BY <1>5, <1>8 DEF Tables

\* A step that only looks at the map, or takes the mapping of its own name out.
LEMMA EvictTables ==
    ASSUME TypeOK, TypeOK', Hands, Hands', ResolvedInv, Tables, NEW h \in Handlers,
           EvictLocal(h) \/ EvictResolved(h) \/ Kill(h)
    PROVE  Tables'
<1>1. /\ UNCHANGED <<dev, local, own, swept, answered, clash>>
      /\ pc[h] \in {"evict", "evictResolved", "kill"}
    BY DEF EvictLocal, EvictResolved, Kill, Evict, history
<1>2. PICK l \in {"unforward", "install", "unforwardResolved", "insert", "killDevice", "idle"} :
         /\ Goto(h, l)
         /\ l = "unforward" => pc[h] = "evict" /\ mappings[local[h]] # None
         /\ l = "install" => pc[h] = "evict" /\ mappings[local[h]] = None
         /\ l = "unforwardResolved" => pc[h] = "evictResolved" /\ mappings[local[h]] # None
         /\ l = "insert" => pc[h] = "evictResolved" /\ mappings[local[h]] = None
         /\ l = "killDevice" => pc[h] = "kill" /\ mappings[local[h]] # None
         /\ l = "idle" => pc[h] = "kill" /\ mappings[local[h]] = None
    BY DEF EvictLocal, EvictResolved, Kill, Evict
<1>3. /\ StepOf(h) /\ pc'[h] = l /\ swept'[h] = {} /\ h \in Procs /\ local[h] \in Keys
      /\ Working(h) = {local[h]} \ {AutoPort}
      /\ Working(h)' = IF l = "idle" THEN {} ELSE {local[h]} \ {AutoPort}
    BY <1>1, <1>2, HandlerStep DEF Labels, ForwardLabels, CommandLabels
<1>4. /\ mappings'[local[h]] = None
      /\ \A k \in Keys \ {local[h]} : mappings'[k] = mappings[k]
    BY <1>1, <1>3 DEF EvictLocal, EvictResolved, Kill, Evict, Remove, TypeOK
<1>5. ClashInv'
    BY <1>1, <1>3, KeepNames DEF Tables
<1>6. ASSUME answered', ~clash'
      PROVE  /\ \A k \in Keys \ (Working(h) \cup Working(h)') :
                   dev'[k] = dev[k] /\ mappings'[k] = mappings[k]
             /\ \A k \in Working(h) \ Working(h)' : dev'[k] = mappings'[k]
             /\ Holds(h)'
    <2>1. Holds(h) /\ mappings[AutoPort] = None
        BY <1>1, <1>6 DEF Tables, AgreeInv, ResolvedInv
    <2>2. Holds(h)'
        BY <1>1, <1>2, <1>3, <1>4, <2>1 DEF Holds
    <2>3. \A k \in Keys \ (Working(h) \cup Working(h)') :
             dev'[k] = dev[k] /\ mappings'[k] = mappings[k]
        BY <1>1, <1>3, <1>4, <2>1
    <2>4. \A k \in Working(h) \ Working(h)' : dev'[k] = mappings'[k]
        BY <1>1, <1>2, <1>3, <1>4, <2>1 DEF Holds
    <2>. QED  BY <2>2, <2>3, <2>4
<1>7. AgreeInv'
    BY <1>1, <1>3, <1>5, <1>6, AgreeStep DEF Tables
<1>. QED  BY <1>5, <1>7 DEF Tables

\* The device forgets the name, too.
LEMMA UnforwardTables ==
    ASSUME TypeOK, TypeOK', Hands, Hands', ResolvedInv, Tables, NEW h \in Handlers,
           UnforwardLocal(h) \/ UnforwardResolved(h) \/ KillDevice(h)
    PROVE  Tables'
<1>1. /\ UNCHANGED <<mappings, local, own, swept, clash>> /\ (answered' => answered)
      /\ pc[h] \in {"unforward", "unforwardResolved", "killDevice"}
      /\ answered' => dev' = [dev EXCEPT ![local[h]] = None]
    BY DEF UnforwardLocal, UnforwardResolved, KillDevice, Unforward, DeviceKills, DeviceErrs
<1>2. PICK l \in {"install", "insert", "idle"} :
         /\ Goto(h, l)
         /\ l = "insert" => pc[h] = "unforwardResolved"
         /\ l = "install" => pc[h] = "unforward"
         /\ l = "idle" => pc[h] = "killDevice"
    BY DEF UnforwardLocal, UnforwardResolved, KillDevice, Unforward
<1>3. /\ StepOf(h) /\ pc'[h] = l /\ swept'[h] = {} /\ h \in Procs /\ local[h] \in Keys
      /\ Working(h) = {local[h]} \ {AutoPort}
      /\ Working(h)' = IF l = "idle" THEN {} ELSE {local[h]} \ {AutoPort}
    BY <1>1, <1>2, HandlerStep DEF Labels, ForwardLabels, CommandLabels
<1>4. ClashInv'
    BY <1>1, <1>3, KeepNames DEF Tables
<1>5. ASSUME answered', ~clash'
      PROVE  /\ \A k \in Keys \ (Working(h) \cup Working(h)') :
                   dev'[k] = dev[k] /\ mappings'[k] = mappings[k]
             /\ \A k \in Working(h) \ Working(h)' : dev'[k] = mappings'[k]
             /\ Holds(h)'
    <2>1. /\ Holds(h) /\ mappings[AutoPort] = None /\ dev[AutoPort] = None
          /\ mappings[local[h]] = None /\ pc[h] # "unforwardResolved"
        <3>1. Holds(h) /\ mappings[AutoPort] = None
            BY <1>1, <1>5 DEF Tables, AgreeInv, ResolvedInv
        <3>2. dev[AutoPort] = mappings[AutoPort]
            <4>1. AutoPort \in Keys /\ \A p \in Procs : AutoPort \notin Working(p)
                BY DEF Keys, Working
            <4>. QED  BY <1>1, <1>5, <4>1 DEF Tables, AgreeInv
        <3>. QED  BY <1>1, <3>1, <3>2 DEF Holds
    <2>2. dev'[local[h]] = None /\ \A k \in Keys \ {local[h]} : dev'[k] = dev[k]
        BY <1>1, <1>3, <1>5 DEF TypeOK
    <2>3. Holds(h)'
        BY <1>1, <1>2, <1>3, <2>1, <2>2 DEF Holds
    <2>. QED  BY <1>1, <1>3, <2>1, <2>2, <2>3
<1>6. AgreeInv'
    BY <1>1, <1>3, <1>4, <1>5, AgreeStep DEF Tables
<1>. QED  BY <1>4, <1>6 DEF Tables

\* The device takes the forward under its name; a name of its own choice has no
\* mapping, because it had no forward and nobody works on it.
LEMMA InstallTables ==
    ASSUME TypeOK, TypeOK', Hands, Hands', Tables, NEW h \in Handlers, Install(h)
    PROVE  Tables'
<1>1. PICK k \in Keys : /\ k \in Choices(h) /\ local' = [local EXCEPT ![h] = k]
                        /\ dev' = [dev EXCEPT ![k] = own[h]]
                        /\ ForwardsName(h, k)
    BY ChoicesAreKeys DEF Install
<1>2. /\ pc[h] = "install" /\ UNCHANGED <<mappings, own, swept, answered>> /\ Takes(h, {k})
      /\ k # AutoPort /\ (local[h] # AutoPort => k = local[h])
      /\ local[h] = AutoPort => dev[k] = None
    BY <1>1, ChoicesAreKeys DEF Install, ForwardsName, Choices
<1>3. PICK l \in {"evictResolved", "insert"} :
         Goto(h, l) /\ l = IF local[h] = AutoPort THEN "evictResolved" ELSE "insert"
    BY DEF Install
<1>4. /\ StepOf(h) /\ pc'[h] = l /\ swept'[h] = {} /\ h \in Procs /\ local'[h] = k
      /\ Working(h) = {local[h]} \ {AutoPort} /\ Working(h)' = {k}
    <2>1. local'[h] = k /\ \A g \in Handlers \ {h} : local'[g] = local[g] /\ own'[g] = own[g]
        BY <1>1, <1>2 DEF TypeOK
    <2>. QED  BY <1>2, <1>3, <2>1, HandlerStep DEF Labels, ForwardLabels, CommandLabels
<1>5. ClashInv' /\ (~clash' => ~clash)
    BY <1>2, <1>4, TakeNames DEF Tables
<1>6. /\ dev'[k] = own'[h] /\ \A j \in Keys \ {k} : dev'[j] = dev[j]
    BY <1>1, <1>2 DEF TypeOK
<1>7. ASSUME answered', ~clash' PROVE Holds(h)'
    <2>1. mappings[k] = None
        <3>1. CASE local[h] = AutoPort
            <4>1. \A q \in Procs : k \notin Working(q)
                <5>1. \A q \in Procs \ {h} : k \notin Working(q)
                    BY <1>4, <1>5, <1>7, OthersWork DEF ClashInv
                <5>. QED  BY <1>4, <3>1, <5>1
            <4>. QED  BY <1>2, <1>5, <1>7, <3>1, <4>1 DEF Tables, AgreeInv
        <3>2. CASE local[h] # AutoPort
            BY <1>2, <1>5, <1>7, <3>2 DEF Tables, AgreeInv, Holds
        <3>. QED  BY <3>1, <3>2
    <2>. QED  BY <1>2, <1>4, <1>6, <2>1 DEF Holds
<1>8. AgreeInv'
    <2>1. Working(h) \subseteq {k}
        BY <1>2, <1>4
    <2>. QED  BY <1>2, <1>4, <1>5, <1>6, <1>7, <2>1, AgreeStep DEF Tables
<1>. QED  BY <1>5, <1>8 DEF Tables

\* The mapping that is registered is the device's.
LEMMA InsertTables ==
    ASSUME TypeOK, TypeOK', Hands, Hands', ResolvedInv, Tables, NEW h \in Handlers, Insert(h)
    PROVE  Tables'
<1>1. /\ pc[h] = "insert" /\ Goto(h, "idle") /\ UNCHANGED <<dev, local, swept, answered, clash>>
      /\ mappings' = [mappings EXCEPT ![local[h]] = own[h]]
      /\ own' = [own EXCEPT ![h] = None]
    BY DEF Insert, history
<1>2. /\ StepOf(h) /\ pc'[h] = "idle" /\ swept'[h] = {} /\ h \in Procs /\ local[h] \in Keys
      /\ Working(h) = {local[h]} \ {AutoPort} /\ Working(h)' = {}
    <2>1. \A g \in Handlers \ {h} : local'[g] = local[g] /\ own'[g] = own[g]
        BY <1>1 DEF TypeOK
    <2>. QED  BY <1>1, <2>1, HandlerStep DEF Labels, ForwardLabels, CommandLabels
<1>3. ClashInv'
    BY <1>1, <1>2, KeepNames DEF Tables
<1>4. Holds(h)'
    BY <1>2 DEF Holds
<1>5. ASSUME answered', ~clash'
      PROVE  /\ \A k \in Keys \ (Working(h) \cup Working(h)') :
                   dev'[k] = dev[k] /\ mappings'[k] = mappings[k]
             /\ \A k \in Working(h) \ Working(h)' : dev'[k] = mappings'[k]
    <2>1. local[h] # AutoPort /\ dev[local[h]] = own[h]
        BY <1>1, <1>5 DEF ResolvedInv, Tables, AgreeInv, Holds
    <2>. QED  BY <1>1, <1>2, <2>1 DEF TypeOK
<1>6. AgreeInv'
    BY <1>1, <1>2, <1>3, <1>4, <1>5, AgreeStep DEF Tables
<1>. QED  BY <1>3, <1>6 DEF Tables

\* A forward moves on, or gives up, without a change of the tables.
LEMMA CheckTables ==
    ASSUME TypeOK, TypeOK', Hands, Hands', ResolvedInv, Tables, NEW h \in Handlers,
           Check(h) \/ InstallRefused(h)
    PROVE  Tables'
<1>1. /\ UNCHANGED <<mappings, dev, local, swept, answered, clash>>
      /\ pc[h] \in {"check", "install"}
    BY DEF Check, InstallRefused, history
<1>2. PICK l \in {"evict", "idle"} : Goto(h, l) /\ (l = "evict" => pc[h] = "check")
    BY DEF Check, InstallRefused, GiveUp
<1>3. /\ StepOf(h) /\ pc'[h] = l /\ swept'[h] = {} /\ h \in Procs /\ local[h] \in Keys
      /\ Working(h) = {local[h]} \ {AutoPort}
      /\ Working(h)' = IF l = "idle" THEN {} ELSE {local[h]} \ {AutoPort}
    <2>1. \A g \in Handlers \ {h} : local'[g] = local[g] /\ own'[g] = own[g]
        BY <1>1 DEF Check, InstallRefused, GiveUp, TypeOK
    <2>. QED  BY <1>1, <1>2, <2>1, HandlerStep DEF Labels, ForwardLabels, CommandLabels
<1>4. ClashInv'
    BY <1>1, <1>3, KeepNames DEF Tables
<1>5. ASSUME answered', ~clash'
      PROVE  Holds(h)' /\ dev[local[h]] = mappings[local[h]]
    <2>1. Holds(h)
        BY <1>1, <1>5 DEF Tables, AgreeInv
    <2>. QED  BY <1>1, <1>2, <1>3, <2>1 DEF Holds
<1>6. AgreeInv'
    BY <1>1, <1>3, <1>4, <1>5, AgreeStep DEF Tables
<1>. QED  BY <1>4, <1>6 DEF Tables

\* A device that does not answer in full ends what AgreeInv says.
LEMMA UnansweredTables ==
    ASSUME TypeOK, TypeOK', Hands, Hands', Tables, NEW h \in Handlers,
           InstallUnresolved(h) \/ InstallFails(h)
    PROVE  Tables'
<1>1. /\ UNCHANGED <<local, swept, clash>> /\ ~answered' /\ pc[h] = "install"
    BY DEF InstallUnresolved, InstallFails
<1>2. PICK l \in {"insert", "idle"} : Goto(h, l)
    BY DEF InstallUnresolved, InstallFails, GiveUp
<1>3. \A g \in Handlers \ {h} : local'[g] = local[g] /\ own'[g] = own[g]
    BY <1>1 DEF InstallUnresolved, InstallFails, GiveUp, TypeOK
<1>4. StepOf(h) /\ h \in Procs /\ Working(h)' \subseteq Working(h)
    BY <1>1, <1>2, <1>3, HandlerStep DEF Labels, ForwardLabels, CommandLabels
<1>5. ClashInv'
    BY <1>1, <1>4, KeepNames DEF Tables
<1>. QED  BY <1>1, <1>5 DEF Tables, AgreeInv

LEMMA ForwardTables ==
    ASSUME TypeOK, TypeOK', Hands, Hands', Orphans, Tables, NEW h \in Handlers,
           Forward(h) \/ Kill(h) \/ KillDevice(h)
    PROVE  Tables'
<1>1. ResolvedInv
    BY DEF Orphans
<1>. QED
    BY <1>1, CheckTables, EvictTables, UnforwardTables, InstallTables, UnansweredTables, InsertTables
    DEF Forward

\* What p has drained is what it works on.
LEMMA SweeperWorks ==
    ASSUME NEW p \in Procs, swept[p] \subseteq Keys \X Listeners, pc[p] \notin CommandLabels
    PROVE  Working(p) = {m[1] : m \in swept[p]} \ {AutoPort}
BY DEF Working, CommandLabels

LEMMA SweeperWorksNext ==
    ASSUME NEW p \in Procs, swept'[p] \subseteq Keys \X Listeners, pc'[p] \notin CommandLabels
    PROVE  Working(p)' = {m[1] : m \in swept'[p]} \ {AutoPort}
BY DEF Working, CommandLabels

\* A drain works on every mapped name, and a sweep lets go of a name when the device
\* has forgotten it, too.
LEMMA SweepingTables ==
    ASSUME TypeOK, TypeOK', Hands, Hands', ResolvedInv, Tables, NEW p \in Procs, Sweeping(p)
    PROVE  Tables'
<1>1. /\ UNCHANGED <<local, own>> /\ (answered' => answered)
      /\ pc[p] \in {"drain", "sweep"} /\ pc'[p] \in {"sweep", "idle", "end"}
      /\ StepOf(p)
    BY DEF Sweeping, Drain, Sweep, SweepFails, SweepEnds, DeviceKills, DeviceErrs, TypeOK, history,
           Goto, Return, StepOf
<1>2. swept[p] \subseteq Keys \X Listeners /\ swept'[p] \subseteq Keys \X Listeners
    BY DEF TypeOK
<1>3. /\ Working(p) = {m[1] : m \in swept[p]} \ {AutoPort}
      /\ Working(p)' = {m[1] : m \in swept'[p]} \ {AutoPort}
    BY <1>1, <1>2, SweeperWorks, SweeperWorksNext DEF CommandLabels, ForwardLabels
<1>4. Holds(p)'
    BY <1>1 DEF Holds
<1>5. CASE Drain(p)
    <2>1. /\ swept'[p] = {<<k, mappings[k]>> : k \in Mapped} /\ swept[p] = {}
          /\ \A k \in Keys : mappings'[k] = None
          /\ Takes(p, Mapped) /\ UNCHANGED <<dev, answered>>
        BY <1>5 DEF Drain, TypeOK, Hands, SweptInv
    <2>2. Working(p) = {} /\ Working(p)' = Mapped \ {AutoPort}
        <3>1. {m[1] : m \in swept'[p]} = Mapped
            <4>1. ASSUME NEW k \in Mapped PROVE k \in {m[1] : m \in swept'[p]}
                <5>1. <<k, mappings[k]>> \in swept'[p] /\ <<k, mappings[k]>>[1] = k
                    BY <2>1
                <5>. QED  BY <5>1
            <4>2. ASSUME NEW m \in swept'[p] PROVE m[1] \in Mapped
                <5>1. PICK k \in Mapped : m = <<k, mappings[k]>>
                    BY <2>1
                <5>. QED  BY <5>1
            <4>. QED  BY <4>1, <4>2
        <3>. QED  BY <1>3, <2>1, <3>1
    <2>3. ClashInv' /\ (~clash' => ~clash)
        BY <1>1, <2>1, <2>2, TakeNames DEF Tables
    <2>4. ASSUME answered', NEW k \in Keys \ (Working(p) \cup Working(p)')
          PROVE  mappings[k] = None
        BY <1>1, <2>2, <2>4 DEF ResolvedInv, Mapped
    <2>5. \A m \in swept'[p] : mappings'[m[1]] = None
        BY <1>2, <2>1
    <2>6. AgreeInv'
        BY <1>1, <1>4, <2>1, <2>2, <2>3, <2>4, <2>5, AgreeStep DEF Tables
    <2>. QED  BY <2>3, <2>6 DEF Tables
<1>6. CASE Sweep(p) \/ SweepFails(p)
    <2>1. PICK m \in swept[p] :
             /\ UNCHANGED <<mappings, clash>>
             /\ swept'[p] \subseteq swept[p]
             /\ answered' => /\ dev' = [dev EXCEPT ![m[1]] = None]
                             /\ swept'[p] = swept[p] \ {m}
        BY <1>6 DEF Sweep, SweepFails, DeviceKills, DeviceErrs, TypeOK
    <2>2. m[1] \in Keys
        BY <1>2
    <2>3. ClashInv'
        <3>1. Working(p)' \subseteq Working(p)
            BY <1>3, <2>1
        <3>. QED  BY <1>1, <2>1, <3>1, KeepNames DEF Tables
    <2>4. ASSUME answered', ~clash'
          PROVE  /\ \A k \in Keys \ (Working(p) \cup Working(p)') :
                       dev'[k] = dev[k] /\ mappings'[k] = mappings[k]
                 /\ \A k \in Working(p) \ Working(p)' : dev'[k] = mappings'[k]
                 /\ \A n \in swept'[p] : mappings'[n[1]] = None
        <3>1. /\ \A n \in swept[p] : mappings[n[1]] = None
              /\ dev[AutoPort] = None
            <4>1. AutoPort \in Keys /\ \A q \in Procs : AutoPort \notin Working(q)
                BY DEF Keys, Working
            <4>2. dev[AutoPort] = mappings[AutoPort] /\ mappings[AutoPort] = None
                BY <1>1, <2>1, <2>4, <4>1 DEF Tables, AgreeInv, ResolvedInv
            <4>. QED  BY <1>1, <2>1, <2>4, <4>2 DEF Tables, AgreeInv
        <3>2. /\ dev'[m[1]] = None /\ \A k \in Keys \ {m[1]} : dev'[k] = dev[k]
            BY <2>1, <2>2, <2>4 DEF TypeOK
        <3>3. m[1] \in Working(p) \/ m[1] = AutoPort
            BY <1>3
        <3>4. \A k \in Working(p) \ Working(p)' : k = m[1]
            BY <1>3, <2>1, <2>4
        <3>5. \A k \in Keys \ (Working(p) \cup Working(p)') : dev'[k] = dev[k]
            BY <3>1, <3>2, <3>3
        <3>6. \A k \in Working(p) \ Working(p)' : dev'[k] = mappings'[k]
            BY <2>1, <3>1, <3>2, <3>4
        <3>. QED  BY <2>1, <3>1, <3>5, <3>6
    <2>5. AgreeInv'
        BY <1>1, <1>4, <2>1, <2>3, <2>4, AgreeStep DEF Tables
    <2>. QED  BY <2>3, <2>5 DEF Tables
<1>7. CASE SweepEnds(p)
    <2>1. UNCHANGED <<mappings, dev, swept, clash>> /\ swept'[p] = {}
        BY <1>7 DEF SweepEnds, history
    <2>2. Working(p) = {} /\ Working(p)' = {}
        BY <1>3, <2>1
    <2>3. ClashInv'
        BY <1>1, <2>1, <2>2, KeepNames DEF Tables
    <2>4. AgreeInv'
        BY <1>1, <1>4, <2>1, <2>2, <2>3, AgreeStep DEF Tables
    <2>. QED  BY <2>3, <2>4 DEF Tables
<1>. QED  BY <1>5, <1>6, <1>7 DEF Sweeping

LEMMA OtherTables ==
    ASSUME TypeOK, Hands, Tables, StartCloseAll \/ DeviceForgets
    PROVE  Tables'
<1>1. /\ UNCHANGED <<mappings, local, own, swept, clash>>
      /\ \A p \in Procs : pc'[p] = pc[p] \/ (p = Closer /\ pc'[p] = "drain" /\ pc[p] = "idle")
      /\ UNCHANGED <<dev, answered>> \/ ~answered'
    BY DEF StartCloseAll, DeviceForgets, history, Goto, TypeOK
<1>2. \A h \in Handlers : h \in Procs /\ pc'[h] = pc[h]
    BY <1>1, ReverseAssumption DEF Procs
<1>3. \A p \in Procs : Working(p)' = Working(p)
    BY <1>1, <1>2 DEF Working
<1>4. ClashInv'
    BY <1>1, <1>3 DEF Tables, ClashInv
<1>5. AgreeInv'
    BY <1>1, <1>2, <1>3 DEF Tables, AgreeInv, Holds
<1>. QED  BY <1>4, <1>5 DEF Tables

----------------------------------------------------------------------------
(* The safety of reverse forwards                                          *)

(* The invariant holds in every state of a session's reverse forwards. *)
LEMMA Invariance == Spec => []IInv
<1>1. Init => IInv
    BY InitTypeOK, InitHands, InitOrphans, InitTables DEF IInv
<1>2. IInv /\ [Next]_vars => IInv'
    <2>. SUFFICES ASSUME IInv, [Next]_vars PROVE IInv'
        OBVIOUS
    <2>. USE DEF IInv
    <2>1. ASSUME NEW h \in Handlers, StartForward(h) \/ StartKill(h) \/ StartKillAll(h)
          PROVE  IInv'
        BY <2>1, StartTypeOK, StartHands, StartOrphans, StartTables
    <2>2. ASSUME NEW h \in Handlers, Forward(h) PROVE IInv'
        BY <2>2, ForwardTypeOK, ForwardHands, ForwardOrphans, ForwardTables
    <2>3. ASSUME NEW h \in Handlers, Kill(h) \/ KillDevice(h) PROVE IInv'
        BY <2>3, KillTypeOK, KillHands, KillOrphans, ForwardTables
    <2>4. ASSUME NEW p \in Procs, Sweeping(p) PROVE IInv'
        <3>1. ResolvedInv
            BY DEF Orphans
        <3>. QED  BY <2>4, <3>1, SweepingTypeOK, SweepingHands, SweepingOrphans, SweepingTables
    <2>5. CASE StartCloseAll \/ DeviceForgets
        BY <2>5, OtherTypeOK, OtherHands, OtherOrphans, OtherTables
    <2>6. CASE UNCHANGED vars
        <3>1. TypeOK' /\ Hands'
            BY <2>6 DEF vars, history, TypeOK, Hands, OwnInv, HandInv, NumberInv, SweptInv,
                        MappedListenerOpen
        <3>2. Orphans'
            BY <2>6 DEF vars, history, Orphans, RivalsInv, ResolvedInv, EvictedInv, Forwarding,
                        NoOrphanListener, Kept
        <3>3. Tables'
            BY <2>6 DEF vars, history, Tables, ClashInv, AgreeInv, Working, Holds
        <3>. QED  BY <3>1, <3>2, <3>3
    <2>. QED  BY <2>1, <2>2, <2>3, <2>4, <2>5, <2>6 DEF Next
<1>. QED  BY <1>1, <1>2, PTL DEF Spec

(* list-forward never names a dead mapping, whatever commands run at the same time:
   no step closes a listener that another hand holds. *)
THEOREM MappedOpen == Spec => []MappedListenerOpen
BY Invariance, PTL DEF IInv, Hands

(* While the device answers and forwards in progress have different names, no step
   of any command forgets a listener that is open: not a forward, which finds its
   name evicted, nor a drain, nor closeAll next to them. *)
THEOREM NoOrphan == Spec => []NoOrphanListener
BY Invariance, PTL DEF IInv, Orphans

(* Commands for different names may overlap in every order: on each name that none
   works on, the device's table and the bridge's are equal, for every choice of
   ports by the device. *)
THEOREM TablesAgree == Spec => []DeviceAgrees
<1>1. IInv => DeviceAgrees
    BY DEF IInv, Tables, AgreeInv, DeviceAgrees
<1>. QED  BY <1>1, Invariance, PTL

=============================================================================
