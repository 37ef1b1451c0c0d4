----------------------------- MODULE BridgeDirectory -----------------------------
(***************************************************************************)
(* What the registry of bridges promises to the callers of List, Start and *)
(* Stop, without requests, timeouts or goroutines: a device has at most    *)
(* one listed bridge, the listed bridge is never replaced, and one that    *)
(* was taken off the list does not come back.  Module DaemonManager        *)
(* implements it.                                                          *)
(***************************************************************************)
EXTENDS Naturals

CONSTANTS
    Serials,     \* devices
    Bridges      \* bridges, each listed at most once; 0 is none of them

VARIABLES
    owner,       \* the bridge listed for a serial
    phase        \* of a bridge: "new", "bound", "listed", "leaving", "over"

vars == <<owner, phase>>

Init ==
    /\ owner = [s \in Serials |-> 0]
    /\ phase = [b \in Bridges |-> "new"]

\* A new bridge takes its port.
Bind(b) ==
    /\ phase[b] = "new"
    /\ phase' = [phase EXCEPT ![b] = "bound"]
    /\ UNCHANGED owner

\* It is listed, for a device that has no bridge.
Add(s, b) ==
    /\ phase[b] = "bound" /\ owner[s] = 0
    /\ owner' = [owner EXCEPT ![s] = b]
    /\ phase' = [phase EXCEPT ![b] = "listed"]

\* Some devices lose their bridge, which may work for some time longer.
Drop(S) ==
    /\ \A s \in S : owner[s] # 0
    /\ owner' = [s \in Serials |-> IF s \in S THEN 0 ELSE owner[s]]
    /\ phase' = [b \in Bridges |->
          IF phase[b] = "listed" /\ \E s \in S : owner[s] = b THEN "leaving" ELSE phase[b]]

\* A bridge gives its port back; one that lost the race for its device, at once.
End(b) ==
    /\ phase[b] \in {"bound", "listed", "leaving"}
    /\ phase' = [phase EXCEPT ![b] = "over"]
    /\ UNCHANGED owner

Next ==
    \/ \E b \in Bridges : Bind(b) \/ End(b) \/ \E s \in Serials : Add(s, b)
    \/ \E S \in SUBSET Serials : Drop(S)

Spec == Init /\ [][Next]_vars
=============================================================================
