---------------------------- MODULE OutageEngine ----------------------------
(***************************************************************************)
(* The outage engine of notify/outage.py: the pure function that compares  *)
(* the committed state of every device with what a controller reported and *)
(* returns the next committed state together with the alerts to send.      *)
(*                                                                         *)
(* A Python dict of DeviceStatus is a total function over Devices, a key   *)
(* the dict does not hold being "untracked".  Names, groups, raw status    *)
(* strings and last_change only reach the text of a message and are left   *)
(* out.  pending_since is kept as the age of the window (now minus         *)
(* pending_since), which stops growing at Horizon: no debounce is longer.  *)
(***************************************************************************)
EXTENDS Integers, FiniteSets

CONSTANTS
    Devices,    \* device keys, as "ap:aabbcc" or "switch:id"
    Kinds,      \* the DeviceStatus.type values in play
    KindOf,     \* the kind of each device
    Horizon     \* the longest debounce_seconds of any configuration

ASSUME DevicesAssumption ==
    /\ IsFiniteSet(Devices)
    /\ Kinds \subseteq {"ap", "switch", "controller"}
    /\ KindOf \in [Devices -> Kinds]
    /\ Horizon \in Nat

Status == {"online", "offline"}

\* One entry of the devices dict: the committed state and the debounce window
\* (pending_target and pending_since, both None when target is "none").
Entry == [status : Status \cup {"untracked"},
          target : Status \cup {"none"},
          age    : 0 .. Horizon]

Ledger == [Devices -> Entry]

Stable(s) == [status |-> s, target |-> "none", age |-> 0]

Untracked == Stable("untracked")

EmptyLedger == [d \in Devices |-> Untracked]

\* A snapshot gives the reported state of each device, "absent" for a device
\* the controller did not list.
Snapshot == [Devices -> Status \cup {"absent"}]

\* A device that vanished from the inventory counts as offline.
Observed(snap, d) == IF snap[d] = "online" THEN "online" ELSE "offline"

FetchFailed_Never(prev, snap, fetched, d) == FALSE

\* A device missing from the snapshot because the fetch of its kind failed.
FetchFailed(prev, snap, fetched, d) ==
    /\ snap[d] = "absent"
    /\ prev[d].status # "untracked"
    /\ KindOf[d] \notin fetched

Matured_AtOnce(e, o, debounce) == e.target = o \/ debounce = 0

\* The observation o contradicts the committed state of entry e, and has done
\* so since the window opened for at least the debounce time.
Matured(e, o, debounce) ==
    \/ e.target = o /\ e.age >= debounce
    \/ e.target # o /\ debounce = 0

\* The observation agrees with the committed state: any window is closed.
Settled_KeepsWindow(e, o) == e
Settled(e, o) == Stable(o)

\* It contradicts the committed state, not for long enough: the window is kept,
\* or opened now if it argued for the other direction.
Waiting_Reopens(e, o) == [e EXCEPT !.target = o, !.age = 0]
Waiting(e, o) == IF e.target = o THEN e ELSE [e EXCEPT !.target = o, !.age = 0]

\* A device that is not yet tracked is seeded silently, be it the first tick
\* of all (an empty dict) or a device discovered later: one rule covers both.
NextEntry(prev, snap, fetched, debounce, d) ==
    LET e == prev[d]
        o == Observed(snap, d)
    IN  IF e.status = "untracked"
          THEN IF snap[d] = "absent" THEN Untracked ELSE Stable(o)
        ELSE IF FetchFailed(prev, snap, fetched, d) THEN e
        ELSE IF o = e.status THEN Settled(e, o)
        ELSE IF Matured(e, o, debounce) THEN Stable(o)
        ELSE Waiting(e, o)

NextLedger(prev, snap, fetched, debounce) ==
    [d \in Devices |-> NextEntry(prev, snap, fetched, debounce, d)]

\* The devices whose committed state flips to s.
FlippedTo_CountsNew(s, prev, new) ==
    {d \in Devices : prev[d].status # s /\ new[d].status = s}

FlippedTo(s, prev, new) ==
    {d \in Devices : /\ prev[d].status \in Status
                     /\ prev[d].status # s
                     /\ new[d].status = s}

Event == [key : Devices, kind : Status]

EventsTo(s, prev, new) ==
    {[key |-> d, kind |-> s] : d \in FlippedTo(s, prev, new)}

\* Offline events leave as a batch, and only when it reaches the threshold;
\* recoveries are sent when the configuration asks for them.
EventsOf(prev, new, recovery, threshold) ==
    (IF recovery THEN EventsTo("online", prev, new) ELSE {})
        \cup
    (IF Cardinality(FlippedTo("offline", prev, new)) >= threshold
        THEN EventsTo("offline", prev, new) ELSE {})

\* The pending windows grow with the clock.
Aged(ledger, dt) ==
    [d \in Devices |->
        IF ledger[d].target = "none" THEN ledger[d]
        ELSE [ledger[d] EXCEPT
                 !.age = IF @ + dt > Horizon THEN Horizon ELSE @ + dt]]
=============================================================================
