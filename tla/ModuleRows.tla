----------------------------- MODULE ModuleRows -----------------------------
(***************************************************************************)
(* What the module pages make of the rows a controller lists: the status  *)
(* words they sort a device by, the tallies per zone, site, group, VLAN   *)
(* and stack, the graph of the topology page, and the summaries the tiles *)
(* show.  Rows are records with the fields the tallies depend on; a field *)
(* that is only copied to the page is left out.  The same device may be   *)
(* in a list twice, because a paged walk may read it twice.               *)
(***************************************************************************)
EXTENDS Integers, Sequences, FiniteSets, SequencesExt

CONSTANTS
    None,     \* a field the controller left empty
    Cap       \* most AP leaves one expanded zone gets (60 in the code)

ASSUME CapAssumption == Cap \in Nat

\* The words a controller reports, by which lists of the code know them:
\* "online", "offline" and "flagged" are known everywhere, "connect" and
\* "disconnect" to the AP totals alone, "approved" to the switch pages alone.
Raw == {"online", "connect", "approved", "flagged", "offline", "disconnect", "odd"}

\* Rows are counted and summed by position; a selection of them (the
\* operator RestrictValues) keeps the positions they had.
Size(rows) == Cardinality(DOMAIN rows)
Many(rows, P(_)) == Size(RestrictValues(rows, P))
Sum(rows, F(_)) == SumFunction([i \in DOMAIN rows |-> F(rows[i])])
SumOf(S, F(_)) == SumFunction([x \in S |-> F(x)])
Values(rows, F(_)) == {F(rows[i]) : i \in DOMAIN rows}
Or(a, b) == IF a # None THEN a ELSE b

-----------------------------------------------------------------------------
(* Status words.                                                           *)

\* A page keeps a word it does not know.
PageStatus(raw, online) ==
    IF raw \in online THEN "online" ELSE raw
ApStatus(raw) == PageStatus(raw, {"online"})
SwitchStatus(raw) == PageStatus(raw, {"online", "approved"})

\* The graph paints such a device "unknown".
NodeStatus(raw) ==
    IF raw \in {"online", "offline", "flagged"} THEN raw ELSE "unknown"

ApStats(rows) ==
    LET online  == Many(rows, LAMBDA r : r.raw \in {"online", "connect"})
        flagged == Many(rows, LAMBDA r : r.raw = "flagged")
        offline == Many(rows, LAMBDA r : r.raw \in {"offline", "disconnect"})
    IN  [total |-> Len(rows), online |-> online, flagged |-> flagged,
         offline |-> offline, online_up |-> online + flagged,
         other |-> Len(rows) - online - flagged - offline]

\* Every switch that is not online counts as offline here ...
SwitchStats(rows) ==
    LET online == Many(rows, LAMBDA r : SwitchStatus(r.raw) = "online")
    IN  [total |-> Len(rows), online |-> online, offline |-> Len(rows) - online]

\* ... and on the page only one that says so.  A stack counts its units.
SwitchTiles(rows) ==
    [core |-> Len(rows), units |-> Sum(rows, LAMBDA r : r.units),
     online |-> Many(rows, LAMBDA r : SwitchStatus(r.raw) = "online"),
     offline |-> Many(rows, LAMBDA r : SwitchStatus(r.raw) = "offline")]

ApTiles(rows) ==
    [total |-> Len(rows),
     online |-> Many(rows, LAMBDA r : ApStatus(r.raw) = "online"),
     offline |-> Many(rows, LAMBDA r : ApStatus(r.raw) = "offline"),
     flagged |-> Many(rows, LAMBDA r : ApStatus(r.raw) = "flagged")]

-----------------------------------------------------------------------------
(* Wireless pages.                                                         *)

\* The mean of what the clients of each AP report, a half going to the even
\* neighbour; a client that reports nothing is left out, and so is an AP
\* without clients.
Rounded(n, d) ==
    LET q == n \div d  r == n % d
    IN  IF 2 * r < d \/ (2 * r = d /\ q % 2 = 0) THEN q ELSE q + 1
Signal(clients) ==
    LET heard == RestrictValues(clients, LAMBDA c : c.rssi # 0 /\ c.ap # None)
    IN  [a \in Values(heard, LAMBDA c : c.ap) |->
            LET mine == RestrictValues(heard, LAMBDA c : c.ap = a)
            IN  Rounded(Sum(mine, LAMBDA c : c.rssi), Size(mine))]

\* Below zero a signal is in dBm, above it on a scale of its own.
Quality(rssi) ==
    CASE rssi = 0 -> "unknown"
      [] rssi < 0 -> IF rssi >= -65 THEN "good" ELSE IF rssi >= -75 THEN "fair" ELSE "poor"
      [] OTHER    -> IF rssi >= 25 THEN "good" ELSE IF rssi >= 15 THEN "fair" ELSE "poor"
ClientTiles(rows) ==
    [total |-> Len(rows), poor |-> Many(rows, LAMBDA r : Quality(r.rssi) = "poor")]

ApItems(rows, clients) ==
    LET signal == Signal(clients)
    IN  [i \in DOMAIN rows |->
            [id |-> rows[i].id, status |-> ApStatus(rows[i].raw),
             signal |-> IF rows[i].id \in DOMAIN signal THEN signal[rows[i].id] ELSE 0]]

InZone(aps, z) == Many(aps, LAMBDA r : r.zone = z)
ZoneItem(z, aps, detailed) ==
    [id |-> z, ap_count |-> InZone(aps, z), detail |-> z \in detailed]
ZoneItems(zones, aps, detailed) ==
    [i \in DOMAIN zones |-> ZoneItem(zones[i].id, aps, detailed)]
ZoneTiles(items) ==
    [total |-> Len(items), aps |-> Sum(items, LAMBDA i : i.ap_count)]

\* One row per site.  A client that names no site is counted where its SSID
\* is broadcast, at the last site that broadcasts it.
Site(w) == Or(w.zone, "unknown")
Home(c, wlans) ==
    LET casting == {i \in DOMAIN wlans : wlans[i].ssid = c.ssid}
    IN  IF c.zone # None THEN c.zone
        ELSE IF casting = {} THEN None ELSE Site(wlans[Max(casting)])
SiteItems(wlans, clients) ==
    {LET own    == RestrictValues(wlans, LAMBDA w : Site(w) = s)
         listed == Sum(own, LAMBDA w : w.clients)
         seen   == Many(clients, LAMBDA c : Home(c, wlans) = s)
     IN  [id |-> s, wlans |-> Size(own), clients |-> IF seen > listed THEN seen ELSE listed]
     : s \in Values(wlans, Site)}

\* The drill-in of a site looks for the key without its default.
SiteDrill(wlans, s) == RestrictValues(wlans, LAMBDA w : w.zone = s)

\* The newest version a catalogue marks as supported, 0 when there is none.
Latest(catalog) ==
    LET versions == Values(RestrictValues(catalog, LAMBDA e : e.supported),
                           LAMBDA e : e.version)
    IN  IF versions = {} THEN 0 ELSE Max(versions)

RogueTiles(rows) ==
    [c \in {"malicious", "rogue", "known", "total"} |->
        Many(rows, LAMBDA r : c \in {r.class, "total"})]

\* Alarms are weighted by how often each was raised; one of another severity
\* is in the total alone.
AlarmTiles(rows) ==
    [s \in {"critical", "major", "minor", "warning", "total"} |->
        Sum(rows, LAMBDA r : IF s \in {r.severity, "total"} THEN r.count ELSE 0)]

-----------------------------------------------------------------------------
(* Switching pages.                                                        *)

\* A switch that reports more power free than it has uses none.
PoeItem(r) ==
    [budget |-> r.watts, allocated |-> IF r.free < r.watts THEN r.watts - r.free ELSE 0]
PoeTiles(rows) ==
    [budget |-> Sum(rows, LAMBDA r : PoeItem(r).budget),
     allocated |-> Sum(rows, LAMBDA r : PoeItem(r).allocated)]

\* A switch that is in no group counts with its stack.
GroupOf(r) == Or(r.group, r.stack)

\* The drill-in of a switch lists the others of its group, or of its stack.
Connected(r, rows) ==
    RestrictValues(rows, LAMBDA x : /\ GroupOf(r) # None /\ GroupOf(x) = GroupOf(r)
                                    /\ x.id # r.id)

\* The usage list knows switches by address; the switch list names them.
TrafficItems(rows, switches) ==
    [i \in DOMAIN rows |->
        [id |-> rows[i].id,
         named |-> \E j \in DOMAIN switches : switches[j].id = rows[i].id]]

GroupItems(rows) ==
    {[id |-> g, switches |-> Many(rows, LAMBDA r : r.group = g)]
     : g \in Values(rows, LAMBDA r : r.group)}

VlanItems(rows) ==
    {LET own == RestrictValues(rows, LAMBDA r : r.vlan = v)
     IN  [id |-> v, ports |-> Sum(own, LAMBDA r : r.ports),
          members |-> Values(own, LAMBDA r : r.group) \ {None}]
     : v \in Values(rows, LAMBDA r : r.vlan)}

\* Explicit stacks when some row names one, else the rows of several units.
StackItems(rows) ==
    LET named == RestrictValues(rows, LAMBDA r : r.stack \notin {None, r.id})
    IN  IF DOMAIN named # {}
        THEN {LET members == RestrictValues(named, LAMBDA r : r.stack = s)
              IN  [id |-> s, members |-> Size(members),
                   aligned |-> Cardinality(Values(members, LAMBDA r : r.fw)) <= 1]
              : s \in Values(named, LAMBDA r : r.stack)}
        ELSE Values(RestrictValues(rows, LAMBDA r : r.units > 1),
                    LAMBDA r : [id |-> r.id, members |-> r.units, aligned |-> TRUE])

-----------------------------------------------------------------------------
(* The topology page.                                                      *)

Escalated(status, alarmed) ==
    IF alarmed /\ status = "online" THEN "flagged" ELSE status

Node(id, type, status) == [id |-> id, type |-> type, status |-> status]

\* A zone or group is offline when all its devices are.  A zone without
\* devices counts as online.
Overall(statuses) ==
    IF statuses = {"offline"} THEN "offline"
    ELSE IF "offline" \in statuses THEN "flagged" ELSE "online"

Surplus(rows) == IF Size(rows) < Cap THEN 0 ELSE Size(rows) - Cap
Leaves_AsListed(rows) ==
    [shown |-> Restrict(rows, {i \in DOMAIN rows : i <= Cap}), extra |-> Surplus(rows)]
\* The leaves of an expanded zone, offline ones first and else as they were
\* listed, up to the cap, and how many that cuts.
Leaves(rows) ==
    LET down(i)   == NodeStatus(rows[i].raw) = "offline"
        before(i) == {j \in DOMAIN rows : IF down(j) = down(i) THEN j < i ELSE down(j)}
    IN  [shown |-> Restrict(rows, {i \in DOMAIN rows : Cardinality(before(i)) < Cap}),
         extra |-> Surplus(rows)]

ZoneNode(z, aps, alarmed) ==
    LET rows == RestrictValues(aps, LAMBDA r : r.zone = z)
        statuses == Values(rows, LAMBDA r : NodeStatus(r.raw))
    IN  [id |-> z, type |-> "zone", status |-> Escalated(Overall(statuses), z \in alarmed),
         total |-> Size(rows),
         down |-> Many(rows, LAMBDA r : NodeStatus(r.raw) = "offline")]

GroupNode(g, switches) ==
    Node(g, "group",
         Overall(Values(RestrictValues(switches, LAMBDA r : GroupOf(r) = g),
                        LAMBDA r : NodeStatus(r.raw))))

SwitchNode(r, alarmed) ==
    Node(r.id, "switch", Escalated(NodeStatus(r.raw), r.id \in alarmed))

\* The nodes without the leaves.  The controller is online only when its
\* cluster says so.
Graph(cluster, zones, aps, switches, alarmed) ==
    <<Node("controller", "controller", IF cluster THEN "online" ELSE "unknown")>>
    \o [i \in DOMAIN zones |-> ZoneNode(zones[i].id, aps, alarmed)]
    \o SetToSeq({GroupNode(g, switches) : g \in Values(switches, LAMBDA r : GroupOf(r))})
    \o [i \in DOMAIN switches |-> SwitchNode(switches[i], alarmed)]

GraphTiles(nodes) ==
    [nodes |-> Len(nodes),
     online |-> Many(nodes, LAMBDA n : n.status = "online"),
     offline |-> Many(nodes, LAMBDA n : n.status = "offline"),
     switches |-> Many(nodes, LAMBDA n : n.type = "switch")]
=============================================================================
