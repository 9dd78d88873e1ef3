--------------------------- MODULE ControllerFetch ---------------------------
(***************************************************************************)
(* One fetch of a page from a controller whose lists change meanwhile: the *)
(* paged walks of the SmartZone and Switch Manager clients, what a failed  *)
(* request does to the walk and to the fetch, and the module's answer.     *)
(*                                                                         *)
(* A fetch is a queue of calls, each a walk over one list.  Of the world   *)
(* only the list being read changes: what happens to a list before its     *)
(* walk is another initial list, and after it nobody sees it.              *)
(***************************************************************************)
EXTENDS ModuleRows

CONSTANTS
    Jobs,            \* the fetches explored
    Row(_, _),       \* Row(list, id): what the controller says of an entry
    Initial(_),      \* Initial(list): the sequences the list may start as
    Limit,           \* rows per page
    MaxRecords,      \* a walk of the switches stops at so many
    MaxPages,        \* and a walk of the VLANs after so many pages
    Candidates,      \* version and path pairs a switch call is tried with
    MaxEvents        \* bound: entries that join or leave and requests that
                     \* fail during a fetch

Lists == {"rkszones", "ap", "client", "wlan", "alarm", "rogue",
          "switch", "vlan", "traffic"}
Objects == {"detail", "cluster", "devices", "clientTotal", "alarmSummary", "ports",
            "cpu", "mem", "usage", "portUsage"}

ASSUME FetchAssumption ==
    /\ {Limit, MaxRecords, MaxPages, Candidates} \subseteq Nat \ {0}
    /\ MaxEvents \in Nat
    /\ Jobs \subseteq {"zones", "aps", "clients", "wlans", "firmware", "rogues", "security",
                      "controller", "alarms", "switches", "switch", "traffic", "stack",
                      "vlans", "inventory", "operational", "topology"}
    /\ \A l \in Lists : \A s \in Initial(l) : s \in Seq(ToSet(s)) /\ IsInjective(s)

\* What the controller says of an entry: it has an id of its own, amounts are
\* natural numbers, signals are not; no group has the id of a stack.
Ids(list) == UNION {ToSet(s) : s \in Initial(list)}
ASSUME RowAssumption ==
    /\ None # "unknown"
    /\ \A l \in Lists : None \notin Ids(l)
    /\ \A l \in {"rkszones", "ap", "switch", "traffic"} : \A i \in Ids(l) : Row(l, i).id = i
    /\ \A i \in Ids("rkszones") :
          Row("rkszones", i).catalog \in Seq([version : Nat, supported : BOOLEAN])
    /\ \A i \in Ids("client") : Row("client", i).rssi \in Int
    /\ \A i \in Ids("wlan") : Row("wlan", i).clients \in Nat
    /\ \A i \in Ids("alarm") : Row("alarm", i).count \in Nat
    /\ \A i \in Ids("vlan") : Row("vlan", i).ports \in Nat
    /\ \A i \in Ids("switch") : Row("switch", i).watts \in Nat /\ Row("switch", i).free \in Nat
    /\ \A i, j \in Ids("switch") :
          Row("switch", i).group # None => Row("switch", i).group # Row("switch", j).stack

VARIABLES
    world,      \* list -> the ids the controller lists when a walk begins
    view,       \* the list the current walk reads, as it is now
    style,      \* [total, more]: whether its answers carry these fields
    job, todo,  \* the fetch, and its calls, the current one first
    cursor,     \* offset ("get") or page (else) the next request asks for
    candidate,  \* the version and path the switch calls are at
    rows,       \* ids the current walk has read
    got,        \* list -> ids of the walks that ended
    seen,       \* what the calls for single objects returned
    phase,      \* "fetching", "answered" or "raised"
    walk,       \* history of the current walk: ids there all along, joined, left
    last,       \* the same of the walk that ended last, with what it read
    lost,       \* history: lists some rows of which a failure took away
    changes, failures

vars == <<world, view, style, job, todo, cursor, candidate, rows, got, seen, phase,
          walk, last, lost, changes, failures>>

-----------------------------------------------------------------------------
(* The calls of each fetch.  onError: "raise" fails the fetch, "keep" goes *)
(* on with the rows read so far (optional=True), "drop" with none.         *)

Call(list, pager, onError) ==
    [list |-> list, pager |-> pager, zone |-> None, onError |-> onError]
Get(onError)      == Call("rkszones", "get", onError)
Query(list)       == Call(list, "query", "keep")
Switches(onError) == Call("switch", "switch", onError)
One(name)         == Call(name, "one", "drop")
OfZone(call, z)   == [call EXCEPT !.zone = z]

Program(j) ==
    CASE j = "zones"       -> <<Get("raise"), Query("ap")>>
      [] j = "aps"         -> <<Query("ap"), Query("client")>>
      [] j = "clients"     -> <<Query("client"), Get("drop")>>
      [] j = "wlans"       -> <<Query("wlan"), Query("client")>>
      [] j = "firmware"    -> <<Get("drop")>>
      [] j = "rogues"      -> <<Query("rogue")>>
      [] j = "security"    -> <<Query("ap")>>
      [] j = "controller"  -> <<One("cluster"), One("devices")>>
      [] j = "alarms"      -> <<Call("alarm", "first", "raise")>>
      [] j = "switches"    -> <<Switches("raise")>>
      [] j = "switch"      -> <<Switches("drop"), One("ports"), One("cpu"), One("mem")>>
      [] j = "traffic"     -> <<Switches("drop"), Call("traffic", "tried", "raise")>>
      [] j = "stack"       -> <<Call("switch", "tried", "raise")>>
      [] j = "vlans"       -> <<Call("vlan", "vlans", "raise")>>
      [] j = "inventory"   -> <<Get("drop"), Query("ap")>>
      [] j = "operational" -> <<Query("ap"), One("clientTotal"), One("alarmSummary"),
                                Switches("raise")>>
      [] j = "topology"    -> <<One("cluster"), Get("drop"), Query("ap"),
                                Switches("drop"), One("usage"), One("portUsage"),
                                Call("alarm", "first", "drop")>>

Read(j) == {call.list : call \in ToSet(Program(j))} \cap Lists

\* The calls for the details of each zone listed: before the APs in the
\* inventory, after them on the zones page.
Details(zones) == [i \in DOMAIN zones |-> OfZone(One("detail"), zones[i])]
AfterZones(j, zones, others) ==
    CASE j \in {"zones", "firmware"} -> others \o Details(zones)
      [] j = "inventory" -> Details(zones) \o others
      [] OTHER -> others

\* When the query for the APs has brought nothing they are listed zone by
\* zone, or all at once, and that may not fail.
Listing == Call("ap", "get", "raise")
AfterAps(j, zones, others) ==
    CASE j = "inventory" ->
            LET known == SetToSeq(ToSet(zones))
            IN  [i \in DOMAIN known |-> OfZone(Listing, known[i])] \o others
      [] j = "operational" -> <<Listing>> \o others

FallsBack_Again(call, read) ==
    /\ call.list = "ap" /\ read = <<>>
    /\ job \in {"inventory", "operational"}
FallsBack(call, read) ==
    /\ call.list = "ap" /\ call.pager = "query" /\ read = <<>>
    /\ job \in {"inventory", "operational"}

Following(call, read) ==
    CASE call.list = "rkszones" -> AfterZones(job, read, Tail(todo))
      [] FallsBack(call, read)  -> AfterAps(job, got["rkszones"], Tail(todo))
      [] OTHER -> Tail(todo)

-----------------------------------------------------------------------------
(* One page.                                                               *)

Current == Head(todo)

Offset == IF Current.pager = "get" THEN cursor ELSE (cursor - 1) * Limit
Items == SubSeq(view, Offset + 1,
                IF Offset + Limit < Len(view) THEN Offset + Limit ELSE Len(view))
HasMore == style.more /\ Offset + Len(Items) < Len(view)
Total == IF style.total THEN Len(view) ELSE 0

\* GET lists say hasMore; a walk without it reads one page.
GetEnds == ~HasMore \/ Items = <<>>
QueryEnds_OneEarly ==
             \/ Items = <<>> \/ Len(Items) < Limit
             \/ Total > 0 /\ (cursor + 1) * Limit >= Total
             \/ style.more /\ ~HasMore
\* Query lists end at a short page, at the total, or when told so.
QueryEnds == \/ Items = <<>> \/ Len(Items) < Limit
             \/ Total > 0 /\ cursor * Limit >= Total
             \/ style.more /\ ~HasMore
\* The switches need hasMore, like a GET list, and stop at the record limit.
SwitchEnds == \/ Items = <<>> \/ ~HasMore
              \/ Total > 0 /\ Len(rows) + Len(Items) >= Total
              \/ Len(rows) + Len(Items) >= MaxRecords
VlansEnd == Len(Items) < Limit \/ cursor = MaxPages

Ends == CASE Current.pager = "get"    -> GetEnds
          [] Current.pager = "query"  -> QueryEnds
          [] Current.pager = "switch" -> SwitchEnds
          [] Current.pager = "vlans"  -> VlansEnd
          [] OTHER -> TRUE

NextCursor_PastOne ==
    IF Current.pager = "get" THEN cursor + Len(Items) + 1 ELSE cursor + 1
NextCursor == IF Current.pager = "get" THEN cursor + Len(Items) ELSE cursor + 1

-----------------------------------------------------------------------------
(* Walks begin and end.                                                    *)

\* The APs of one zone are a list of their own, in an order of its own.
Entries(call) ==
    CASE call.list \notin Lists -> <<>>
      [] call.list \in Lists /\ call.zone = None -> world[call.list]
      [] OTHER -> SetToSeq({i \in ToSet(world["ap"]) : Row("ap", i).zone = call.zone})

FirstCursor(call) == IF call.pager = "get" THEN 0 ELSE 1
Fresh(entries) == [steady |-> ToSet(entries), joined |-> 0, left |-> 0]

\* The walk ends having read `read`; how: "ran", "cut" by a failure, "dropped".
EndWalk(read, how) ==
    LET next == Following(Current, read)
    IN  /\ got' = IF Current.list \in Lists
                  THEN [got EXCEPT ![Current.list] = @ \o read] ELSE got
        /\ last' = [walk |-> walk, call |-> Current, read |-> read, how |-> how]
        /\ lost' = IF how = "ran" \/ FallsBack(Current, read) THEN lost
                   ELSE lost \cup {Current.list}
        /\ todo' = next
        /\ rows' = <<>>
        /\ candidate' = 1
        /\ phase' = IF next = <<>> THEN "answered" ELSE phase
        /\ IF next = <<>> THEN UNCHANGED <<cursor, view, walk>>
           ELSE /\ cursor' = FirstCursor(Head(next))
                /\ view' = Entries(Head(next))
                /\ walk' = Fresh(Entries(Head(next)))

Init ==
    /\ job \in Jobs
    /\ style \in [total : BOOLEAN, more : BOOLEAN]
    /\ todo = Program(job)
    /\ \E w \in [Read(job) -> UNION {Initial(l) : l \in Read(job)}] :
            /\ \A l \in Read(job) : w[l] \in Initial(l)
            /\ world = [l \in Lists |-> IF l \in Read(job) THEN w[l] ELSE <<>>]
    /\ cursor = FirstCursor(Head(todo))
    /\ candidate = 1
    /\ rows = <<>>
    /\ got = [l \in Lists |-> <<>>]
    /\ seen = {}
    /\ phase = "fetching"
    /\ view = Entries(Head(todo))
    /\ walk = Fresh(Entries(Head(todo)))
    /\ last = None
    /\ lost = {}
    /\ changes = 0 /\ failures = 0

-----------------------------------------------------------------------------
(* Requests.                                                               *)

Fetching(pagers) == phase = "fetching" /\ Current.pager \in pagers
Paged == {"get", "query", "switch", "vlans", "first", "tried"}

Page ==
    /\ Fetching(Paged)
    /\ IF Ends THEN EndWalk(rows \o Items, "ran")
       ELSE /\ rows' = rows \o Items
            /\ cursor' = NextCursor
            \* each page of the VLANs is a query of its own
            /\ candidate' = IF Current.pager = "vlans" THEN 1 ELSE candidate
            /\ UNCHANGED <<todo, view, got, phase, walk, last, lost>>
    /\ UNCHANGED <<world, style, job, seen, changes, failures>>

\* A single object: a zone's detail and catalogue, a total, the cluster.
Object ==
    /\ Fetching({"one"})
    /\ seen' = seen \cup {<<Current.list, Current.zone>>}
    /\ EndWalk(<<>>, "ran")
    /\ UNCHANGED <<world, style, job, changes, failures>>

Failing == /\ phase = "fetching"
           /\ changes + failures < MaxEvents
           /\ failures' = failures + 1

Retry_KeepsRows ==
    /\ Failing
    /\ Current.pager \in {"switch", "tried", "vlans"}
    /\ candidate < Candidates
    /\ candidate' = candidate + 1
    /\ IF Current.pager = "switch"
       THEN cursor' = 1 /\ walk' = Fresh(view) /\ UNCHANGED rows
       ELSE UNCHANGED <<rows, cursor, walk>>
    /\ UNCHANGED <<world, view, style, job, todo, got, seen, phase, last, lost, changes>>
\* Another version or path of the Switch Manager is tried.  The walk of the
\* switches starts over there, a single query is only sent again.
Retry ==
    /\ Failing
    /\ Current.pager \in {"switch", "tried", "vlans"}
    /\ candidate < Candidates
    /\ candidate' = candidate + 1
    /\ IF Current.pager = "switch"
       THEN rows' = <<>> /\ cursor' = 1 /\ walk' = Fresh(view)
       ELSE UNCHANGED <<rows, cursor, walk>>
    /\ UNCHANGED <<world, view, style, job, todo, got, seen, phase, last, lost, changes>>

OutOfCandidates ==
    Current.pager \in {"switch", "tried", "vlans"} => candidate = Candidates

Fail ==
    /\ Failing
    /\ OutOfCandidates
    /\ CASE Current.onError = "keep" -> EndWalk(rows, "cut") /\ UNCHANGED seen
         [] Current.onError = "drop" -> EndWalk(<<>>, "dropped") /\ UNCHANGED seen
         [] Current.onError = "raise" ->
                /\ phase' = "raised"
                /\ UNCHANGED <<todo, cursor, candidate, rows, view, got, seen, walk, last,
                               lost>>
    /\ UNCHANGED <<world, style, job, changes>>

-----------------------------------------------------------------------------
(* The controller.                                                         *)

Changing ==
    /\ phase = "fetching" /\ Current.list \in Lists
    /\ changes + failures < MaxEvents
    /\ changes' = changes + 1
    /\ UNCHANGED <<world, style, job, todo, cursor, candidate, rows, got, seen, phase, last,
                   lost, failures>>

Join ==
    /\ Changing
    /\ \E i \in Ids(Current.list) \ ToSet(view) :
       \E at \in 1 .. Len(view) + 1 :
            /\ Current.zone # None => Row("ap", i).zone = Current.zone
            /\ view' = InsertAt(view, at, i)
    /\ walk' = [walk EXCEPT !.joined = @ + 1]

Leave ==
    /\ Changing
    /\ \E at \in DOMAIN view :
            /\ view' = RemoveAt(view, at)
            /\ walk' = [walk EXCEPT !.left = @ + 1, !.steady = @ \ {view[at]}]

Done == phase # "fetching" /\ UNCHANGED vars

Request == Page \/ Object \/ Retry \/ Fail
Next == Request \/ Join \/ Leave \/ Done

\* Every request is answered or times out.
Spec == Init /\ [][Next]_vars /\ WF_vars(Request)

-----------------------------------------------------------------------------
(* The answer.                                                             *)

RowsOf(list, ids) == [i \in DOMAIN ids |-> Row(list, ids[i])]
Rows(list) == RowsOf(list, got[list])
Detailed == {z \in ToSet(got["rkszones"]) : <<"detail", z>> \in seen}
Alarmed == Values(Rows("alarm"), LAMBDA r : r.source)

\* An AP of a zone the walk did not list is shown at an unknown site.
Assets == [i \in DOMAIN got["ap"] |->
              LET r == Row("ap", got["ap"][i])
              IN  [id |-> r.id, site |-> IF r.zone \in ToSet(got["rkszones"])
                                         THEN r.zone ELSE None]]

\* A zone whose catalogue did not come has none.
FirmwareItems ==
    [i \in DOMAIN got["rkszones"] |->
        LET z == got["rkszones"][i] IN
        [id |-> z,
         latest |-> Latest(IF z \in Detailed THEN Row("rkszones", z).catalog ELSE <<>>)]]

Nodes == Graph(<<"cluster", None>> \in seen, Rows("rkszones"), Rows("ap"),
               Rows("switch"), Alarmed)

-----------------------------------------------------------------------------
(* Properties.                                                             *)

TypeOK ==
    /\ job \in Jobs /\ phase \in {"fetching", "answered", "raised"}
    /\ (todo = <<>>) = (phase = "answered")
    /\ cursor \in Nat /\ candidate \in 1 .. Candidates
    /\ IsInjective(view)
    /\ \A l \in lost : l \in Lists \cup Objects
    /\ changes \in Nat /\ failures \in Nat /\ changes + failures <= MaxEvents

\* A walk loses an entry that was on the list all along only if another one
\* left meanwhile, one for each, or if a failure ended it; and it reads one
\* twice only if another joined.  So the pages, the versions and paths of
\* the Switch Manager and the resumed walks are never mixed up
\* (smartzone_paged_get, smartzone_query_paged, fetch_switches, vlans.fetch).
Complete(call, size) ==
    CASE call.pager = "query" -> TRUE
      [] call.pager = "get"    -> style.more \/ size <= Limit
      [] call.pager = "switch" -> (style.more \/ size <= Limit) /\ size <= MaxRecords
      [] call.pager = "vlans"  -> size < Limit * MaxPages
      [] OTHER -> size <= Limit

WalkAccounts ==
    last # None /\ last.call.list \in Lists /\ last.how # "dropped" =>
        LET past == last.walk
            ids  == ToSet(last.read)
            size == Cardinality(past.steady) + past.joined + past.left
        IN  /\ Len(last.read) - Cardinality(ids) <= past.joined
            /\ last.how = "ran" /\ Complete(last.call, size) =>
                    Cardinality(past.steady \ ids) <= past.left

\* While the controller does not change a walk that ran to its end has read
\* its list, each entry once and in order, whatever failed and was tried
\* again on the way, if its pager gets that far (the same functions).
QuietWalk ==
    last # None /\ last.call.list \in Lists /\ last.how = "ran" /\ changes = 0
    /\ Complete(last.call, Len(Entries(last.call)))
    => last.read = Entries(last.call)

\* A fetch from a controller that did not change and none of whose rows a
\* failure took away answers with what one look at the controller would
\* have given: every page, its counts and its statuses.  A query for the
\* APs that fails at once is made up for by the lists of the zones.
Has(list, P(_)) == Cardinality({i \in ToSet(world[list]) : P(Row(list, i))})

ExactZones ==
    /\ ZoneItems(Rows("rkszones"), Rows("ap"), Detailed) =
        [i \in DOMAIN world["rkszones"] |->
            LET z == world["rkszones"][i] IN
            [id |-> z, ap_count |-> Has("ap", LAMBDA r : r.zone = z), detail |-> TRUE]]
    /\ ZoneTiles(ZoneItems(Rows("rkszones"), Rows("ap"), Detailed)) =
        [total |-> Len(world["rkszones"]),
         aps |-> Has("ap", LAMBDA r : r.zone \in ToSet(world["rkszones"]))]
ExactAps ==
    LET items == ApItems(Rows("ap"), Rows("client")) IN
    /\ [i \in DOMAIN items |-> items[i].id] = world["ap"]
    /\ \A i \in DOMAIN items :
          LET of(P(_)) == Has("client", LAMBDA c : c.ap = items[i].id /\ c.rssi # 0 /\ P(c))
          IN  IF of(LAMBDA c : TRUE) = 0 THEN items[i].signal = 0
              ELSE /\ of(LAMBDA c : c.rssi <= items[i].signal) > 0
                   /\ of(LAMBDA c : c.rssi >= items[i].signal) > 0
    /\ ApTiles(Rows("ap")).online = Has("ap", LAMBDA r : r.raw = "online")
ExactSites ==
    LET items == SiteItems(Rows("wlan"), Rows("client")) IN
    \A i \in items :
        /\ i.wlans = Has("wlan", LAMBDA w : Or(w.zone, "unknown") = i.id)
        /\ i.clients >= Has("client", LAMBDA c : c.zone = i.id)
        /\ i.id # "unknown" => Size(SiteDrill(Rows("wlan"), i.id)) = i.wlans
ExactInventory ==
    LET known == ToSet(got["rkszones"]) IN
    /\ known = ToSet(world["rkszones"])
    /\ IsInjective(got["ap"])
    /\ \A i \in DOMAIN world["ap"] :
          LET r == Row("ap", world["ap"][i]) IN
          r.zone \in known => [id |-> r.id, site |-> r.zone] \in ToSet(Assets)
    /\ \A z \in known : InZone(Rows("ap"), z) = Has("ap", LAMBDA r : r.zone = z)
ExactFirmware ==
    \A item \in ToSet(FirmwareItems) :
        LET supported == {e.version : e \in {c \in ToSet(Row("rkszones", item.id).catalog) :
                                                c.supported}}
        IN  IF supported = {} THEN item.latest = 0
            ELSE item.latest \in supported /\ \A v \in supported : v <= item.latest
ExactSwitches ==
    \A g \in GroupItems(Rows("switch")) : \A i \in DOMAIN world["switch"] :
        LET r == Row("switch", world["switch"][i]) IN
        g.id # None /\ r.group = g.id => Size(Connected(r, Rows("switch"))) = g.switches - 1
ExactTraffic ==
    LET items == TrafficItems(Rows("traffic"), Rows("switch")) IN
    /\ Len(items) = Len(world["traffic"])
    /\ \A i \in DOMAIN items :
          items[i].named = (Has("switch", LAMBDA r : r.id = items[i].id) > 0)
ExactTotals ==
    LET ap == ApStats(Rows("ap"))  sw == SwitchStats(Rows("switch")) IN
    /\ ap.total = Len(world["ap"])
    /\ ap.online_up = Has("ap", LAMBDA r : r.raw \in {"online", "connect", "flagged"})
    /\ ap.offline = Has("ap", LAMBDA r : r.raw \in {"offline", "disconnect"})
    /\ sw.online = Has("switch", LAMBDA r : r.raw \in {"online", "approved"})
    /\ sw.total = Len(world["switch"])
ExactGraph ==
    \A i \in DOMAIN Nodes :
        LET n == Nodes[i]
            down(r) == r.raw = "offline"
        IN  /\ n.type = "zone" => n.down = Has("ap", LAMBDA r : r.zone = n.id /\ down(r))
            /\ n.type = "group" /\ n.status = "offline" =>
                    Has("switch", LAMBDA r : GroupOf(r) = n.id /\ ~down(r)) = 0
            /\ n.type = "switch" /\ n.status = "online" => n.id \notin Alarmed

Exact ==
    CASE job = "zones"       -> ExactZones
      [] job = "aps"         -> ExactAps
      [] job = "wlans"       -> ExactSites
      [] job = "firmware"    -> ExactFirmware
      [] job = "switches"    -> ExactSwitches
      [] job = "traffic"     -> ExactTraffic
      [] job = "inventory"   -> ExactInventory
      [] job = "operational" -> ExactTotals
      [] job = "topology"    -> ExactGraph
      [] OTHER -> \A l \in Lists : got[l] = world[l]

QuietFetchIsExact ==
    phase = "answered" /\ changes = 0 /\ lost = {}
    /\ (\A l \in Lists : \A c \in ToSet(Program(job)) \cup {Listing} :
            c.list = l => Complete(c, Len(world[l])))
    => Exact

\* The tallies of a page account for every row it has read, even one it has
\* read twice: groups, sites, VLANs, stacks, the leaves of an expanded zone and
\* the rest it only counts, offline leaves first; and no page calls a switch
\* offline that the totals call online, nor the graph one online that its
\* page calls offline.
GroupsAddUp ==
    SumOf(GroupItems(Rows("switch")), LAMBDA g : g.switches) = Len(got["switch"])
SitesAddUp ==
    SumOf(SiteItems(Rows("wlan"), Rows("client")), LAMBDA s : s.wlans) = Len(got["wlan"])
VlansAddUp ==
    SumOf(VlanItems(Rows("vlan")), LAMBDA v : v.ports) = Sum(Rows("vlan"), LAMBDA r : r.ports)
StacksAddUp ==
    LET named == Many(Rows("switch"), LAMBDA r : r.stack \notin {None, r.id})
    IN  named > 0 => SumOf(StackItems(Rows("switch")), LAMBDA s : s.members) = named
SeveritiesAddUp ==
    LET tile == AlarmTiles(Rows("alarm"))
    IN  tile["critical"] + tile["major"] + tile["minor"] + tile["warning"] <= tile["total"]
ClassesAddUp ==
    LET tile == RogueTiles(Rows("rogue"))
    IN  tile["malicious"] + tile["rogue"] + tile["known"] <= tile["total"]
PowerAddsUp ==
    PoeTiles(Rows("switch")).allocated <= PoeTiles(Rows("switch")).budget
SignalsAddUp ==
    ClientTiles(Rows("client")).poor =
        Many(Rows("client"), LAMBDA c : c.rssi < -75 \/ c.rssi \in 1 .. 14)
StatusesAgree ==
    /\ ApStats(Rows("ap")).other >= 0
    /\ GraphTiles(Nodes).offline >= SwitchTiles(Rows("switch")).offline
    /\ SwitchTiles(Rows("switch")).offline <= SwitchStats(Rows("switch")).offline
LeavesAddUp ==
    LET leaves  == Leaves(Rows("ap"))
        down(r) == NodeStatus(r.raw) = "offline"
    IN  /\ Size(leaves.shown) + leaves.extra = Len(got["ap"])
        /\ \/ Many(leaves.shown, down) = Many(Rows("ap"), down)
           \/ Many(leaves.shown, down) = Cap

TalliesAddUp ==
    /\ GroupsAddUp /\ SitesAddUp /\ VlansAddUp /\ StacksAddUp
    /\ SeveritiesAddUp /\ ClassesAddUp /\ PowerAddsUp /\ SignalsAddUp
    /\ StatusesAgree /\ LeavesAddUp

\* Every fetch ends, whatever fails: no retry and no walk goes on for ever
\* while the lists change only so often.
FetchEnds == phase = "fetching" ~> phase # "fetching"
=============================================================================
