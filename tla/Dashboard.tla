------------------------------ MODULE Dashboard ------------------------------
(***************************************************************************)
(* One open page of the dashboard (dashboard.js): the poller and the       *)
(* answers that overtake each other, the list with its tiles, filters and  *)
(* chips, the drill-in with its tabs, and what a report that is mailed of  *)
(* the page holds.                                                         *)
(*                                                                         *)
(* The page is a list of rows or the drill-in of one of them.  Of a row    *)
(* only the columns with a filter matter, and of the columns one of each   *)
(* kind of control: selects, and ranges with a lower bound.                *)
(***************************************************************************)
EXTENDS Integers, FiniteSets

CONSTANTS
    Contents,        \* what the controller may hold: sets of rows
    Selects, Ranges, \* columns filtered by a select, by a range
    Value(_, _),     \* Value(row, column), Empty when the row has none
    Order(_),        \* where a row stands in an answer
    Views, View0,    \* the views of the list, and the one it starts with
    Cap(_),          \* Cap(view): how many rows it shows (table 2000, grid 600)
    Bounds,          \* lower bounds the operator may type
    Tiles,           \* the tiles that filter when clicked
    Clicks(_),       \* Clicks(tile): column -> value; nowhere for "total"
    Poor, Ap,        \* <<column, value>> that brings the chips, and their column
    Tabs,            \* tabs of the drill-in other than "summary"
    Gone,            \* contents without the entity of the drill-in
    Empty, Dash, Off, Blank, None,
    Polls, Others,   \* bound: requests of the poller and others in flight
    MaxChanges, MaxFaults    \* bounds

Keys == Selects \cup Ranges

ASSUME DashboardAssumption ==
    /\ Selects \cap Ranges = {} /\ Ap \in Selects
    /\ Polls \cap Others = {}
    /\ \A t \in Tiles : DOMAIN Clicks(t) \subseteq Selects
    /\ Blank # Off
    /\ \A c \in Contents : IsFiniteSet(c)
    /\ MaxChanges \in Nat /\ MaxFaults \in Nat

ASSUME ViewAssumption ==
    /\ View0 \in Views /\ \A v \in Views : Cap(v) \in Nat
    /\ \A c \in Contents : \A r, q \in c : Order(r) \in Nat /\ (Order(r) = Order(q) => r = q)

VARIABLES
    mode,       \* "list" or "drill"
    open, hidden,
    specs,      \* whether the column and filter metadata were loaded
    contents,   \* what the controller holds
    requests,   \* slot -> None or the request, with its answer once there is one
    items,      \* lastItems: rows of the last list answer
    filters,    \* activeFilters: column -> value or Off
    built,      \* options the controls were built for: column -> values
    control,    \* what each control shows; Blank: a value it has no option for
    tiles,      \* the counts on the tiles, None when the strip has none
    area,       \* "loading", "rows" or "disabled"
    view, toggle, \* the view, and whether the buttons that change it are wired
    shown,      \* the rows in the table, or the cards of the grid
    banner,     \* whether the error banner is up
    hold,       \* lastPayload of the drill-in
    tab, body,  \* the active tab; the section the drill-in shows
    again,      \* history: the page was hidden and shown again
    changes, faults

filtering == <<filters, control, area, view, shown>>
list      == <<items, built, tiles, toggle, filtering>>
drill     == <<hold, tab, body>>
world     == <<contents, changes, faults>>
vars == <<mode, open, hidden, specs, requests, list, banner, drill, again, world>>

-----------------------------------------------------------------------------
(* Filters.                                                                *)

\* In the browser an empty cell counts as 0 in a range ...
Number(v) == IF v = Empty THEN 0 ELSE v
Matches(row, f) ==
    /\ \A k \in Selects : f[k] \in {Off, Value(row, k)}
    /\ \A k \in Ranges : f[k] # Off => Number(Value(row, k)) >= f[k]
Filtered(rows, f) == {r \in rows : Matches(r, f)}

\* ... and in a report, for which the server fetches the rows anew and filters them
\* by the filters the page sends, it matches none.
Mailed_NoRanges(rows, f) ==
    {r \in rows : \A k \in Selects : f[k] \in {Off, Value(r, k)}}
Mailed(rows, f) ==
    {r \in rows :
        /\ \A k \in Selects : f[k] \in {Off, Value(r, k)}
        /\ \A k \in Ranges :
              f[k] # Off => Value(r, k) # Empty /\ Value(r, k) >= f[k]}

Options(rows) == [k \in Selects |-> {Value(r, k) : r \in rows} \ {Empty}]
Unfiltered == [k \in Keys |-> Off]

\* A select shows nothing for a value it has no option for.
Shows(k, v) == IF v = Off \/ v \in built[k] THEN v ELSE Blank
\* Only the selects follow a click on a tile or a chip.
Reflected(f) ==
    IF ~specs THEN control
    ELSE [k \in Keys |-> IF k \in Selects THEN Shows(k, f[k]) ELSE control[k]]

\* The first n of some rows.
FirstOf(rows, n) == {r \in rows : Cardinality({q \in rows : Order(q) < Order(r)}) < n}

\* renderData: the table or the grid anew.
RenderData(rows, f, v) ==
    /\ filters' = f
    /\ view' = v
    /\ area' = "rows"
    /\ shown' = FirstOf(Filtered(rows, f), Cap(v))

\* Controls are built again when the options have changed, with the selections
\* that still are options; the others are no longer filtered by.
Selected(f, options) ==
    [k \in Keys |-> IF k \in Selects /\ f[k] \notin options[k] THEN Off ELSE f[k]]
RenderRows(rows) ==
    LET options == Options(rows)
        rebuild == specs /\ built # options
        f       == IF rebuild THEN Selected(filters, options) ELSE filters
    IN  /\ items' = rows
        /\ built' = IF rebuild THEN options ELSE built
        /\ control' = IF rebuild THEN Selected(f, options) ELSE control
        /\ toggle' = TRUE
        /\ RenderData(rows, f, view)

Counts(rows) ==
    [t \in Tiles |-> Cardinality({r \in rows : \A k \in DOMAIN Clicks(t) :
                                                  Value(r, k) = Clicks(t)[k]})]

-----------------------------------------------------------------------------
(* Requests.                                                               *)

Sent(url, by, t) == [url |-> url, by |-> by, tab |-> t, answer |-> None]
Send(slot, request) == requests' = [requests EXCEPT ![slot] = request]
PageUrl == IF mode = "drill" THEN "entity" ELSE "list"

Init ==
    /\ mode \in {"list", "drill"} /\ specs \in BOOLEAN
    /\ open = TRUE /\ hidden = FALSE
    /\ contents \in Contents
    /\ requests = [s \in Polls \cup Others |-> None]
    /\ items = {} /\ filters = Unfiltered
    /\ built = None /\ control = Unfiltered
    /\ tiles = None /\ area = "loading" /\ shown = {} /\ banner = FALSE
    /\ view = View0 /\ toggle = FALSE
    /\ hold = None /\ tab = "summary" /\ body = None
    /\ again = FALSE
    /\ changes = 0 /\ faults = 0

\* The timer.  Nothing keeps a poll from overtaking the one before.
Tick_List(s) ==
    /\ open /\ ~hidden
    /\ requests[s] = None
    /\ Send(s, Sent("list", "poll", None))
    /\ UNCHANGED <<mode, open, hidden, specs, list, banner, drill, again, world>>
Tick(s) ==
    /\ open /\ ~hidden
    /\ requests[s] = None
    /\ Send(s, Sent(PageUrl, "poll", None))
    /\ UNCHANGED <<mode, open, hidden, specs, list, banner, drill, again, world>>

Hide ==
    /\ open /\ ~hidden
    /\ hidden' = TRUE
    /\ UNCHANGED <<mode, open, specs, requests, list, banner, drill, again, world>>

\* The page is polled at once when it comes back, by the URL of its list:
\* the drill-in too.
Show(s) ==
    /\ open /\ hidden
    /\ requests[s] = None
    /\ hidden' = FALSE
    /\ again' = TRUE
    /\ Send(s, Sent("list", "show", None))
    /\ UNCHANGED <<mode, open, specs, list, banner, drill, world>>

\* What the server makes of a request: the rows, none and the errors when
\* every controller failed, the capabilities the controller lacks, a session
\* that has ended, or no answer.
Payload(kind, url, rows, errors) == [kind |-> kind, of |-> url, rows |-> rows, errors |-> errors]
Faulty(url) ==
    {Payload("expired", url, {}, FALSE), Payload("broken", url, {}, FALSE)} \cup
    IF url = "list"
    THEN {Payload("rows", url, {}, TRUE), Payload("disabled", url, {}, FALSE)}
    ELSE {}

Answer(s) ==
    /\ requests[s] # None /\ requests[s].answer = None
    /\ \E p \in {Payload("rows", requests[s].url, contents, FALSE)} \cup
                (IF faults < MaxFaults THEN Faulty(requests[s].url) ELSE {}) :
            /\ Send(s, [requests[s] EXCEPT !.answer = p])
            /\ faults' = IF p.kind = "rows" /\ ~p.errors THEN faults ELSE faults + 1
    /\ UNCHANGED <<mode, open, hidden, specs, list, banner, drill, again, contents, changes>>

\* The controller's rows change.
Change ==
    /\ changes < MaxChanges
    /\ contents' \in Contents \ {contents}
    /\ changes' = changes + 1
    /\ UNCHANGED <<mode, open, hidden, specs, requests, list, banner, drill, again, faults>>

-----------------------------------------------------------------------------
(* Answers reach the page.                                                 *)

Arrived(s) == open /\ requests[s] # None /\ requests[s].answer # None
Reply(s) == requests[s].answer

\* Back to the start page.
Expire(s) ==
    /\ Arrived(s) /\ Reply(s).kind = "expired" /\ requests[s].by # "tab"
    /\ open' = FALSE
    /\ requests' = [r \in DOMAIN requests |-> None]
    /\ UNCHANGED <<mode, hidden, specs, list, banner, drill, again, world>>

\* A failed poll puts up the banner, the one of a page that came back does not.
Break(s) ==
    /\ Arrived(s) /\ Reply(s).kind = "broken" /\ requests[s].by # "tab"
    /\ Send(s, None)
    /\ banner' = (banner \/ requests[s].by = "poll")
    /\ UNCHANGED <<mode, open, hidden, specs, list, drill, again, world>>

\* The tiles are drawn, then the page stops at the notice: rows, filters and
\* banner stay.
RenderDisabled(s) ==
    /\ Arrived(s) /\ mode = "list" /\ Reply(s).kind = "disabled"
    /\ Send(s, None)
    /\ tiles' = None
    /\ area' = "disabled"
    /\ UNCHANGED <<mode, open, hidden, specs, items, built, filters, control, view, toggle,
                   shown, banner, drill, again, world>>

RenderList_KeepsTiles(s) ==
    /\ Arrived(s) /\ mode = "list" /\ Reply(s).kind = "rows"
    /\ Send(s, None)
    /\ tiles' = IF Reply(s).errors THEN tiles ELSE Counts(Reply(s).rows)
    /\ RenderRows(Reply(s).rows)
    /\ banner' = Reply(s).errors
    /\ UNCHANGED <<mode, open, hidden, specs, drill, again, world>>
RenderList(s) ==
    /\ Arrived(s) /\ mode = "list" /\ Reply(s).kind = "rows"
    /\ Send(s, None)
    /\ tiles' = IF Reply(s).errors THEN None ELSE Counts(Reply(s).rows)
    /\ RenderRows(Reply(s).rows)
    /\ banner' = Reply(s).errors
    /\ UNCHANGED <<mode, open, hidden, specs, drill, again, world>>

Section(t, p) == [tab |-> t, of |-> p.of, rows |-> p.rows]

\* The drill-in is built from the first answer; a later one is only kept for
\* the next switch of tabs.
RenderDrill_Once(s) ==
    /\ Arrived(s) /\ mode = "drill" /\ Reply(s).kind \in {"rows", "disabled"}
    /\ requests[s].by # "tab"
    /\ Send(s, None)
    /\ hold' = IF hold = None THEN Reply(s) ELSE hold
    /\ body' = IF hold = None THEN Section("summary", Reply(s)) ELSE body
    /\ UNCHANGED <<mode, open, hidden, specs, list, banner, tab, again, world>>
RenderDrill(s) ==
    /\ Arrived(s) /\ mode = "drill" /\ Reply(s).kind \in {"rows", "disabled"}
    /\ requests[s].by # "tab"
    /\ Send(s, None)
    /\ hold' = Reply(s)
    /\ body' = IF hold = None THEN Section("summary", Reply(s)) ELSE body
    /\ UNCHANGED <<mode, open, hidden, specs, list, banner, tab, again, world>>

\* The answer for a tab is shown, whichever tab is active by then.
RenderTab(s) ==
    /\ Arrived(s) /\ requests[s].by = "tab"
    /\ Send(s, None)
    /\ IF Reply(s).kind = "rows"
       THEN hold' = Reply(s) /\ body' = Section(requests[s].tab, Reply(s))
       ELSE body' = None /\ UNCHANGED hold
    /\ UNCHANGED <<mode, open, hidden, specs, list, banner, tab, again, world>>

-----------------------------------------------------------------------------
(* The operator.                                                           *)

OnList == open /\ mode = "list"
Wired == OnList /\ specs /\ built # None
Staying == UNCHANGED <<mode, open, hidden, specs, requests, items, tiles, toggle,
                       banner, drill, again, world>>

Choose(k) ==
    /\ Wired
    /\ \E v \in {Off} \cup (IF k \in Selects THEN built[k] ELSE Bounds) :
          /\ control' = [control EXCEPT ![k] = v]
          /\ RenderData(items, [filters EXCEPT ![k] = v], view)
    /\ UNCHANGED built /\ Staying

\* A second click on a tile takes its filter off, "total" takes all off.
Toggled(f, clicks) ==
    IF DOMAIN clicks = {} THEN Unfiltered
    ELSE [k \in Keys |-> IF k \notin DOMAIN clicks THEN f[k]
                         ELSE IF f[k] = clicks[k] THEN Off ELSE clicks[k]]
ClickTile_ControlsStay(t) ==
    /\ OnList /\ tiles # None
    /\ LET f == Toggled(filters, Clicks(t))
       IN  RenderData(items, f, view) /\ UNCHANGED control
    /\ UNCHANGED built /\ Staying
ClickTile_TableStays(t) ==
    /\ OnList /\ tiles # None
    /\ filters' = Toggled(filters, Clicks(t))
    /\ control' = Reflected(filters')
    /\ UNCHANGED <<area, view, shown, built>> /\ Staying
ClickTile(t) ==
    /\ OnList /\ tiles # None
    /\ LET f == Toggled(filters, Clicks(t))
       IN  RenderData(items, f, view) /\ control' = Reflected(f)
    /\ UNCHANGED built /\ Staying

ToggleView(v) ==
    /\ OnList /\ toggle
    /\ RenderData(items, filters, v)
    /\ UNCHANGED <<built, control>> /\ Staying

\* While the list is narrowed to poor signals there is a chip for each AP of the
\* rows that match, shown or not, for no AP under a dash.  (For twenty APs at most.)
Chip(row) == IF Value(row, Ap) = Empty THEN Dash ELSE Value(row, Ap)
ClickChip(v) ==
    /\ OnList /\ area = "rows" /\ filters[Poor[1]] = Poor[2]
    /\ LET f == [filters EXCEPT ![Ap] = IF @ = v THEN Off ELSE v]
       IN  RenderData(items, f, view) /\ control' = Reflected(f)
    /\ UNCHANGED built /\ Staying

Clear ==
    /\ Wired
    /\ built' = Options(items)
    /\ control' = Unfiltered
    /\ RenderData(items, Unfiltered, view)
    /\ Staying

\* A tab is shown from the payload at hand, and asked for when it lacks it.
Has(p, t) == t = "summary" \/ (p.of # "list" /\ p.kind = "rows" /\ p.rows \notin Gone)
ClickTab(t, s) ==
    /\ open /\ mode = "drill" /\ hold # None
    /\ tab' = t
    /\ IF Has(hold, t)
       THEN body' = Section(t, hold) /\ UNCHANGED requests
       ELSE /\ requests[s] = None
            /\ body' = None
            /\ Send(s, Sent("entity", "tab", t))
    /\ UNCHANGED <<mode, open, hidden, specs, list, banner, hold, again, world>>

Operate ==
    \/ \E k \in Keys : Choose(k)
    \/ \E t \in Tiles : ClickTile(t)
    \/ \E r \in Filtered(items, filters) : ClickChip(Chip(r))
    \/ \E v \in Views : ToggleView(v)
    \/ Clear
    \/ \E t \in Tabs \cup {"summary"}, s \in Others : ClickTab(t, s)

Deliver(s) == \/ Expire(s) \/ Break(s) \/ RenderDisabled(s) \/ RenderList(s)
              \/ RenderDrill(s) \/ RenderTab(s)

Left == ~open /\ UNCHANGED vars

Next ==
    \/ \E s \in Polls : Tick(s)
    \/ Hide
    \/ \E s \in Others : Show(s)
    \/ \E s \in Polls \cup Others : Answer(s) \/ Deliver(s)
    \/ Change
    \/ Operate
    \/ Left

\* The timer fires, its requests are answered, the answers arrive.
Spec ==
    /\ Init /\ [][Next]_vars
    /\ \A s \in Polls : WF_vars(Tick(s)) /\ WF_vars(Answer(s)) /\ WF_vars(Deliver(s))

-----------------------------------------------------------------------------
(* Properties.                                                             *)

Rows == UNION Contents
Cells == {Value(r, k) : r \in Rows, k \in Keys} \cup Bounds \cup {Dash}
         \cup UNION {{Clicks(t)[k] : k \in DOMAIN Clicks(t)} : t \in Tiles}
Slots == Polls \cup Others
Sections == Tabs \cup {"summary"}
Payloads ==
    [kind : {"rows", "disabled", "expired", "broken"}, of : {"list", "entity"},
     rows : Contents \cup {{}}, errors : BOOLEAN]
Requests ==
    [url : {"list", "entity"}, by : {"poll", "show", "tab"}, tab : Tabs \cup {None},
     answer : Payloads \cup {None}]

RequestsOK ==
    /\ requests \in [Slots -> Requests \cup {None}]
    /\ \A s \in Slots :
          requests[s] # None /\ requests[s].by = "tab" => requests[s].tab \in Tabs

ListOK ==
    /\ items \in Contents \cup {{}} /\ shown \subseteq items
    /\ filters \in [Keys -> Cells \cup {Off}]
    /\ control \in [Keys -> Cells \cup {Off, Blank}]
    /\ built \in [Selects -> SUBSET Cells] \cup {None}
    /\ tiles \in [Tiles -> Nat] \cup {None}
    /\ area \in {"loading", "rows", "disabled"}
    /\ view \in Views /\ toggle \in BOOLEAN

DrillOK ==
    /\ hold \in Payloads \cup {None}
    /\ tab \in Sections
    /\ body \in [tab : Sections, of : {"list", "entity"}, rows : Contents \cup {{}}] \cup {None}

\* The shape of the page: its table shows rows of the last answer only, and
\* what it holds of a drill-in is a whole payload.
TypeOK ==
    /\ mode \in {"list", "drill"}
    /\ open \in BOOLEAN /\ hidden \in BOOLEAN /\ specs \in BOOLEAN
    /\ banner \in BOOLEAN /\ again \in BOOLEAN
    /\ contents \in Contents
    /\ RequestsOK /\ ListOK /\ DrillOK
    /\ changes \in 0 .. MaxChanges /\ faults \in 0 .. MaxFaults

\* A select says "All" exactly when its column is not filtered, and names the
\* value it is filtered by or is blank, whatever tiles, chips, rebuilds of the
\* controls and answers came in between (renderFilters, applyKpiFilter).
SelectsTellFilter ==
    built # None => \A k \in Selects :
        /\ control[k] = Off <=> filters[k] = Off
        /\ control[k] \in {filters[k], Blank}

\* What stands in the table or the grid is the last list answer under the filters
\* in force, cut after the rows that the view in force has room for (renderData
\* after every change of any of them): all of it if it fits.
ShownIsFiltered ==
    area = "rows" =>
        LET hits == Filtered(items, filters)
        IN  /\ shown = FirstOf(hits, Cap(view))
            /\ Cardinality(hits) <= Cap(view) => shown = hits

\* The numbers on the tiles and the rows below are of one answer, also when
\* answers overtake each other (renderModule); after an answer with no data
\* there are no numbers.
TilesCountRows == tiles # None => tiles = Counts(items)

\* What a report ordered now may differ in from the page, whatever the controller
\* holds by the time the server collects it (wireEmailTab, _valid_filters and
\* apply_filter against _applyFilters).  A row that is mailed and not shown joined
\* since the answer the page shows, or had no room in the view; a row that is shown
\* and not mailed left since, or has an empty cell in a column with a range.
MailFitsPage ==
    area = "rows" =>
        \A c \in Contents :
            LET sent == Mailed(c, filters)
            IN  /\ \A r \in sent \ shown :
                      r \in items => Cardinality(Filtered(items, filters)) > Cap(view)
                /\ \A r \in shown \ sent :
                      r \in c => \E k \in Ranges : filters[k] # Off /\ Value(r, k) = Empty

\* A drill-in is never built from the payload of a list, unless the page was
\* hidden and shown again (startModulePoller passes the entity, the
\* visibilitychange handler does not).
DrillKeepsEntity ==
    mode = "drill" /\ ~again =>
        /\ hold # None => hold.of = "entity"
        /\ body # None => body.of = "entity"

\* A page left open and in sight ends up with what the controller holds, the
\* list in its table and tiles, the drill-in in the payload its tabs are
\* drawn from, in spite of failed, late and overtaken answers.
FreshInTheEnd ==
    <>[](open /\ ~hidden) =>
        <>[](IF mode = "list" THEN area = "rows" /\ items = contents
             ELSE hold # None /\ hold.of = "entity" /\ hold.rows = contents)
=============================================================================
