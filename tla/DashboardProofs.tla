--------------------------- MODULE DashboardProofs ---------------------------
(***************************************************************************)
(* Proofs about Dashboard: its type, and that table, tiles, controls,      *)
(* mailed reports and the drill-in agree with what they come from.         *)
(***************************************************************************)
EXTENDS Dashboard, FiniteSetTheorems, TLAPS

USE DashboardAssumption

-----------------------------------------------------------------------------
(* Types.                                                                  *)

LEMMA RowsAreRows ==
    ASSUME NEW c \in Contents \cup {{}}, NEW r \in c
    PROVE  r \in Rows
BY DEF Rows

LEMMA CellsOfRows ==
    ASSUME NEW r \in Rows, NEW k \in Keys
    PROVE  Value(r, k) \in Cells
BY DEF Cells

LEMMA OptionsAreCells ==
    ASSUME NEW c \in Contents \cup {{}}
    PROVE  Options(c) \in [Selects -> SUBSET Cells]
<1>1. ASSUME NEW k \in Selects PROVE {Value(r, k) : r \in c} \ {Empty} \subseteq Cells
    BY <1>1, RowsAreRows, CellsOfRows DEF Keys
<1> QED BY <1>1 DEF Options

LEMMA CountsAreNumbers ==
    ASSUME NEW c \in Contents \cup {{}}
    PROVE  Counts(c) \in [Tiles -> Nat]
<1>1. IsFiniteSet(c) BY FS_EmptySet
<1>2. ASSUME NEW S, S \subseteq c PROVE Cardinality(S) \in Nat
    BY <1>1, <1>2, FS_Subset, FS_CardinalityType
<1>3. ASSUME NEW t \in Tiles
      PROVE  Cardinality({r \in c : \A k \in DOMAIN Clicks(t) :
                                        Value(r, k) = Clicks(t)[k]}) \in Nat
    BY <1>2
<1> QED BY <1>3 DEF Counts

LEMMA FilteredAreItems ==
    ASSUME NEW c, NEW f PROVE Filtered(c, f) \subseteq c
BY DEF Filtered

LEMMA FirstAreRows ==
    ASSUME NEW c, NEW n PROVE FirstOf(c, n) \subseteq c
BY DEF FirstOf

\* The first n of no more than n rows are all of them.
LEMMA FirstOfFew ==
    ASSUME NEW c, IsFiniteSet(c), \A r \in c : Order(r) \in Nat,
           NEW n \in Nat, Cardinality(c) <= n
    PROVE  FirstOf(c, n) = c
<1> SUFFICES ASSUME NEW r \in c
             PROVE  Cardinality({q \in c : Order(q) < Order(r)}) < n
    BY DEF FirstOf
<1> DEFINE before == {q \in c : Order(q) < Order(r)}
<1>1. before \subseteq c /\ before # c
  <2>1. ~(Order(r) < Order(r)) OBVIOUS
  <2> QED BY <2>1
<1>2. /\ IsFiniteSet(before) /\ Cardinality(before) <= Cardinality(c)
      /\ Cardinality(before) = Cardinality(c) => before = c
    BY <1>1, FS_Subset
<1>3. Cardinality(before) \in Nat /\ Cardinality(c) \in Nat
    BY <1>2, FS_CardinalityType
<1> HIDE DEF before
<1>4. Cardinality(before) < n BY <1>1, <1>2, <1>3
<1> QED BY <1>4 DEF before

LEMMA SelectedType ==
    ASSUME NEW V, Off \in V, NEW f \in [Keys -> V], NEW o
    PROVE  Selected(f, o) \in [Keys -> V]
BY DEF Selected

LEMMA ToggledType ==
    ASSUME NEW f \in [Keys -> Cells \cup {Off}], NEW t \in Tiles
    PROVE  Toggled(f, Clicks(t)) \in [Keys -> Cells \cup {Off}]
<1>1. \A k \in DOMAIN Clicks(t) : Clicks(t)[k] \in Cells BY DEF Cells
<1> QED BY <1>1 DEF Toggled, Unfiltered

LEMMA ReflectedType ==
    ASSUME control \in [Keys -> Cells \cup {Off, Blank}],
           NEW f \in [Keys -> Cells \cup {Off}]
    PROVE  Reflected(f) \in [Keys -> Cells \cup {Off, Blank}]
BY DEF Reflected, Shows

LEMMA FaultyAreTyped ==
    ASSUME NEW url \in {"list", "entity"}
    PROVE  /\ Faulty(url) \subseteq Payloads
           /\ \A p \in Faulty(url) : p.of = url
<1>1. ASSUME NEW kind \in {"rows", "disabled", "expired", "broken"}, NEW e \in BOOLEAN
      PROVE  Payload(kind, url, {}, e) \in Payloads /\ Payload(kind, url, {}, e).of = url
    BY DEF Payload, Payloads
<1> QED BY <1>1 DEF Faulty

LEMMA PlainPayload ==
    ASSUME NEW url \in {"list", "entity"}, NEW c \in Contents
    PROVE  /\ Payload("rows", url, c, FALSE) \in Payloads
           /\ Payload("rows", url, c, FALSE).of = url
BY DEF Payload, Payloads

\* Putting a request or its answer into a slot.
LEMMA SendType ==
    ASSUME RequestsOK, NEW s \in Slots, NEW q \in Requests \cup {None},
           q # None /\ q.by = "tab" => q.tab \in Tabs,
           Send(s, q)
    PROVE  RequestsOK'
BY DEF RequestsOK, Send

\* The payload that arrives.
LEMMA ReplyType ==
    ASSUME RequestsOK, NEW s \in Slots, Arrived(s)
    PROVE  requests[s] \in Requests /\ Reply(s) \in Payloads
BY DEF RequestsOK, Arrived, Reply, Requests

LEMMA RenderDataType ==
    ASSUME NEW rows, NEW f \in [Keys -> Cells \cup {Off}], NEW v \in Views,
           RenderData(rows, f, v)
    PROVE  /\ filters' \in [Keys -> Cells \cup {Off}]
           /\ view' \in Views
           /\ shown' \subseteq rows
           /\ area' = "rows"
<1>1. FirstOf(Filtered(rows, f), Cap(v)) \subseteq rows
    BY FirstAreRows, FilteredAreItems
<1> QED BY <1>1 DEF RenderData

LEMMA RenderRowsType ==
    ASSUME ListOK, NEW rows \in Contents \cup {{}}, RenderRows(rows),
           tiles' \in [Tiles -> Nat] \cup {None}
    PROVE  ListOK'
<1> DEFINE options == Options(rows)
           rebuild == specs /\ built # options
           f == IF rebuild THEN Selected(filters, options) ELSE filters
<1>1. options \in [Selects -> SUBSET Cells] BY OptionsAreCells
<1>2. f \in [Keys -> Cells \cup {Off}]
    BY SelectedType DEF ListOK
<1>3. Selected(f, options) \in [Keys -> Cells \cup {Off, Blank}]
    BY <1>2, SelectedType
<1>4. items' = rows /\ toggle' = TRUE /\ RenderData(rows, f, view) BY DEF RenderRows
<1>5. built' \in [Selects -> SUBSET Cells] \cup {None}
    BY <1>1 DEF RenderRows, ListOK
<1>6. control' \in [Keys -> Cells \cup {Off, Blank}]
    BY <1>3 DEF RenderRows, ListOK
<1>7. /\ filters' \in [Keys -> Cells \cup {Off}] /\ view' \in Views
      /\ shown' \subseteq rows /\ area' = "rows"
  <2>1. view \in Views BY DEF ListOK
  <2> QED BY <1>2, <1>4, <2>1, RenderDataType
<1> QED BY <1>4, <1>5, <1>6, <1>7 DEF ListOK

LEMMA SameRequests ==
    ASSUME RequestsOK, UNCHANGED requests PROVE RequestsOK'
BY DEF RequestsOK

LEMMA SameList ==
    ASSUME ListOK, UNCHANGED list PROVE ListOK'
BY DEF ListOK, list, filtering

LEMMA SameDrill ==
    ASSUME DrillOK, UNCHANGED drill PROVE DrillOK'
BY DEF DrillOK, drill

\* A slot that is emptied.
LEMMA EmptiedType ==
    ASSUME RequestsOK, NEW s \in Slots, Send(s, None) PROVE RequestsOK'
BY SendType

\* A click on a filter: the table anew, controls that follow it.
LEMMA RefilterType ==
    ASSUME ListOK, NEW f \in [Keys -> Cells \cup {Off}], NEW v \in Views,
           RenderData(items, f, v),
           control' \in [Keys -> Cells \cup {Off, Blank}],
           built' \in [Selects -> SUBSET Cells] \cup {None},
           UNCHANGED <<items, tiles, toggle>>
    PROVE  ListOK'
BY RenderDataType DEF ListOK

LEMMA TypeInit == Init => TypeOK
<1> SUFFICES ASSUME Init PROVE TypeOK
    OBVIOUS
<1>1. RequestsOK BY DEF Init, RequestsOK, Slots
<1>2. ListOK BY ViewAssumption DEF Init, ListOK, Unfiltered
<1>3. DrillOK BY DEF Init, DrillOK, Sections
<1>4. /\ mode \in {"list", "drill"}
      /\ open \in BOOLEAN /\ hidden \in BOOLEAN /\ specs \in BOOLEAN
      /\ banner \in BOOLEAN /\ again \in BOOLEAN
      /\ contents \in Contents
    BY DEF Init
<1>5. changes \in 0 .. MaxChanges /\ faults \in 0 .. MaxFaults BY DEF Init
<1> QED BY <1>1, <1>2, <1>3, <1>4, <1>5 DEF TypeOK

LEMMA TypeNext == TypeOK /\ [Next]_vars => TypeOK'
<1> SUFFICES ASSUME TypeOK, [Next]_vars PROVE TypeOK'
    OBVIOUS
<1> USE DEF Slots
<1>0. RequestsOK /\ ListOK /\ DrillOK /\ faults \in Nat /\ changes \in Nat /\ view \in Views
    BY DEF TypeOK, ListOK
<1>1. ASSUME NEW s \in Polls, Tick(s) PROVE TypeOK'
  <2>1. Sent(PageUrl, "poll", None) \in Requests
      BY DEF Sent, Requests, PageUrl
  <2>2. RequestsOK'
    <3>1. Sent(PageUrl, "poll", None).by # "tab" BY DEF Sent
    <3> QED BY <1>0, <1>1, <2>1, <3>1, SendType DEF Tick
  <2> QED BY <1>0, <1>1, <2>2, SameList, SameDrill DEF Tick, TypeOK, world
<1>2. ASSUME Hide PROVE TypeOK'
    BY <1>0, <1>2, SameRequests, SameList, SameDrill DEF Hide, TypeOK, world
<1>3. ASSUME NEW s \in Others, Show(s) PROVE TypeOK'
  <2>1. Sent("list", "show", None) \in Requests /\ Sent("list", "show", None).by # "tab"
      BY DEF Sent, Requests
  <2>2. RequestsOK' BY <1>0, <1>3, <2>1, SendType DEF Show
  <2> QED BY <1>0, <1>3, <2>2, SameList, SameDrill DEF Show, TypeOK, world
<1>4. ASSUME NEW s \in Slots, Answer(s) PROVE TypeOK'
  <2>1. requests[s] \in Requests /\ requests[s].url \in {"list", "entity"}
      BY <1>0, <1>4 DEF Answer, RequestsOK, Requests
  <2>2. PICK p \in {Payload("rows", requests[s].url, contents, FALSE)} \cup
                    (IF faults < MaxFaults THEN Faulty(requests[s].url) ELSE {}) :
              /\ Send(s, [requests[s] EXCEPT !.answer = p])
              /\ faults' = IF p.kind = "rows" /\ ~p.errors THEN faults ELSE faults + 1
      BY <1>4 DEF Answer
  <2>3. p \in Payloads
      BY <2>1, <2>2, FaultyAreTyped, PlainPayload DEF TypeOK
  <2>4. RequestsOK'
    <3>1. [requests[s] EXCEPT !.answer = p] \in Requests BY <2>1, <2>3 DEF Requests
    <3>2. /\ [requests[s] EXCEPT !.answer = p].by = requests[s].by
          /\ [requests[s] EXCEPT !.answer = p].tab = requests[s].tab
        BY <2>1 DEF Requests
    <3>3. requests[s].by = "tab" => requests[s].tab \in Tabs
        BY <1>0, <1>4 DEF RequestsOK, Answer
    <3> QED BY <1>0, <2>2, <3>1, <3>2, <3>3, SendType
  <2>5. faults' \in 0 .. MaxFaults
    <3>1. CASE faults < MaxFaults BY <2>2, <3>1, <1>0
    <3>2. CASE ~(faults < MaxFaults)
      <4>1. p.kind = "rows" /\ ~p.errors BY <2>2, <3>2 DEF Payload
      <4> QED BY <2>2, <4>1 DEF TypeOK
    <3> QED BY <3>1, <3>2
  <2> QED BY <1>0, <1>4, <2>4, <2>5, SameList, SameDrill DEF Answer, TypeOK
<1>5. ASSUME NEW s \in Slots, Expire(s) PROVE TypeOK'
  <2>1. RequestsOK' BY <1>0, <1>5 DEF Expire, RequestsOK
  <2> QED BY <1>0, <1>5, <2>1, SameList, SameDrill DEF Expire, TypeOK, world
<1>6. ASSUME NEW s \in Slots, Break(s) PROVE TypeOK'
  <2>1. RequestsOK' BY <1>0, <1>6, EmptiedType DEF Break
  <2>2. banner' \in BOOLEAN BY <1>6 DEF Break, TypeOK
  <2> QED BY <1>0, <1>6, <2>1, <2>2, SameList, SameDrill DEF Break, TypeOK, world
<1>7. ASSUME NEW s \in Slots, RenderDisabled(s) PROVE TypeOK'
  <2>1. RequestsOK' BY <1>0, <1>7, EmptiedType DEF RenderDisabled
  <2>2. ListOK' BY <1>0, <1>7 DEF RenderDisabled, ListOK
  <2> QED BY <1>0, <1>7, <2>1, <2>2, SameDrill DEF RenderDisabled, TypeOK, world
<1>8. ASSUME NEW s \in Slots, RenderList(s) PROVE TypeOK'
  <2>1. Reply(s) \in Payloads BY <1>0, <1>8, ReplyType DEF RenderList
  <2>2. Reply(s).rows \in Contents \cup {{}} /\ Reply(s).errors \in BOOLEAN
      BY <2>1 DEF Payloads
  <2>3. tiles' \in [Tiles -> Nat] \cup {None}
      BY <1>8, <2>2, CountsAreNumbers DEF RenderList
  <2>4. ListOK' BY <1>0, <1>8, <2>2, <2>3, RenderRowsType DEF RenderList
  <2>5. RequestsOK' BY <1>0, <1>8, EmptiedType DEF RenderList
  <2> QED BY <1>0, <1>8, <2>2, <2>4, <2>5, SameDrill DEF RenderList, TypeOK, world
<1>9. ASSUME NEW s \in Slots, RenderDrill(s) PROVE TypeOK'
  <2>1. Reply(s) \in Payloads BY <1>0, <1>9, ReplyType DEF RenderDrill
  <2>2. DrillOK'
      BY <1>0, <1>9, <2>1 DEF RenderDrill, DrillOK, Section, Sections, Payloads
  <2>3. RequestsOK' BY <1>0, <1>9, EmptiedType DEF RenderDrill
  <2> QED BY <1>0, <1>9, <2>2, <2>3, SameList DEF RenderDrill, TypeOK, world
<1>10. ASSUME NEW s \in Slots, RenderTab(s) PROVE TypeOK'
  <2>1. Reply(s) \in Payloads BY <1>0, <1>10, ReplyType DEF RenderTab
  <2>2. requests[s].tab \in Tabs BY <1>0, <1>10 DEF RenderTab, Arrived, RequestsOK
  <2>3. DrillOK'
      BY <1>0, <1>10, <2>1, <2>2 DEF RenderTab, DrillOK, Section, Sections, Payloads
  <2>4. RequestsOK' BY <1>0, <1>10, EmptiedType DEF RenderTab
  <2> QED BY <1>0, <1>10, <2>3, <2>4, SameList DEF RenderTab, TypeOK, world
<1>11. ASSUME Change PROVE TypeOK'
    BY <1>0, <1>11, SameRequests, SameList, SameDrill DEF Change, TypeOK
<1>12. ASSUME ListOK', Staying PROVE TypeOK'
    BY <1>0, <1>12, SameRequests, SameDrill DEF Staying, TypeOK, world
<1>13. ASSUME NEW k \in Keys, Choose(k) PROVE TypeOK'
  <2>1. PICK v \in {Off} \cup (IF k \in Selects THEN built[k] ELSE Bounds) :
            /\ control' = [control EXCEPT ![k] = v]
            /\ RenderData(items, [filters EXCEPT ![k] = v], view)
      BY <1>13 DEF Choose
  <2>2. v \in Cells \cup {Off}
    <3>1. CASE k \in Selects
        BY <1>0, <1>13, <2>1, <3>1 DEF Choose, Wired, ListOK
    <3>2. CASE k \notin Selects BY <2>1, <3>2 DEF Cells
    <3> QED BY <3>1, <3>2
  <2>3. [filters EXCEPT ![k] = v] \in [Keys -> Cells \cup {Off}]
      BY <1>0, <2>2 DEF ListOK
  <2>4. control' \in [Keys -> Cells \cup {Off, Blank}]
      BY <1>0, <2>1, <2>2 DEF ListOK
  <2>5. built' \in [Selects -> SUBSET Cells] \cup {None} /\ UNCHANGED <<items, tiles, toggle>>
      BY <1>0, <1>13 DEF Choose, Staying, ListOK
  <2>6. ListOK' BY <1>0, <2>1, <2>3, <2>4, <2>5, RefilterType
  <2> QED BY <1>12, <1>13, <2>6 DEF Choose
<1>14. ASSUME NEW f \in [Keys -> Cells \cup {Off}], RenderData(items, f, view),
              control' = Reflected(f), UNCHANGED built, Staying
       PROVE  TypeOK'
  <2>1. control' \in [Keys -> Cells \cup {Off, Blank}]
      BY <1>0, <1>14, ReflectedType DEF ListOK
  <2>2. built' \in [Selects -> SUBSET Cells] \cup {None} /\ UNCHANGED <<items, tiles, toggle>>
      BY <1>0, <1>14 DEF Staying, ListOK
  <2>3. ListOK' BY <1>0, <1>14, <2>1, <2>2, RefilterType
  <2> QED BY <1>12, <1>14, <2>3
<1>15. ASSUME NEW t \in Tiles, ClickTile(t) PROVE TypeOK'
  <2>1. Toggled(filters, Clicks(t)) \in [Keys -> Cells \cup {Off}]
      BY <1>0, ToggledType DEF ListOK
  <2> QED BY <1>14, <1>15, <2>1 DEF ClickTile
<1>16. ASSUME NEW r \in Filtered(items, filters), ClickChip(Chip(r)) PROVE TypeOK'
  <2> DEFINE v == Chip(r)
             f == [filters EXCEPT ![Ap] = IF @ = v THEN Off ELSE v]
  <2>1. v \in Cells
    <3>1. r \in Rows BY <1>0, RowsAreRows, FilteredAreItems DEF ListOK
    <3>2. Value(r, Ap) \in Cells BY <3>1, CellsOfRows DEF Keys
    <3>3. Dash \in Cells BY DEF Cells
    <3> QED BY <3>2, <3>3 DEF Chip
  <2>2. f \in [Keys -> Cells \cup {Off}] BY <1>0, <2>1 DEF ListOK
  <2>3. RenderData(items, f, view) /\ control' = Reflected(f) /\ UNCHANGED built /\ Staying
      BY <1>16 DEF ClickChip
  <2> QED BY <1>14, <2>2, <2>3
<1>17. ASSUME Clear PROVE TypeOK'
  <2>1. Unfiltered \in [Keys -> Cells \cup {Off}] BY DEF Unfiltered
  <2>2. built' \in [Selects -> SUBSET Cells]
      BY <1>0, <1>17, OptionsAreCells DEF Clear, ListOK
  <2>3. RenderData(items, Unfiltered, view) /\ UNCHANGED <<items, tiles, toggle>> /\ Staying
      BY <1>17 DEF Clear, Staying
  <2>4. control' \in [Keys -> Cells \cup {Off, Blank}]
      BY <1>17 DEF Clear, Unfiltered
  <2>5. ListOK' BY <1>0, <2>1, <2>2, <2>3, <2>4, RefilterType
  <2> QED BY <1>12, <2>3, <2>5
<1>18. ASSUME NEW t \in Sections, NEW s \in Others, ClickTab(t, s) PROVE TypeOK'
  <2>1. CASE Has(hold, t)
    <3>1. UNCHANGED requests BY <1>18, <2>1 DEF ClickTab
    <3>2. DrillOK'
        BY <1>0, <1>18, <2>1 DEF ClickTab, DrillOK, Section, Payloads
    <3> QED BY <1>0, <1>18, <3>1, <3>2, SameRequests, SameList DEF ClickTab, TypeOK, world
  <2>2. CASE ~Has(hold, t)
    <3>1. t \in Tabs BY <2>2 DEF Has, Sections
    <3>2. /\ Sent("entity", "tab", t) \in Requests
          /\ Sent("entity", "tab", t).tab \in Tabs
        BY <3>1 DEF Sent, Requests
    <3>3. RequestsOK' BY <1>0, <1>18, <2>2, <3>2, SendType DEF ClickTab
    <3>4. DrillOK' BY <1>0, <1>18, <2>2 DEF ClickTab, DrillOK
    <3> QED BY <1>0, <1>18, <3>3, <3>4, SameList DEF ClickTab, TypeOK, world
  <2> QED BY <2>1, <2>2
<1>19. ASSUME NEW v \in Views, ToggleView(v) PROVE TypeOK'
  <2>1. filters \in [Keys -> Cells \cup {Off}] BY <1>0 DEF ListOK
  <2>2. /\ control' \in [Keys -> Cells \cup {Off, Blank}]
        /\ built' \in [Selects -> SUBSET Cells] \cup {None}
        /\ UNCHANGED <<items, tiles, toggle>> /\ Staying
      BY <1>0, <1>19 DEF ToggleView, Staying, ListOK
  <2>3. ListOK' BY <1>0, <1>19, <2>1, <2>2, RefilterType DEF ToggleView
  <2> QED BY <1>12, <2>2, <2>3
<1>20. ASSUME UNCHANGED vars PROVE TypeOK'
    BY <1>0, <1>20, SameRequests, SameList, SameDrill DEF vars, TypeOK, world
<1>21. ASSUME Operate PROVE TypeOK'
    BY <1>21, <1>13, <1>15, <1>16, <1>17, <1>18, <1>19 DEF Operate, Sections
<1>22. ASSUME NEW s \in Slots, Deliver(s) PROVE TypeOK'
    BY <1>22, <1>5, <1>6, <1>7, <1>8, <1>9, <1>10 DEF Deliver
<1> QED BY <1>1, <1>2, <1>3, <1>4, <1>11, <1>20, <1>21, <1>22 DEF Next, Left

\* The page keeps its shape: rows of the last answer in the table, a whole
\* payload behind a drill-in (dashboard.js).
THEOREM TypeCorrect == Spec => []TypeOK
<1>1. Init => TypeOK BY TypeInit
<1>2. TypeOK /\ [Next]_vars => TypeOK' BY TypeNext
<1> QED BY <1>1, <1>2, PTL DEF Spec

-----------------------------------------------------------------------------
(* Table, tiles and controls.                                              *)

\* What an action that is not of the list leaves alone.
LEMMA ListUntouched ==
    ASSUME [Next]_vars,
           ~ \E s \in Slots : RenderDisabled(s) \/ RenderList(s),
           ~ \E k \in Keys : Choose(k), ~ \E t \in Tiles : ClickTile(t),
           ~ \E r \in Filtered(items, filters) : ClickChip(Chip(r)),
           ~ \E v \in Views : ToggleView(v), ~Clear
    PROVE  UNCHANGED list
<1> USE DEF Slots
<1>1. ASSUME NEW s \in Slots,
             Tick(s) \/ Show(s) \/ Answer(s) \/ Expire(s) \/ Break(s)
               \/ RenderDrill(s) \/ RenderTab(s)
      PROVE  UNCHANGED list
    BY <1>1 DEF Tick, Show, Answer, Expire, Break, RenderDrill, RenderTab
<1>2. Hide \/ Change => UNCHANGED list BY DEF Hide, Change
<1>3. ASSUME NEW t, NEW s, ClickTab(t, s) PROVE UNCHANGED list
    BY <1>3 DEF ClickTab
<1>4. UNCHANGED vars => UNCHANGED list BY DEF vars
<1> QED BY <1>1, <1>2, <1>3, <1>4 DEF Next, Operate, Deliver, Left

Cut == area = "rows" => shown = FirstOf(Filtered(items, filters), Cap(view))

\* Every change of the filters, of the rows or of the view draws the table.
LEMMA CutNext == Cut /\ [Next]_vars => Cut'
<1> SUFFICES ASSUME Cut, [Next]_vars PROVE Cut'
    OBVIOUS
<1>1. ASSUME NEW rows, NEW f, NEW v, RenderData(rows, f, v), items' = rows PROVE Cut'
    BY <1>1 DEF RenderData, Cut, Filtered, FirstOf
<1>2. ASSUME NEW s \in Slots, RenderDisabled(s) PROVE Cut'
    BY <1>2 DEF RenderDisabled, Cut
<1>3. ASSUME NEW s \in Slots, RenderList(s) PROVE Cut'
    BY <1>1, <1>3 DEF RenderList, RenderRows
<1>4. ASSUME NEW k \in Keys, Choose(k) PROVE Cut'
    BY <1>1, <1>4 DEF Choose, Staying
<1>5. ASSUME NEW t \in Tiles, ClickTile(t) PROVE Cut'
    BY <1>1, <1>5 DEF ClickTile, Staying
<1>6. ASSUME NEW r \in Filtered(items, filters), ClickChip(Chip(r)) PROVE Cut'
    BY <1>1, <1>6 DEF ClickChip, Staying
<1>7. ASSUME NEW v \in Views, ToggleView(v) PROVE Cut'
    BY <1>1, <1>7 DEF ToggleView, Staying
<1>8. ASSUME Clear PROVE Cut'
    BY <1>1, <1>8 DEF Clear, Staying
<1>9. ASSUME UNCHANGED list PROVE Cut'
    BY <1>9 DEF list, filtering, Cut
<1> QED BY <1>2, <1>3, <1>4, <1>5, <1>6, <1>7, <1>8, <1>9, ListUntouched

LEMMA Cuts == Spec => []Cut
<1>1. Init => Cut BY DEF Init, Cut
<1> QED BY <1>1, CutNext, PTL DEF Spec

\* The rows that match are finitely many, and counted by the caps.
LEMMA HitsAreFew ==
    ASSUME TypeOK
    PROVE  LET hits == Filtered(items, filters)
           IN  /\ IsFiniteSet(hits) /\ Cardinality(hits) \in Nat /\ Cap(view) \in Nat
               /\ \A r \in hits : Order(r) \in Nat
<1>1. items \in Contents \cup {{}} /\ view \in Views BY DEF TypeOK, ListOK
<1>2. IsFiniteSet(items) /\ \A r \in items : Order(r) \in Nat BY <1>1, ViewAssumption, FS_EmptySet
<1>3. Filtered(items, filters) \subseteq items BY FilteredAreItems
<1>4. IsFiniteSet(Filtered(items, filters)) BY <1>2, <1>3, FS_Subset
<1> QED BY <1>1, <1>2, <1>3, <1>4, ViewAssumption, FS_CardinalityType

LEMMA TableOfCut == TypeOK /\ Cut => ShownIsFiltered
<1> SUFFICES ASSUME TypeOK, Cut PROVE ShownIsFiltered
    OBVIOUS
<1> QED BY HitsAreFew, FirstOfFew DEF Cut, ShownIsFiltered

\* The table is the last list answer under the filters in force, all of it if
\* the view has room (renderData).
THEOREM TableIsFiltered == Spec => []ShownIsFiltered
BY TypeCorrect, Cuts, TableOfCut, PTL

LEMMA CountsNext == TilesCountRows /\ [Next]_vars => TilesCountRows'
<1> SUFFICES ASSUME TilesCountRows, [Next]_vars PROVE TilesCountRows'
    OBVIOUS
<1>1. ASSUME NEW s \in Slots, RenderDisabled(s) PROVE TilesCountRows'
    BY <1>1 DEF RenderDisabled, TilesCountRows
<1>2. ASSUME NEW s \in Slots, RenderList(s) PROVE TilesCountRows'
    BY <1>2 DEF RenderList, RenderRows, TilesCountRows
<1>3. ASSUME UNCHANGED <<items, tiles>> PROVE TilesCountRows'
    BY <1>3 DEF TilesCountRows
<1>4. ASSUME (\E k \in Keys : Choose(k)) \/ (\E t \in Tiles : ClickTile(t))
               \/ (\E r \in Filtered(items, filters) : ClickChip(Chip(r)))
               \/ (\E v \in Views : ToggleView(v)) \/ Clear
      PROVE  UNCHANGED <<items, tiles>>
    BY <1>4 DEF Choose, ClickTile, ClickChip, ToggleView, Clear, Staying
<1>5. UNCHANGED list => UNCHANGED <<items, tiles>> BY DEF list
<1> QED BY <1>1, <1>2, <1>3, <1>4, <1>5, ListUntouched

\* The numbers on the tiles are of the rows below them (renderModule).
THEOREM TilesAreOfRows == Spec => []TilesCountRows
<1>1. Init => TilesCountRows BY DEF Init, TilesCountRows
<1> QED BY <1>1, CountsNext, PTL DEF Spec

\* The server's filters keep of any rows a part of what the page's keep, and drop
\* of that only rows with an empty cell under a range.
LEMMA MailedMatch ==
    ASSUME NEW c, NEW f
    PROVE  /\ \A r \in Mailed(c, f) : r \in c /\ Matches(r, f)
           /\ \A r \in c \ Mailed(c, f) :
                 Matches(r, f) => \E k \in Ranges : f[k] # Off /\ Value(r, k) = Empty
BY DEF Mailed, Matches, Number

\* A report differs from the page only by rows that came or went, found no room in
\* the view, or have an empty cell under a range (wireEmailTab, apply_filter).
THEOREM MailFits == Spec => []MailFitsPage
<1>1. TypeOK /\ ShownIsFiltered => MailFitsPage
  <2> SUFFICES ASSUME TypeOK, ShownIsFiltered, area = "rows", NEW c \in Contents
               PROVE  LET sent == Mailed(c, filters)
                      IN  /\ \A r \in sent \ shown :
                                r \in items => Cardinality(Filtered(items, filters)) > Cap(view)
                          /\ \A r \in shown \ sent :
                                r \in c => \E k \in Ranges : filters[k] # Off /\ Value(r, k) = Empty
      BY DEF MailFitsPage
  <2> DEFINE hits == Filtered(items, filters)
             sent == Mailed(c, filters)
  <2>1. shown \subseteq hits /\ (Cardinality(hits) <= Cap(view) => shown = hits)
      BY FirstAreRows DEF ShownIsFiltered
  <2>2. Cardinality(hits) \in Nat /\ Cap(view) \in Nat BY HitsAreFew
  <2>3. ASSUME NEW r \in sent \ shown, r \in items PROVE Cardinality(hits) > Cap(view)
    <3>1. r \in hits BY <2>3, MailedMatch DEF Filtered
    <3>2. ~(Cardinality(hits) <= Cap(view)) BY <2>1, <2>3, <3>1
    <3> HIDE DEF hits
    <3> QED BY <2>2, <3>2
  <2>4. ASSUME NEW r \in shown \ sent, r \in c
        PROVE  \E k \in Ranges : filters[k] # Off /\ Value(r, k) = Empty
    <3>1. Matches(r, filters) BY <2>1, <2>4 DEF Filtered
    <3> QED BY <2>4, <3>1, MailedMatch
  <2> QED BY <2>3, <2>4
<1> QED BY <1>1, TypeCorrect, TableIsFiltered, PTL

\* Controls exist only where their metadata was loaded.
ControlsOfSpecs == built # None => specs
Selections == TypeOK /\ ControlsOfSpecs /\ SelectsTellFilter

LEMMA SpecsStay == [Next]_vars => UNCHANGED specs
<1> SUFFICES ASSUME [Next]_vars PROVE UNCHANGED specs
    OBVIOUS
<1>1. ASSUME NEW s, Tick(s) \/ Show(s) \/ Answer(s) \/ Deliver(s) PROVE UNCHANGED specs
    BY <1>1 DEF Tick, Show, Answer, Deliver, Expire, Break, RenderDisabled, RenderList,
                RenderDrill, RenderTab
<1>2. Operate => UNCHANGED specs
    BY DEF Operate, Choose, ClickTile, ClickChip, ToggleView, Clear, ClickTab, Staying
<1> QED BY <1>1, <1>2 DEF Next, Hide, Change, Left, vars

\* Controls that were just built, or that follow a click, tell the filter.
LEMMA SelectedTells ==
    ASSUME NEW f, NEW o, NEW k \in Selects
    PROVE  LET g == Selected(f, o) IN Selected(g, o)[k] = g[k]
BY DEF Selected, Keys

LEMMA ReflectedTells ==
    ASSUME specs, NEW f, NEW k \in Selects
    PROVE  /\ Reflected(f)[k] = Off <=> f[k] = Off
           /\ Reflected(f)[k] \in {f[k], Blank}
BY DEF Reflected, Shows, Keys

LEMMA SelectionsNext == Selections /\ [Next]_vars => Selections'
<1> SUFFICES ASSUME Selections, [Next]_vars PROVE Selections'
    OBVIOUS
<1> USE DEF Selections
<1>1. TypeOK' BY TypeNext
<1>2. ASSUME NEW s \in Slots, RenderDisabled(s) PROVE Selections'
    BY <1>1, <1>2 DEF RenderDisabled, ControlsOfSpecs, SelectsTellFilter
<1>3. ASSUME NEW s \in Slots, RenderList(s) PROVE Selections'
  <2> DEFINE options == Options(Reply(s).rows)
             rebuild == specs /\ built # options
  <2>1. RenderRows(Reply(s).rows) /\ UNCHANGED specs BY <1>3 DEF RenderList
  <2>2. CASE rebuild
    <3>1. /\ filters' = Selected(filters, options)
          /\ control' = Selected(Selected(filters, options), options)
        BY <2>1, <2>2 DEF RenderRows, RenderData
    <3>2. \A k \in Selects : control'[k] = filters'[k] BY <3>1, SelectedTells
    <3> QED BY <1>1, <2>1, <2>2, <3>2 DEF ControlsOfSpecs, SelectsTellFilter
  <2>3. CASE ~rebuild
    <3>1. UNCHANGED <<filters, control, built>>
        BY <2>1, <2>3 DEF RenderRows, RenderData
    <3> QED BY <1>1, <2>1, <3>1 DEF ControlsOfSpecs, SelectsTellFilter
  <2> QED BY <2>2, <2>3
<1>4. ASSUME NEW k \in Keys, Choose(k) PROVE Selections'
  <2>1. PICK v : /\ control' = [control EXCEPT ![k] = v]
                 /\ filters' = [filters EXCEPT ![k] = v]
      BY <1>4 DEF Choose, RenderData
  <2>2. control \in [Keys -> Cells \cup {Off, Blank}] /\ filters \in [Keys -> Cells \cup {Off}]
      BY DEF TypeOK, ListOK
  <2>3. built # None /\ UNCHANGED <<built, specs>> BY <1>4 DEF Choose, Staying, Wired
  <2>4. SelectsTellFilter' BY <2>1, <2>2, <2>3 DEF SelectsTellFilter, Keys
  <2> QED BY <1>1, <2>3, <2>4 DEF ControlsOfSpecs
<1>5. ASSUME NEW f, RenderData(items, f, view), control' = Reflected(f), UNCHANGED built,
             Staying
      PROVE  Selections'
  <2>1. UNCHANGED <<built, specs>> /\ filters' = f BY <1>5 DEF Staying, RenderData
  <2>2. built # None => SelectsTellFilter'
      BY <1>5, <2>1, ReflectedTells DEF ControlsOfSpecs, SelectsTellFilter
  <2>3. ControlsOfSpecs' BY <2>1 DEF ControlsOfSpecs
  <2> QED BY <1>1, <2>1, <2>2, <2>3 DEF SelectsTellFilter
<1>6. ASSUME NEW t \in Tiles, ClickTile(t) PROVE Selections'
    BY <1>5, <1>6 DEF ClickTile
<1>7. ASSUME NEW r \in Filtered(items, filters), ClickChip(Chip(r)) PROVE Selections'
    BY <1>5, <1>7 DEF ClickChip
<1>8. ASSUME NEW v \in Views, ToggleView(v) PROVE Selections'
  <2>1. UNCHANGED <<filters, control, built, specs>>
      BY <1>8 DEF ToggleView, RenderData, Staying
  <2> QED BY <1>1, <2>1 DEF ControlsOfSpecs, SelectsTellFilter
<1>9. ASSUME Clear PROVE Selections'
  <2>1. specs' /\ control' = Unfiltered /\ filters' = Unfiltered
      BY <1>9 DEF Clear, Wired, Staying, RenderData
  <2> QED BY <1>1, <2>1 DEF ControlsOfSpecs, SelectsTellFilter
<1>10. ASSUME UNCHANGED list PROVE Selections'
    BY <1>1, <1>10, SpecsStay DEF list, filtering, ControlsOfSpecs, SelectsTellFilter
<1> QED BY <1>2, <1>3, <1>4, <1>6, <1>7, <1>8, <1>9, <1>10, ListUntouched

\* A select says "All" exactly when its column is not filtered (renderFilters,
\* applyKpiFilter).
THEOREM SelectsTell == Spec => []SelectsTellFilter
<1>1. Init => Selections
    BY TypeInit DEF Init, Selections, ControlsOfSpecs, SelectsTellFilter
<1>2. Selections => SelectsTellFilter BY DEF Selections
<1> QED BY <1>1, <1>2, SelectionsNext, PTL DEF Spec

-----------------------------------------------------------------------------
(* The drill-in.                                                           *)

\* Until the page was hidden, all that is asked and answered is of the entity.
EntityAsked ==
    mode = "drill" /\ ~again =>
        \A s \in Slots : requests[s] # None =>
            /\ requests[s].url = "entity"
            /\ requests[s].answer # None => requests[s].answer.of = "entity"
Entity == TypeOK /\ EntityAsked /\ DrillKeepsEntity

\* A slot that is filled or emptied.
LEMMA AskedSend ==
    ASSUME TypeOK, EntityAsked, UNCHANGED <<mode, again>>, NEW s \in Slots, NEW q, Send(s, q),
           mode = "drill" /\ ~again /\ q # None =>
               q.url = "entity" /\ (q.answer # None => q.answer.of = "entity")
    PROVE  EntityAsked'
<1>1. requests \in [Slots -> Requests \cup {None}] BY DEF TypeOK, RequestsOK
<1> QED BY <1>1 DEF EntityAsked, Send

LEMMA AskedEmptied ==
    ASSUME TypeOK, EntityAsked, UNCHANGED <<mode, again>>, NEW s \in Slots, Send(s, None)
    PROVE  EntityAsked'
BY AskedSend

LEMMA EntityNext == Entity /\ [Next]_vars => Entity'
<1> SUFFICES ASSUME Entity, [Next]_vars PROVE EntityAsked' /\ DrillKeepsEntity'
    BY TypeNext DEF Entity
<1> USE DEF Slots
<1>0. TypeOK /\ EntityAsked /\ DrillKeepsEntity BY DEF Entity
<1>1. ASSUME UNCHANGED <<mode, again, hold, body>> PROVE DrillKeepsEntity'
    BY <1>0, <1>1 DEF DrillKeepsEntity
<1>2. ASSUME UNCHANGED <<mode, again, requests>> PROVE EntityAsked'
    BY <1>0, <1>2 DEF EntityAsked
<1>3. ASSUME NEW s \in Polls, Tick(s) PROVE EntityAsked' /\ DrillKeepsEntity'
  <2>1. mode = "drill" => Sent(PageUrl, "poll", None).url = "entity"
      BY DEF Sent, PageUrl
  <2>2. Sent(PageUrl, "poll", None).answer = None BY DEF Sent
  <2>3. EntityAsked' BY <1>0, <1>3, <2>1, <2>2, AskedSend DEF Tick
  <2> QED BY <1>1, <1>3, <2>3 DEF Tick, drill
<1>4. ASSUME NEW s \in Others, Show(s) PROVE EntityAsked' /\ DrillKeepsEntity'
    BY <1>4 DEF Show, EntityAsked, DrillKeepsEntity
<1>5. ASSUME NEW s \in Slots, Answer(s) PROVE EntityAsked' /\ DrillKeepsEntity'
  <2>1. requests[s] \in Requests /\ requests[s].url \in {"list", "entity"}
      BY <1>0, <1>5 DEF Answer, TypeOK, RequestsOK, Requests
  <2>2. PICK p : /\ p \in {Payload("rows", requests[s].url, contents, FALSE)} \cup
                            Faulty(requests[s].url)
                 /\ Send(s, [requests[s] EXCEPT !.answer = p])
      BY <1>5 DEF Answer
  <2>3. p.of = requests[s].url
      BY <1>0, <2>1, <2>2, FaultyAreTyped, PlainPayload DEF TypeOK
  <2>4. /\ [requests[s] EXCEPT !.answer = p].url = requests[s].url
        /\ [requests[s] EXCEPT !.answer = p].answer = p
      BY <2>1 DEF Requests
  <2>5. mode = "drill" /\ ~again => requests[s].url = "entity"
      BY <1>0, <1>5 DEF Answer, EntityAsked
  <2>6. UNCHANGED <<mode, again, hold, body>> BY <1>5 DEF Answer, drill
  <2>7. EntityAsked' BY <1>0, <2>2, <2>3, <2>4, <2>5, <2>6, AskedSend
  <2> QED BY <1>1, <2>6, <2>7
<1>6. ASSUME NEW s \in Slots, Expire(s) PROVE EntityAsked' /\ DrillKeepsEntity'
  <2>1. requests' = [r \in Slots |-> None]
      BY <1>0, <1>6 DEF Expire, TypeOK, RequestsOK
  <2>2. EntityAsked' BY <2>1 DEF EntityAsked
  <2> QED BY <1>1, <1>6, <2>2 DEF Expire, drill
<1>7. ASSUME NEW s \in Slots, Break(s) \/ RenderDisabled(s) \/ RenderList(s)
      PROVE  EntityAsked' /\ DrillKeepsEntity'
  <2>1. Send(s, None) /\ UNCHANGED <<mode, again, hold, body>>
      BY <1>7 DEF Break, RenderDisabled, RenderList, drill
  <2> QED BY <1>0, <1>1, <2>1, AskedEmptied
<1>8. ASSUME NEW s \in Slots, RenderDrill(s) \/ RenderTab(s)
      PROVE  EntityAsked' /\ DrillKeepsEntity'
  <2>1. /\ Send(s, None) /\ UNCHANGED <<mode, again>>
        /\ hold' \in {hold, Reply(s)}
        /\ \/ body' \in {body, None}
           \/ \E t : body' = Section(t, Reply(s))
      BY <1>8 DEF RenderDrill, RenderTab
  <2>2. mode = "drill" /\ ~again => Reply(s).of = "entity"
      BY <1>0, <1>8 DEF RenderDrill, RenderTab, Arrived, Reply, EntityAsked
  <2>3. \A t : Section(t, Reply(s)).of = Reply(s).of BY DEF Section
  <2>4. DrillKeepsEntity' BY <1>0, <2>1, <2>2, <2>3 DEF DrillKeepsEntity
  <2> QED BY <1>0, <2>1, <2>4, AskedEmptied
<1>9. ASSUME Hide \/ Change PROVE EntityAsked' /\ DrillKeepsEntity'
    BY <1>1, <1>2, <1>9 DEF Hide, Change, drill
<1>10. ASSUME Staying PROVE EntityAsked' /\ DrillKeepsEntity'
    BY <1>1, <1>2, <1>10 DEF Staying, drill
<1>11. ASSUME NEW t \in Sections, NEW s \in Others, ClickTab(t, s)
       PROVE  EntityAsked' /\ DrillKeepsEntity'
  <2>1. UNCHANGED <<mode, again, hold>> BY <1>11 DEF ClickTab
  <2>2. body' = None \/ (body' = Section(t, hold) /\ hold # None) BY <1>11 DEF ClickTab
  <2>3. Section(t, hold).of = hold.of BY DEF Section
  <2>4. DrillKeepsEntity' BY <1>0, <2>1, <2>2, <2>3 DEF DrillKeepsEntity
  <2>5. CASE UNCHANGED requests BY <1>2, <2>1, <2>4, <2>5
  <2>6. CASE Send(s, Sent("entity", "tab", t))
      BY <1>0, <2>1, <2>4, <2>6, AskedSend DEF Sent
  <2> QED BY <1>11, <2>5, <2>6 DEF ClickTab
<1>12. ASSUME UNCHANGED vars PROVE EntityAsked' /\ DrillKeepsEntity'
    BY <1>1, <1>2, <1>12 DEF vars, drill
<1>13. ASSUME Operate PROVE EntityAsked' /\ DrillKeepsEntity'
    BY <1>10, <1>11, <1>13 DEF Operate, Choose, ClickTile, ClickChip, ToggleView, Clear, Sections
<1> QED BY <1>3, <1>4, <1>5, <1>6, <1>7, <1>8, <1>9, <1>12, <1>13 DEF Next, Deliver, Left

\* A drill-in of a page that was never hidden is never built from the payload
\* of a list (startModulePoller).
THEOREM DrillIsOfEntity == Spec => []DrillKeepsEntity
<1>1. Init => Entity
    BY TypeInit DEF Init, Entity, EntityAsked, DrillKeepsEntity, Slots
<1>2. Entity => DrillKeepsEntity BY DEF Entity
<1> QED BY <1>1, <1>2, EntityNext, PTL DEF Spec

=============================================================================
