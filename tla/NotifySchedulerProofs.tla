----------------------- MODULE NotifySchedulerProofs ------------------------
(***************************************************************************)
(* Theorems about the notification daemon, for every set of devices,       *)
(* controllers, tenants and configurations.                                *)
(***************************************************************************)
EXTENDS NotifyScheduler, TLAPS

-----------------------------------------------------------------------------
(* The engine and the clock *)

LEMMA WaitingType ==
    ASSUME NEW e \in Entry, NEW o \in Status
    PROVE  Waiting(e, o) \in Entry
<1>1. [e EXCEPT !.target = o] \in Entry
  BY DEF Entry
<1>2. \A f \in Entry : [f EXCEPT !.age = 0] \in Entry
  BY DevicesAssumption DEF Entry
<1> QED
  BY <1>1, <1>2 DEF Waiting

\* Reconcile maps a ledger to a ledger.
LEMMA NextEntryType ==
    ASSUME NEW prev \in Ledger, NEW sn \in Snapshot, NEW fetched,
           NEW debounce \in 0 .. Horizon, NEW d \in Devices
    PROVE  NextEntry(prev, sn, fetched, debounce, d) \in Entry
<1>1. prev[d] \in Entry
  BY DEF Ledger
<1>2. Observed(sn, d) \in Status
  BY DEF Observed, Status
<1>3. \A s \in Status \cup {"untracked"} : Stable(s) \in Entry
  BY DevicesAssumption DEF Stable, Entry
<1>4. Waiting(prev[d], Observed(sn, d)) \in Entry
  BY <1>1, <1>2, WaitingType
<1> QED
  BY <1>1, <1>2, <1>3, <1>4 DEF NextEntry, Settled, Untracked

LEMMA NextLedgerType ==
    ASSUME NEW prev \in Ledger, NEW sn \in Snapshot, NEW fetched,
           NEW debounce \in 0 .. Horizon
    PROVE  NextLedger(prev, sn, fetched, debounce) \in Ledger
  BY NextEntryType DEF NextLedger, Ledger

LEMMA EmptyLedgerType == EmptyLedger \in Ledger
  BY DevicesAssumption DEF EmptyLedger, Ledger, Untracked, Stable, Entry

\* Saturating growth stays within its limit and never shrinks.
LEMMA GrowType ==
    ASSUME NEW limit \in Nat, NEW age \in 0 .. limit, NEW dt \in Nat
    PROVE  /\ Grow(age, dt, limit) \in 0 .. limit
           /\ Grow(age, dt, limit) >= age
  BY DEF Grow

LEMMA AgedType ==
    ASSUME NEW ledger \in Ledger, NEW dt \in Nat
    PROVE  Aged(ledger, dt) \in Ledger
<1> SUFFICES ASSUME NEW d \in Devices
             PROVE  Aged(ledger, dt)[d] \in Entry
  BY DEF Aged, Ledger
<1>1. ledger[d] \in Entry
  BY DEF Ledger
<1> QED
  BY <1>1, DevicesAssumption DEF Aged, Entry

LEMMA EventsType ==
    ASSUME NEW prev, NEW new, NEW recovery, NEW threshold
    PROVE  EventsOf(prev, new, recovery, threshold) \subseteq Event
  BY DEF EventsOf, EventsTo, FlippedTo, Event, Status

\* Between two ticks the locals have their initial values.
LEMMA IdleTickType ==
    ASSUME IdleTick
    PROVE  /\ conn' = None /\ owner' = None /\ binder' = None
           /\ cfg' \in Config
           /\ state' \in [devices : Ledger, reported : BOOLEAN]
           /\ outcome' \in [Kinds -> Outcome]
           /\ snap' \in Snapshot
           /\ events' = {}
  BY SchedulerAssumption, DevicesAssumption, EmptyLedgerType
  DEF IdleTick, DefaultConfig, Config, EmptyState, Outcome, Snapshot

\* What a sleep does to the clock variables and the file.
LEMMA AdvanceType ==
    ASSUME TypeOK, NEW dt \in Nat, Advance(dt)
    PROVE  /\ sinceCheck' \in 0 .. MaxCheck
           /\ late' \in BOOLEAN
           /\ file' \in [devices : Ledger, reported : BOOLEAN]
           /\ file'.devices = Aged(file.devices, dt)
           /\ obs' \in [Devices -> [val : Status \cup {"none"}, age : 0 .. Horizon]]
           /\ reports' \in 0 .. 2
<1>1. sinceCheck' \in 0 .. MaxCheck
  BY GrowType, SchedulerAssumption DEF Advance, TypeOK
<1>2. \A d \in Devices : Grow(obs[d].age, dt, Horizon) \in 0 .. Horizon
  BY GrowType, DevicesAssumption DEF TypeOK
<1>3. obs' \in [Devices -> [val : Status \cup {"none"}, age : 0 .. Horizon]]
  BY <1>2 DEF Advance, TypeOK
<1>4. Aged(file.devices, dt) \in Ledger
  BY AgedType DEF TypeOK
<1>5. /\ late' \in BOOLEAN
      /\ file' \in [devices : Ledger, reported : BOOLEAN]
      /\ file'.devices = Aged(file.devices, dt)
      /\ reports' \in 0 .. 2
  <2>1. CASE /\ late' \in {late, TRUE}
             /\ file' = [file EXCEPT !.devices = Aged(@, dt)]
             /\ UNCHANGED reports
    BY <2>1, <1>4 DEF TypeOK
  <2>2. CASE /\ late' \in BOOLEAN
             /\ file' = [devices |-> Aged(file.devices, dt), reported |-> FALSE]
             /\ reports' = 0
    BY <2>2, <1>4
  <2> QED
    BY <2>1, <2>2 DEF Advance
<1> QED
  BY <1>1, <1>3, <1>5

-----------------------------------------------------------------------------
(* Type correctness *)

LEMMA TypeCorrectInit == Init => TypeOK
<1> USE DEF Owners
<1> SUFFICES ASSUME Init PROVE TypeOK
  OBVIOUS
<1>1. DefaultConfig \in Config
  BY SchedulerAssumption, DevicesAssumption DEF DefaultConfig, Config
<1>2. file \in [devices : Ledger, reported : BOOLEAN]
  BY EmptyLedgerType DEF Init, EmptyState
<1>3. config \in [Owners -> Config]
  BY SchedulerAssumption DEF Init
<1>4. obs \in [Devices -> [val : Status \cup {"none"}, age : 0 .. Horizon]]
  BY DevicesAssumption DEF Init
<1> QED
  BY <1>1, <1>2, <1>3, <1>4, SchedulerAssumption
  DEF Init, TypeOK, EmptyState, Outcome, Snapshot

LEMMA TypeCorrectStep == TypeOK /\ [Next]_vars => TypeOK'
<1> USE DEF Owners
<1> SUFFICES ASSUME TypeOK, [Next]_vars PROVE TypeOK'
  OBVIOUS
<1>0. EmptyState \in [devices : Ledger, reported : BOOLEAN]
  BY EmptyLedgerType DEF EmptyState
<1>00. Loaded \subseteq [devices : Ledger, reported : BOOLEAN]
  BY <1>0 DEF Loaded, TypeOK
<1>1. ASSUME NEW c \in Controllers, NEW t \in Tenants \cup {None},
             Connect(c, t)
      PROVE  TypeOK'
  BY <1>1 DEF Connect, TypeOK, clockVars, tickVars
<1>2. ASSUME NEW c \in Controllers, SeedOps(c) PROVE TypeOK'
  BY <1>2 DEF SeedOps, TypeOK, clockVars, tickVars
<1>3. CASE Logout
  BY <1>3 DEF Logout, TypeOK, clockVars, tickVars
<1>4. ASSUME NEW t \in Tenants, NEW c \in Configs, SaveConfig(t, c)
      PROVE  TypeOK'
  <2>1. config' \in [Owners -> Config]
    BY <1>4, SchedulerAssumption DEF SaveConfig, TypeOK
  <2> QED
    BY <1>4, <2>1 DEF SaveConfig, TypeOK, clockVars, tickVars
<1>5. ASSUME NEW dt \in 1 .. MaxStep, Tick(dt) PROVE TypeOK'
  <2>1. dt \in Nat /\ Advance(dt)
    BY <1>5, SchedulerAssumption DEF Tick
  <2> HIDE DEF Advance
  <2> QED
    BY <1>5, <2>1, AdvanceType DEF Tick, TypeOK, requestVars
<1>6. CASE LoadConfig
  <2>1. owner' \in Owners
    BY <1>6, SchedulerAssumption DEF LoadConfig, Tid, TypeOK
  <2>2. cfg' \in Config
    BY <1>6, <2>1 DEF LoadConfig, TypeOK
  <2> QED
    BY <1>6, <2>1, <2>2, SchedulerAssumption DEF LoadConfig, TypeOK, requestVars
<1>7. CASE Collect
  BY <1>7, <1>00 DEF Collect, Snapshots, TypeOK, requestVars, clockVars
<1>8. CASE ReconcileAndSave
  <2> DEFINE ledger == NextLedger(state.devices, snap, Fetched(outcome),
                                  cfg.debounce)
             new == UpdatedState(ledger)
  <2>1. state.devices \in Ledger /\ cfg.debounce \in 0 .. Horizon
    BY DEF TypeOK, Config
  <2>2. ledger \in Ledger
    BY <2>1, NextLedgerType DEF TypeOK
  <2> HIDE DEF ledger
  <2>3. new \in [devices : Ledger, reported : BOOLEAN]
    BY <2>2 DEF UpdatedState, TypeOK
  <2>4. file' \in [devices : Ledger, reported : BOOLEAN]
    BY <1>8, <2>3 DEF ReconcileAndSave, Save, TypeOK, ledger
  <2>5. obs' \in [Devices -> [val : Status \cup {"none"}, age : 0 .. Horizon]]
    <3>1. \A d \in Devices : Observed(snap, d) \in Status
      BY DEF Observed, Status
    <3> HIDE DEF new
    <3>2. Witnessed(new)
            \in [Devices -> [val : Status \cup {"none"}, age : 0 .. Horizon]]
      BY <3>1, DevicesAssumption DEF Witnessed, TypeOK
    <3> QED
      BY <1>8, <3>2 DEF ReconcileAndSave, new, ledger
  <2>6. events' \subseteq Event
    BY <1>8, EventsType DEF ReconcileAndSave
  <2>7. outcome' \in [Kinds -> Outcome] /\ snap' \in Snapshot
    BY <1>8 DEF ReconcileAndSave, Outcome, Snapshot
  <2>8. pc' \in {"report", "dispatch"} /\ state' = EmptyState
    BY <1>8 DEF ReconcileAndSave
  <2>9. UNCHANGED <<requestVars, late, sinceCheck, reports, conn, owner,
                    binder, cfg>>
    BY <1>8 DEF ReconcileAndSave
  <2> QED
    BY <1>0, <2>4, <2>5, <2>6, <2>7, <2>8, <2>9 DEF TypeOK, requestVars
<1>9. CASE Dispatch
  BY <1>9 DEF Dispatch, TypeOK, requestVars, clockVars
<1>10. CASE SkipReport
  BY <1>10, IdleTickType DEF SkipReport, TypeOK, requestVars, clockVars
<1>11. CASE MarkReport
  <2>1. file' \in [devices : Ledger, reported : BOOLEAN]
    BY <1>11, <1>00 DEF MarkReport, Save, Marked, TypeOK
  <2> QED
    BY <1>11, <2>1 DEF MarkReport, TypeOK, requestVars, clockVars, tickVars
<1>12. CASE SendReport
  BY <1>12, IdleTickType DEF SendReport, Grow, TypeOK, requestVars
<1>13. CASE Crash
  BY <1>13, IdleTickType, SchedulerAssumption DEF Crash, TypeOK
<1>14. ASSUME NEW dt \in 0 .. MaxStep, Restart(dt) PROVE TypeOK'
  <2>1. dt \in Nat /\ Advance(dt)
    BY <1>14, SchedulerAssumption DEF Restart
  <2> HIDE DEF Advance
  <2> QED
    BY <1>14, <2>1, AdvanceType DEF Restart, TypeOK, requestVars, tickVars
<1>15. CASE UNCHANGED vars
  BY <1>15 DEF vars, requestVars, clockVars, tickVars, TypeOK
<1> QED
  BY <1>1, <1>2, <1>3, <1>4, <1>5, <1>6, <1>7, <1>8, <1>9, <1>10, <1>11,
     <1>12, <1>13, <1>14, <1>15
  DEF Next, Request, Daemon

\* Every state the daemon and the requests can reach is well typed: the file
\* in particular always holds one well-formed entry per device.
THEOREM TypeCorrect == Spec => []TypeOK
  BY TypeCorrectInit, TypeCorrectStep, PTL DEF Spec

-----------------------------------------------------------------------------
(* Debouncing *)

\* Between the fetch and the save, the tick holds what the file holds (or
\* nothing, if it could not be read) and a snapshot its fetches can produce.
TickInv ==
    pc = "save" => state \in Loaded /\ snap \in Snapshots(conn, outcome)

\* TypeOK and WindowsWitnessed are inductive together with TickInv.
DebounceInv == TypeOK /\ WindowsWitnessed /\ TickInv

\* A device is listed only if its kind counts as fetched.
LEMMA ListedIsFetched ==
    ASSUME TypeOK, NEW c, NEW out \in [Kinds -> Outcome],
           NEW s \in Snapshots(c, out), NEW d \in Devices, s[d] # "absent"
    PROVE  KindOf[d] \in Fetched(out)
  BY DevicesAssumption DEF Snapshots, Fetched, SwallowsErrors

\* The empty ledger has no window and tracks nothing.
LEMMA EmptyHasNoWindow ==
    \A d \in Devices : /\ EmptyLedger[d].target = "none"
                       /\ EmptyLedger[d].status \notin Status
  BY DEF EmptyLedger, Untracked, Stable, Status

\* A sleep lets witness and window age alike.
LEMMA AdvanceKeepsWindows ==
    ASSUME TypeOK, WindowsWitnessed, NEW dt \in Nat, Advance(dt)
    PROVE  WindowsWitnessed'
<1> SUFFICES ASSUME NEW d \in Devices, file'.devices[d].target # "none"
             PROVE  LET e == file'.devices[d]
                    IN  /\ e.status \in Status /\ e.target # e.status
                        /\ obs'[d].val = e.target
                        /\ obs'[d].age >= e.age
  BY DEF WindowsWitnessed
<1>0. file'.devices = Aged(file.devices, dt)
  BY AdvanceType
<1> DEFINE e == file.devices[d]
<1>1. e \in Entry /\ obs[d] \in [val : Status \cup {"none"}, age : 0 .. Horizon]
  BY DEF TypeOK, Ledger
<1>2. e.target # "none"
  BY <1>0 DEF Aged
<1>3. /\ file'.devices[d].status = e.status
      /\ file'.devices[d].target = e.target
      /\ file'.devices[d].age = Grow(e.age, dt, Horizon)
  BY <1>0, <1>1, <1>2 DEF Aged, Grow, Entry
<1>4. obs'[d].val = obs[d].val /\ obs'[d].age = Grow(obs[d].age, dt, Horizon)
  BY <1>1 DEF Advance
<1>5. e.status \in Status /\ e.target # e.status
      /\ obs[d].val = e.target /\ obs[d].age >= e.age
  BY <1>2 DEF WindowsWitnessed
<1>6. Grow(obs[d].age, dt, Horizon) >= Grow(e.age, dt, Horizon)
  BY <1>1, <1>5, DevicesAssumption DEF Grow, Entry
<1> QED
  BY <1>3, <1>4, <1>5, <1>6

\* A window that reconcile leaves behind was kept or opened by an observation
\* the history variable has recorded.
LEMMA ReconcileKeepsWindows ==
    ASSUME DebounceInv, ReconcileAndSave
    PROVE  WindowsWitnessed'
<1> DEFINE ledger == NextLedger(state.devices, snap, Fetched(outcome),
                                cfg.debounce)
           new == UpdatedState(ledger)
<1>1. (file' = new \/ file' = file) /\ obs' = Witnessed(new) /\ pc = "save"
  BY DEF ReconcileAndSave, Save
<1>2. state \in Loaded /\ snap \in Snapshots(conn, outcome)
  BY <1>1 DEF DebounceInv, TickInv
<1>3. new.devices = ledger
  BY DEF UpdatedState, DebounceInv, TypeOK
<1> SUFFICES ASSUME NEW d \in Devices, file'.devices[d].target # "none"
             PROVE  LET e == file'.devices[d]
                    IN  /\ e.status \in Status /\ e.target # e.status
                        /\ obs'[d].val = e.target
                        /\ obs'[d].age >= e.age
  BY DEF WindowsWitnessed
<1>4. CASE file' # new
  <2>1. file' = file /\ obs'[d] = obs[d]
    BY <1>1, <1>4 DEF Witnessed
  <2> QED
    BY <2>1 DEF DebounceInv, WindowsWitnessed
<1>5. CASE file' = new
  <2> DEFINE e == state.devices[d]
             o == Observed(snap, d)
             n == NextEntry(state.devices, snap, Fetched(outcome), cfg.debounce, d)
  <2>1. file'.devices[d] = n
    BY <1>3, <1>5 DEF NextLedger
  <2>2. e \in Entry /\ o \in Status
        /\ obs[d] \in [val : Status \cup {"none"}, age : 0 .. Horizon]
    BY DEF DebounceInv, TypeOK, Ledger, Observed, Status
  <2>3. e.target # "none" => /\ e.status \in Status /\ e.target # e.status
                             /\ obs[d].val = e.target
                             /\ obs[d].age >= e.age
    BY <1>2, EmptyHasNoWindow
    DEF Loaded, EmptyState, DebounceInv, WindowsWitnessed
  <2>4. obs'[d] = IF \/ n.status = "untracked"
                     \/ KindOf[d] \notin Fetched(outcome)
                     \/ obs[d].val = o
                  THEN obs[d] ELSE [val |-> o, age |-> 0]
    <3> HIDE DEF n
    <3> QED
      BY <1>1, <1>3, <1>5, <2>1 DEF Witnessed
  <2>5. n.target # "none"
    BY <2>1
  <2>6. CASE e.status = "untracked"
    BY <2>5, <2>6 DEF NextEntry, Untracked, Stable
  <2>7. CASE e.status # "untracked"
             /\ FetchFailed(state.devices, snap, Fetched(outcome), d)
    <3>1. n = e /\ obs'[d] = obs[d]
      <4> HIDE DEF n
      <4>1. obs'[d] = obs[d]
        BY <2>4, <2>7 DEF FetchFailed
      <4> QED
        BY <2>7, <4>1 DEF n, NextEntry
    <3> QED
      BY <2>1, <2>3, <2>5, <3>1
  <2>8. CASE e.status # "untracked"
             /\ ~FetchFailed(state.devices, snap, Fetched(outcome), d)
    <3>1. n = Waiting(e, o) /\ o # e.status
      BY <2>5, <2>8 DEF NextEntry, Settled, Stable
    <3>2. /\ n.status = e.status /\ n.target = o
          /\ n.age = IF e.target = o THEN e.age ELSE 0
      BY <3>1, <2>2 DEF Waiting, Entry
    <3>3. KindOf[d] \in Fetched(outcome)
      BY <1>2, <2>8, ListedIsFetched DEF FetchFailed, DebounceInv, TypeOK
    <3> HIDE DEF n, e, o
    <3>4. obs'[d] = IF obs[d].val = o THEN obs[d] ELSE [val |-> o, age |-> 0]
      BY <2>4, <2>8, <3>2, <3>3
    <3>5. e.status \in Status
      BY <2>2, <2>8 DEF Entry
    <3>6. obs'[d].val = o /\ obs'[d].age >= n.age
      BY <2>2, <2>3, <3>2, <3>4 DEF Entry, Status
    <3> QED
      BY <2>1, <3>1, <3>2, <3>5, <3>6
  <2> QED
    BY <2>6, <2>7, <2>8
<1> QED
  BY <1>4, <1>5

LEMMA DebounceInvInit == Init => DebounceInv
<1> SUFFICES ASSUME Init PROVE DebounceInv
  OBVIOUS
<1>1. TypeOK
  BY TypeCorrectInit
<1>2. WindowsWitnessed
  BY EmptyHasNoWindow DEF Init, EmptyState, WindowsWitnessed
<1> QED
  BY <1>1, <1>2 DEF DebounceInv, TickInv, Init

LEMMA DebounceInvStep == DebounceInv /\ [Next]_vars => DebounceInv'
<1> SUFFICES ASSUME DebounceInv, [Next]_vars PROVE DebounceInv'
  OBVIOUS
<1>0. TypeOK /\ TypeOK'
  BY TypeCorrectStep DEF DebounceInv
<1>1. WindowsWitnessed /\ TickInv
  BY DEF DebounceInv
<1>2. CASE Request \/ UNCHANGED vars
  <2>1. UNCHANGED <<file, obs, pc, state, conn, outcome, snap>>
    BY <1>2 DEF Request, Connect, SeedOps, Logout, SaveConfig, vars, clockVars,
                tickVars
  <2> QED
    BY <1>0, <1>1, <2>1 DEF DebounceInv, WindowsWitnessed, TickInv, Loaded
<1>3. ASSUME NEW dt \in 1 .. MaxStep, Tick(dt) PROVE DebounceInv'
  <2>1. dt \in Nat /\ Advance(dt) /\ pc' # "save"
    BY <1>3, SchedulerAssumption DEF Tick
  <2>2. WindowsWitnessed'
    BY <1>0, <1>1, <2>1, AdvanceKeepsWindows
  <2> QED
    BY <1>0, <2>1, <2>2 DEF DebounceInv, TickInv
<1>4. ASSUME NEW dt \in 0 .. MaxStep, Restart(dt) PROVE DebounceInv'
  <2>1. dt \in Nat /\ Advance(dt) /\ pc' # "save"
    BY <1>4, SchedulerAssumption DEF Restart
  <2>2. WindowsWitnessed'
    BY <1>0, <1>1, <2>1, AdvanceKeepsWindows
  <2> QED
    BY <1>0, <2>1, <2>2 DEF DebounceInv, TickInv
<1>5. CASE ReconcileAndSave
  <2>1. pc' # "save"
    BY <1>5 DEF ReconcileAndSave
  <2>2. WindowsWitnessed'
    BY <1>5, ReconcileKeepsWindows
  <2> QED
    BY <1>0, <2>1, <2>2 DEF DebounceInv, TickInv
<1>6. CASE Collect
  <2>1. UNCHANGED <<file, obs, conn>>
    BY <1>6 DEF Collect, clockVars
  <2>2. state' \in Loaded /\ snap' \in Snapshots(conn, outcome')
    BY <1>6 DEF Collect
  <2>3. Loaded' = Loaded
    BY <2>1 DEF Loaded
  <2>4. TickInv'
    BY <2>1, <2>2, <2>3 DEF TickInv
  <2> QED
    BY <1>0, <1>1, <2>1, <2>4 DEF DebounceInv, WindowsWitnessed
<1>7. CASE MarkReport
  <2>1. obs' = obs /\ pc' # "save"
    BY <1>7 DEF MarkReport, clockVars
  <2>2. file'.devices \in {file.devices, EmptyLedger}
    BY <1>0, <1>7
    DEF MarkReport, Save, Marked, Loaded, EmptyState, TypeOK
  <2>3. WindowsWitnessed'
    BY <1>1, <2>1, <2>2, EmptyHasNoWindow DEF WindowsWitnessed
  <2> QED
    BY <1>0, <2>1, <2>3 DEF DebounceInv, TickInv
<1>8. CASE LoadConfig \/ Dispatch \/ SkipReport \/ SendReport \/ Crash
  <2>1. UNCHANGED <<file, obs>> /\ pc' # "save"
    BY <1>8 DEF LoadConfig, Dispatch, SkipReport, SendReport, Crash, clockVars
  <2> QED
    BY <1>0, <1>1, <2>1 DEF DebounceInv, WindowsWitnessed, TickInv
<1> QED
  BY <1>2, <1>3, <1>4, <1>5, <1>6, <1>7, <1>8 DEF Next, Daemon

\* Every window the file keeps is backed by recorded observations.
THEOREM WindowsAreWitnessed == Spec => []WindowsWitnessed
<1>1. DebounceInv => WindowsWitnessed
  BY DEF DebounceInv
<1> QED
  BY <1>1, DebounceInvInit, DebounceInvStep, PTL DEF Spec

\* An alert comes from a matured window, and a matured window from observations
\* that agree for the length of the debounce.
LEMMA AlertStep ==
    ASSUME DebounceInv, [Next]_vars, NEW ev \in events' \ events
    PROVE  \/ obs[ev.key].val = ev.kind /\ obs[ev.key].age >= cfg.debounce
           \/ cfg.debounce = 0
<1>1. ReconcileAndSave
  BY DEF Next, Request, Connect, SeedOps, Logout, SaveConfig, Daemon, Tick,
         LoadConfig, Collect, Dispatch, SkipReport, MarkReport, SendReport,
         Crash, Restart, IdleTick, tickVars, vars
<1> DEFINE ledger == NextLedger(state.devices, snap, Fetched(outcome),
                                cfg.debounce)
<1>2. PICK s \in Status : ev \in EventsTo(s, state.devices, ledger)
  BY <1>1 DEF ReconcileAndSave, EventsOf, Status
<1>3. PICK d \in Devices : /\ ev = [key |-> d, kind |-> s]
                          /\ d \in FlippedTo(s, state.devices, ledger)
  BY <1>2 DEF EventsTo, FlippedTo
<1> DEFINE e == state.devices[d]
           o == Observed(snap, d)
           n == NextEntry(state.devices, snap, Fetched(outcome), cfg.debounce, d)
<1>4. e.status \in Status /\ e.status # s /\ n.status = s
  BY <1>3 DEF FlippedTo, NextLedger
<1>5. state = file
  <2>1. state \in Loaded
    BY <1>1 DEF ReconcileAndSave, DebounceInv, TickInv
  <2> QED
    BY <1>4, <2>1, EmptyHasNoWindow DEF Loaded, EmptyState
<1>6. e \in Entry
  BY DEF DebounceInv, TypeOK, Ledger
<1>7. Matured(e, o, cfg.debounce) /\ s = o
  <2>1. Waiting(e, o).status = e.status
    BY <1>6 DEF Waiting, Entry
  <2> QED
    BY <1>4, <2>1 DEF NextEntry, Settled, Stable, Status
<1>8. CASE e.target = o /\ e.age >= cfg.debounce
  <2>1. obs[d].val = o /\ obs[d].age >= e.age
    BY <1>5, <1>7, <1>8 DEF DebounceInv, WindowsWitnessed, Observed
  <2>2. obs[d].age \in Int /\ e.age \in Int /\ cfg.debounce \in Int
    BY <1>6, DevicesAssumption DEF DebounceInv, TypeOK, Entry, Config
  <2> QED
    BY <1>3, <1>7, <1>8, <2>1, <2>2
<1> QED
  BY <1>7, <1>8 DEF Matured

\* No alert without a full debounce of agreeing observations, whatever crashes,
\* reconnects and faults of the file or the database happen in between.
THEOREM AlertsAreDebounced == Spec => AlertsDebounced
<1>1. DebounceInv /\ [Next]_vars =>
        [\A e \in events' \ events :
           \/ obs[e.key].val = e.kind /\ obs[e.key].age >= cfg.debounce
           \/ cfg.debounce = 0]_vars
  BY AlertStep
<1> QED
  BY <1>1, DebounceInvInit, DebounceInvStep, PTL DEF Spec, AlertsDebounced

-----------------------------------------------------------------------------
(* Failed fetches *)

\* A device the file does not track has no trace in it, not even of a window.
Untraced ==
    \A d \in Devices : file.devices[d].status = "untracked" => file.devices[d] = Untracked

\* What reconcile makes of an entry is untracked only if it is Untracked.
LEMMA NextEntryTraced ==
    ASSUME NEW prev \in Ledger, NEW sn \in Snapshot, NEW fetched, NEW debounce,
           NEW d \in Devices,
           NextEntry(prev, sn, fetched, debounce, d).status = "untracked"
    PROVE  NextEntry(prev, sn, fetched, debounce, d) = Untracked
<1> DEFINE e == prev[d]
           o == Observed(sn, d)
<1>1. e \in Entry /\ o \in Status /\ "untracked" \notin Status
  BY DEF Ledger, Observed, Status
<1>2. Stable(o).status = o /\ Waiting(e, o).status = e.status
  BY <1>1 DEF Stable, Waiting, Entry
<1> QED
  BY <1>1, <1>2 DEF NextEntry, Settled

\* Only the clock, reconcile and the mark of the report change the file, and
\* none of them leaves a trace of a device it does not track.
LEMMA UntracedStep == DebounceInv /\ Untraced /\ [Next]_vars => Untraced'
<1> SUFFICES ASSUME DebounceInv, Untraced, [Next]_vars,
                    NEW d \in Devices, file'.devices[d].status = "untracked"
             PROVE  file'.devices[d] = Untracked
  BY DEF Untraced
<1>0. TypeOK
  BY DEF DebounceInv
<1>1. ASSUME NEW dt \in Nat, Advance(dt) PROVE file'.devices[d] = Untracked
  <2>1. file'.devices = Aged(file.devices, dt) /\ file.devices[d] \in Entry
    BY <1>0, <1>1, AdvanceType DEF TypeOK, Ledger
  <2>2. file.devices[d].status = "untracked"
    BY <2>1 DEF Aged, Entry
  <2>3. file.devices[d] = Untracked
    BY <2>2 DEF Untraced
  <2> QED
    BY <2>1, <2>3 DEF Aged, Untracked, Stable
<1>2. ASSUME NEW dt \in 1 .. MaxStep, Tick(dt) PROVE file'.devices[d] = Untracked
  BY <1>1, <1>2, SchedulerAssumption DEF Tick
<1>3. ASSUME NEW dt \in 0 .. MaxStep, Restart(dt) PROVE file'.devices[d] = Untracked
  BY <1>1, <1>3, SchedulerAssumption DEF Restart
<1>4. CASE ReconcileAndSave
  <2> DEFINE ledger == NextLedger(state.devices, snap, Fetched(outcome), cfg.debounce)
  <2>1. file' = file \/ file'.devices = ledger
    BY <1>0, <1>4 DEF ReconcileAndSave, Save, UpdatedState, TypeOK
  <2>2. CASE file' = file
    BY <2>2 DEF Untraced
  <2>3. CASE file'.devices = ledger
    <3>1. file'.devices[d] = NextEntry(state.devices, snap, Fetched(outcome), cfg.debounce, d)
      BY <2>3 DEF NextLedger
    <3>2. state.devices \in Ledger /\ snap \in Snapshot
      BY <1>0 DEF TypeOK
    <3> QED
      BY <3>1, <3>2, NextEntryTraced
  <2> QED
    BY <2>1, <2>2, <2>3
<1>5. CASE MarkReport
  <2>1. file'.devices \in {file.devices, EmptyLedger}
    BY <1>0, <1>5 DEF MarkReport, Save, Marked, Loaded, EmptyState, TypeOK
  <2> QED
    BY <2>1 DEF Untraced, EmptyLedger
<1>6. CASE \/ Request \/ LoadConfig \/ Collect \/ Dispatch \/ SkipReport \/ SendReport
           \/ Crash \/ UNCHANGED vars
  <2>1. file' = file
    BY <1>6 DEF Request, Connect, SeedOps, Logout, SaveConfig, LoadConfig, Collect,
                Dispatch, SkipReport, SendReport, Crash, vars
  <2> QED
    BY <2>1 DEF Untraced
<1> QED
  BY <1>2, <1>3, <1>4, <1>5, <1>6 DEF Next, Daemon

\* A kind whose fetch raised is not fetched, so its devices are not in the
\* snapshot and reconcile passes their entries on as they are.
LEMMA CarriedForward ==
    ASSUME DebounceInv, Untraced, [Next]_vars, NEW d \in Devices, pc = "save",
           \/ outcome[KindOf[d]] = "malformed"
           \/ outcome[KindOf[d]] = "error" /\ KindOf[d] = "switch",
           state.devices = file.devices
    PROVE  file'.devices[d] = file.devices[d]
<1>0. TypeOK /\ snap \in Snapshots(conn, outcome)
  BY DEF DebounceInv, TickInv
<1>1. CASE ReconcileAndSave
  <2> DEFINE e == file.devices[d]
             n == NextEntry(file.devices, snap, Fetched(outcome), cfg.debounce, d)
  <2>1. file' = file \/ file'.devices[d] = n
    BY <1>0, <1>1 DEF ReconcileAndSave, Save, UpdatedState, NextLedger, TypeOK
  <2>2. KindOf[d] \notin Fetched(outcome)
    BY DEF Fetched, SwallowsErrors
  <2>3. snap[d] = "absent"
    BY <1>0, <2>2, ListedIsFetched DEF TypeOK
  <2>4. CASE e.status = "untracked"
    BY <2>1, <2>3, <2>4 DEF NextEntry, Untraced
  <2>5. CASE e.status # "untracked"
    BY <2>1, <2>2, <2>3, <2>5 DEF NextEntry, FetchFailed
  <2> QED
    BY <2>4, <2>5
<1>2. CASE ~ReconcileAndSave
  <2>1. file' = file
    BY <1>2 DEF Next, Request, Connect, SeedOps, Logout, SaveConfig, Daemon, Tick,
                LoadConfig, Collect, Dispatch, SkipReport, MarkReport, SendReport,
                Crash, Restart, vars
  <2> QED
    BY <2>1
<1> QED
  BY <1>1, <1>2

\* A tick whose fetch of a kind raised leaves every device of this kind as the
\* file has it, its pending window included, whatever else the tick has seen
\* and whether or not it can write the file.
THEOREM FailuresCarryForward == Spec => RaisedFailuresCarryForward
<1>1. Init => Untraced
  BY DEF Init, EmptyState, EmptyLedger, Untraced
<1>2. DebounceInv /\ Untraced /\ [Next]_vars =>
        [\A d \in Devices :
           (/\ pc = "save"
            /\ \/ outcome[KindOf[d]] = "malformed"
               \/ outcome[KindOf[d]] = "error" /\ KindOf[d] = "switch"
            /\ state.devices = file.devices)
           => file'.devices[d] = file.devices[d]]_vars
  BY CarriedForward
<1> QED
  BY <1>1, <1>2, DebounceInvInit, DebounceInvStep, UntracedStep, PTL
  DEF Spec, RaisedFailuresCarryForward

-----------------------------------------------------------------------------
(* Save-first, and the daily report *)

\* While the file can be written, no alert is mailed that the file does not
\* record already.
THEOREM AlertsAreRecorded ==
    ASSUME "save" \notin Faults
    PROVE  Spec => []AlertsRecorded
<1>1. Init => AlertsRecorded
  BY DEF Init, AlertsRecorded
<1>2. TypeOK /\ AlertsRecorded /\ [Next]_vars => AlertsRecorded'
  <2> SUFFICES ASSUME TypeOK, AlertsRecorded, [Next]_vars PROVE AlertsRecorded'
    OBVIOUS
  <2>1. CASE ReconcileAndSave
    <3> DEFINE ledger == NextLedger(state.devices, snap, Fetched(outcome),
                                    cfg.debounce)
    <3>1. file'.devices = ledger
      BY <2>1 DEF ReconcileAndSave, Save, UpdatedState, TypeOK
    <3>2. \A e \in events' : ledger[e.key].status = e.kind
      <4> HIDE DEF ledger
      <4> QED
        BY <2>1 DEF ReconcileAndSave, EventsOf, EventsTo, FlippedTo, ledger
    <3> QED
      BY <3>1, <3>2 DEF AlertsRecorded
  <2>2. CASE Request \/ UNCHANGED vars
    BY <2>2 DEF Request, Connect, SeedOps, Logout, SaveConfig, vars, tickVars,
                AlertsRecorded
  <2>3. CASE (\E dt \in 1 .. MaxStep : Tick(dt)) \/ LoadConfig \/ Collect
             \/ Dispatch \/ SkipReport \/ MarkReport \/ SendReport \/ Crash
             \/ (\E dt \in 0 .. MaxStep : Restart(dt))
    <3>1. pc' # "dispatch"
      BY <2>3 DEF Tick, LoadConfig, Collect, Dispatch, SkipReport, MarkReport,
                  SendReport, Crash, Restart
    <3> QED
      BY <3>1 DEF AlertsRecorded
  <2> QED
    BY <2>1, <2>2, <2>3 DEF Next, Daemon
<1> QED
  BY <1>1, <1>2, TypeCorrect, PTL DEF Spec

\* Once a report may have been mailed, or is about to be, the file says so; and
\* one about to be mailed is the first of the day.
ReportInv ==
    /\ reports <= 1
    /\ reports = 1 => file.reported
    /\ pc = "send" => file.reported /\ reports = 0

\* While the file can be read and written, restarts do not repeat the report.
THEOREM OneReportPerDay ==
    ASSUME "save" \notin Faults, "load" \notin Faults
    PROVE  Spec => []ReportOncePerDay
<1>1. Init => ReportInv
  BY DEF Init, ReportInv
<1>2. DebounceInv /\ ReportInv /\ [Next]_vars => ReportInv'
  <2> SUFFICES ASSUME DebounceInv, ReportInv, [Next]_vars PROVE ReportInv'
    OBVIOUS
  <2>0. Loaded = {file} /\ TypeOK
    BY DEF Loaded, DebounceInv
  <2>1. CASE ReconcileAndSave
    <3>1. state = file
      BY <2>0, <2>1 DEF ReconcileAndSave, DebounceInv, TickInv
    <3>2. file'.reported = file.reported
      BY <2>0, <2>1, <3>1 DEF ReconcileAndSave, Save, UpdatedState, TypeOK
    <3> QED
      BY <2>1, <3>2 DEF ReconcileAndSave, ReportInv
  <2>2. CASE MarkReport
    <3>1. file'.reported = TRUE /\ ~file.reported
      BY <2>0, <2>2 DEF MarkReport, Save, Marked, ReportDue, TypeOK
    <3>2. reports' = reports /\ reports \in 0 .. 2
      BY <2>0, <2>2 DEF MarkReport, clockVars, TypeOK
    <3> QED
      BY <3>1, <3>2 DEF ReportInv
  <2>3. CASE SendReport
    <3>1. file' = file /\ reports' \in {0, 1} /\ pc' # "send"
      BY <2>3 DEF SendReport, Grow, ReportInv
    <3>2. file.reported
      BY <2>3 DEF SendReport, ReportInv
    <3> QED
      BY <3>1, <3>2 DEF ReportInv
  <2>4. ASSUME NEW dt \in Nat, Advance(dt), pc' # "send" PROVE ReportInv'
    <3>1. (file'.reported = file.reported /\ reports' = reports) \/ reports' = 0
      BY <2>0, <2>4 DEF Advance, TypeOK
    <3> QED
      BY <2>4, <3>1 DEF ReportInv
  <2>5. CASE Request \/ UNCHANGED vars
    BY <2>5 DEF Request, Connect, SeedOps, Logout, SaveConfig, vars, clockVars,
                ReportInv
  <2>6. CASE LoadConfig \/ Collect \/ Dispatch \/ SkipReport \/ Crash
    <3>1. UNCHANGED <<file, reports>> /\ pc' # "send"
      BY <2>6 DEF LoadConfig, Collect, Dispatch, SkipReport, Crash, clockVars
    <3> QED
      BY <3>1 DEF ReportInv
  <2>7. ASSUME NEW dt \in 1 .. MaxStep, Tick(dt) PROVE ReportInv'
    BY <2>4, <2>7, SchedulerAssumption DEF Tick
  <2>8. ASSUME NEW dt \in 0 .. MaxStep, Restart(dt) PROVE ReportInv'
    BY <2>4, <2>8, SchedulerAssumption DEF Restart
  <2> QED
    BY <2>1, <2>2, <2>3, <2>5, <2>6, <2>7, <2>8 DEF Next, Daemon
<1>3. ReportInv => ReportOncePerDay
  BY DEF ReportInv, ReportOncePerDay
<1> QED
  BY <1>1, <1>2, <1>3, DebounceInvInit, DebounceInvStep, PTL DEF Spec

-----------------------------------------------------------------------------
(* The daemon keeps the promise of OutageLedger *)

\* A tracked device stays tracked.
LEMMA StaysTracked ==
    ASSUME NEW prev \in Ledger, NEW sn \in Snapshot, NEW fetched, NEW debounce,
           NEW d \in Devices, prev[d].status \in Status
    PROVE  NextEntry(prev, sn, fetched, debounce, d).status \in Status
<1>1. prev[d] \in Entry /\ Observed(sn, d) \in Status
  BY DEF Ledger, Observed, Status
<1>2. Waiting(prev[d], Observed(sn, d)).status = prev[d].status
  BY <1>1 DEF Waiting, Entry
<1> QED
  BY <1>1, <1>2 DEF NextEntry, Settled, Stable, Status

\* While the file can be read and written, the daemon implements the ledger:
\* each committed flip is announced at most once, by one mail.
THEOREM DaemonKeepsPromise ==
    ASSUME "save" \notin Faults, "load" \notin Faults
    PROVE  Spec => KeepsPromise
<1> DEFINE comm == [d \in Devices |-> file.devices[d].status]
           outb == IF pc = "dispatch" THEN events ELSE {}
<1>1. Init => Promise!Init
  BY DEF Init, Promise!Init, EmptyState, EmptyLedger, Untracked, Stable
<1>2. DebounceInv /\ [Next]_vars => [Promise!Next]_(Promise!ledgerVars)
  <2> SUFFICES ASSUME DebounceInv, [Next]_vars
               PROVE  Promise!Next \/ UNCHANGED <<comm, outb>>
    BY DEF Promise!ledgerVars
  <2>0. Loaded = {file} /\ TypeOK
    BY DEF Loaded, DebounceInv
  <2>1. CASE ReconcileAndSave
    <3> DEFINE ledger == NextLedger(state.devices, snap, Fetched(outcome),
                                    cfg.debounce)
               next == [d \in Devices |-> ledger[d].status]
    <3>1. state = file
      BY <2>0, <2>1 DEF ReconcileAndSave, DebounceInv, TickInv
    <3>2. file.devices \in Ledger /\ cfg.debounce \in 0 .. Horizon
      BY <2>0 DEF TypeOK, Config
    <3>3. ledger \in Ledger
      BY <2>0, <3>1, <3>2, NextLedgerType DEF TypeOK
    <3>4. \A d \in Devices : comm[d] # "untracked" => next[d] # "untracked"
      <4> SUFFICES ASSUME NEW d \in Devices, comm[d] # "untracked"
                   PROVE  next[d] # "untracked"
        OBVIOUS
      <4>1. file.devices[d].status \in Status
        BY <3>2 DEF Ledger, Entry
      <4>2. NextEntry(file.devices, snap, Fetched(outcome), cfg.debounce, d).status
              \in Status
        BY <2>0, <3>2, <4>1, StaysTracked DEF TypeOK
      <4> QED
        BY <3>1, <4>2 DEF NextLedger, Status
    <3>5. next \in [Devices -> Promise!States]
      BY <3>3 DEF Ledger, Entry, Status, Promise!States
    <3>6. file'.devices = ledger
      BY <2>0, <2>1 DEF ReconcileAndSave, Save, UpdatedState, TypeOK
    <3>7. \A s \in Status : EventsTo(s, file.devices, ledger)
                           = Promise!FlipsTo(s, comm, next)
      <4> SUFFICES ASSUME NEW s \in Status
                   PROVE  EventsTo(s, file.devices, ledger)
                            = Promise!FlipsTo(s, comm, next)
        OBVIOUS
      <4>1. \A d \in Devices : file.devices[d].status \in Status
                                <=> comm[d] # "untracked"
        BY <3>2 DEF Ledger, Entry, Status
      <4> HIDE DEF ledger
      <4>2. FlippedTo(s, file.devices, ledger)
              = {x \in Devices : comm[x] # "untracked" /\ comm[x] # s /\ next[x] = s}
        BY <4>1 DEF FlippedTo
      <4> QED
        BY <4>2 DEF EventsTo, Promise!FlipsTo
    <3>8. events' = EventsOf(file.devices, ledger, cfg.recovery, cfg.threshold)
      BY <2>1, <3>1 DEF ReconcileAndSave
    <3>9. pc = "save" /\ pc' = IF events' = {} THEN "report" ELSE "dispatch"
      BY <2>1 DEF ReconcileAndSave
    <3> HIDE DEF ledger
    <3>10. \E out \in {{}, EventsTo("offline", file.devices, ledger)},
              back \in {{}, EventsTo("online", file.devices, ledger)} :
                  events' = out \cup back
      BY <3>8 DEF EventsOf
    <3>11. outb = {} /\ outb' = events' /\ comm' = next
      BY <3>6, <3>9
    <3>12. /\ outb = {} /\ comm' = next
           /\ \E out \in {{}, Promise!FlipsTo("offline", comm, next)},
                 back \in {{}, Promise!FlipsTo("online", comm, next)} :
                     outb' = out \cup back
      BY <3>7, <3>10, <3>11 DEF Status
    <3> HIDE DEF next, comm, outb
    <3>13. \E new \in [Devices -> Promise!States] :
              /\ outb = {}
              /\ \A d \in Devices : comm[d] # "untracked" => new[d] # "untracked"
              /\ comm' = new
              /\ \E out \in {{}, Promise!FlipsTo("offline", comm, new)},
                    back \in {{}, Promise!FlipsTo("online", comm, new)} :
                        outb' = out \cup back
      BY <3>4, <3>5, <3>12
    <3> QED
      BY <3>13 DEF Promise!Next, Promise!Record, comm, outb
  <2>2. ASSUME NEW dt \in Nat, Advance(dt), pc \in {"wait", "down"},
               pc' \in {"wait", "config"}
        PROVE  UNCHANGED <<comm, outb>>
    <3>1. file'.devices = Aged(file.devices, dt)
      BY <2>0, <2>2, AdvanceType
    <3>2. \A d \in Devices : Aged(file.devices, dt)[d].status
                             = file.devices[d].status
      BY <2>0 DEF Aged, TypeOK, Ledger, Entry
    <3> QED
      BY <2>2, <3>1, <3>2
  <2>3. CASE Request \/ UNCHANGED vars
    BY <2>3 DEF Request, Connect, SeedOps, Logout, SaveConfig, vars, tickVars
  <2>4. CASE Dispatch \/ Crash
    <3>1. comm' = comm /\ outb' = {}
      BY <2>4 DEF Dispatch, Crash
    <3> QED
      BY <3>1 DEF Promise!Next, Promise!Empty
  <2>5. CASE LoadConfig \/ Collect \/ SkipReport \/ SendReport
    <3>1. file' = file /\ pc # "dispatch" /\ pc' # "dispatch"
      BY <2>5 DEF LoadConfig, Collect, SkipReport, SendReport, clockVars
    <3> QED
      BY <3>1
  <2>6. CASE MarkReport
    <3>1. file'.devices = file.devices /\ pc # "dispatch" /\ pc' # "dispatch"
      BY <2>0, <2>6 DEF MarkReport, Save, Marked, TypeOK
    <3> QED
      BY <3>1
  <2>7. ASSUME NEW dt \in 1 .. MaxStep, Tick(dt) PROVE UNCHANGED <<comm, outb>>
    BY <2>2, <2>7, SchedulerAssumption DEF Tick
  <2>8. ASSUME NEW dt \in 0 .. MaxStep, Restart(dt)
        PROVE  UNCHANGED <<comm, outb>>
    BY <2>2, <2>8, SchedulerAssumption DEF Restart
  <2> QED
    BY <2>1, <2>3, <2>4, <2>5, <2>6, <2>7, <2>8 DEF Next, Daemon
<1> QED
  BY <1>1, <1>2, DebounceInvInit, DebounceInvStep, PTL
  DEF Spec, KeepsPromise, Promise!Spec
=============================================================================
