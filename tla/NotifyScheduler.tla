-------------------------- MODULE NotifyScheduler ---------------------------
(***************************************************************************)
(* The notification daemon of notify/scheduler.py: one thread that wakes   *)
(* up every TICK_SECONDS, asks the bound controller for its devices,       *)
(* reconciles them with the state kept in notify_state.json, mails the     *)
(* outages and, once a day, the report.  HTTP requests bind and clear the  *)
(* connection and edit the configuration while a tick is running; the      *)
(* process may stop at any point and start again with what the file holds. *)
(*                                                                         *)
(* Time is counted in ticks.  A tick reads the clock once, so the clock    *)
(* only moves while the daemon waits (or is down), and every timestamp is  *)
(* kept as an age that saturates at the longest delay compared with it.    *)
(***************************************************************************)
EXTENDS OutageEngine

CONSTANTS
    Controllers,    \* controllers an operator can connect to
    DevicesOf,      \* the device keys each controller may list
    Tenants,        \* app-user tenants
    DefaultTenant,  \* default_tenant_id
    FileOwner,      \* stands for the tenant-less instance/notifications.json
    None,
    Configs,        \* the configurations a tenant may save
    MaxCheck,       \* the longest check_seconds of Configs
    MaxStep,        \* the longest sleep between two ticks
    Faults          \* the faults injected: "load", "save", "db"

Config == [alerts    : BOOLEAN,         \* cfg["alerts"]["enabled"]
           check     : 0 .. MaxCheck,   \* check_seconds
           debounce  : 0 .. Horizon,    \* debounce_seconds
           recovery  : BOOLEAN,
           threshold : Nat,             \* offline_threshold
           report    : BOOLEAN]         \* cfg["report"]["enabled"]

Owners == Tenants \cup {FileOwner}

ASSUME SchedulerAssumption ==
    /\ DevicesOf \in [Controllers -> SUBSET Devices]
    /\ DefaultTenant \in Tenants
    /\ FileOwner \notin Tenants
    /\ None \notin Controllers
    /\ None \notin Owners
    /\ Configs \subseteq Config
    /\ MaxCheck \in Nat
    /\ MaxStep \in Nat
    /\ Faults \subseteq {"load", "save", "db"}

VARIABLES
    connection, tenant,  \* _connection and _tenant_id
    ops,                 \* _available_ops, named by the controller they describe
    seeding,             \* connect requests between their two scheduler calls
    config,              \* the stored configuration of every owner
    file,                \* notify_state.json: devices, and "reported today"
    late,                \* the wall clock is past the report time of the day
    sinceCheck,          \* now - _last_alert_check
    pc,                  \* where the daemon thread is
    conn, owner,         \* locals of a tick: the connection, and whose
    cfg,                 \*   configuration is in cfg
    state,               \*   what _store.load() returned
    outcome, snap,       \*   how the fetch of each kind went, and its rows
    events,              \*   the alerts to dispatch
    \* History variables, read by properties only.
    binder,              \* the tenant that bound conn
    obs,                 \* the last recorded observation of each device
    reports              \* reports mailed today, counted up to 2

requestVars == <<connection, tenant, ops, seeding, config>>
tickVars    == <<conn, owner, cfg, state, outcome, snap, events, binder>>
clockVars   == <<late, sinceCheck, obs, reports>>
vars == <<requestVars, file, clockVars, pc, tickVars>>

-----------------------------------------------------------------------------
EmptyState == [devices |-> EmptyLedger, reported |-> FALSE]

\* What _merged({}) gives for a tenant without a row: everything is off.
DefaultConfig == [alerts |-> FALSE, check |-> MaxCheck, debounce |-> Horizon,
                  recovery |-> TRUE, threshold |-> 1, report |-> FALSE]

\* The locals outside a tick.
IdleTick ==
    /\ conn' = None
    /\ owner' = None
    /\ binder' = None
    /\ cfg' = DefaultConfig
    /\ state' = EmptyState
    /\ outcome' = [k \in Kinds |-> "ok"]
    /\ snap' = [d \in Devices |-> "absent"]
    /\ events' = {}

\* NotificationConfigStore._tid
Tid(t) == IF t = None THEN DefaultTenant ELSE t

Grow(age, dt, limit) == IF age + dt > limit THEN limit ELSE age + dt

\* The clock moves by dt ticks, possibly past the report time or midnight.
Advance(dt) ==
    /\ sinceCheck' = Grow(sinceCheck, dt, MaxCheck)
    /\ obs' = [d \in Devices |->
                  [obs[d] EXCEPT !.age = Grow(@, dt, Horizon)]]
    /\ \/ /\ late' \in {late, TRUE}
          /\ file' = [file EXCEPT !.devices = Aged(@, dt)]
          /\ UNCHANGED reports
       \/ /\ late' \in BOOLEAN
          /\ file' = [devices |-> Aged(file.devices, dt), reported |-> FALSE]
          /\ reports' = 0

\* JsonOutageStateStore.load: an unreadable file reads as an empty state.
Loaded == {file} \cup (IF "load" \in Faults THEN {EmptyState} ELSE {})

\* JsonOutageStateStore.save: the file is replaced as a whole; an OSError is
\* logged and swallowed, so the caller goes on with the old file in place.
Save(s) ==
    \/ file' = s
    \/ "save" \in Faults /\ UNCHANGED file

-----------------------------------------------------------------------------
(* The fetch of one kind ends in one of three ways: the controller answers
   every call; a call fails with a RuckusClientError (an HTTP error, a timeout,
   an expired ticket); an answer has a shape the fetcher raises on.          *)
Outcome == {"ok", "error", "malformed"}

\* aps.fetch asks for optional pages, so an error ends the list after the pages
\* read so far; controller.fetch turns an error into an empty node list; only
\* switches.fetch lets it out.  collect_device_snapshot counts a kind as
\* fetched when its fetcher returns.
SwallowsErrors(k) == k \in {"ap", "controller"}

Fetched(out) ==
    {k \in Kinds : out[k] = "ok" \/ (out[k] = "error" /\ SwallowsErrors(k))}

\* The snapshots controller c can produce: it lists any of its devices, in any
\* state, and of a kind with an error only those of the pages read before it.
Snapshots(c, out) ==
    {s \in Snapshot : \A d \in Devices : s[d] # "absent" =>
        /\ d \in DevicesOf[c]
        /\ \/ out[KindOf[d]] = "ok"
           \/ out[KindOf[d]] = "error" /\ KindOf[d] = "ap"}

-----------------------------------------------------------------------------
Init ==
    /\ connection = None /\ tenant = None /\ ops = None /\ seeding = {}
    /\ config \in [Owners -> Configs]
    /\ file = EmptyState
    /\ late \in BOOLEAN
    /\ sinceCheck = MaxCheck
    /\ pc = "wait"
    /\ conn = None /\ owner = None /\ binder = None
    /\ cfg = DefaultConfig
    /\ state = EmptyState
    /\ outcome = [k \in Kinds |-> "ok"]
    /\ snap = [d \in Devices |-> "absent"]
    /\ events = {}
    /\ obs = [d \in Devices |-> [val |-> "none", age |-> 0]]
    /\ reports = 0

(* ---- the requests ---- *)

\* POST /connect, first the connection with its tenant ...
Connect(c, t) ==
    /\ pc # "down"
    /\ connection' = c /\ tenant' = t
    /\ seeding' = seeding \cup {c}
    /\ UNCHANGED <<ops, config, file, clockVars, pc, tickVars>>

\* ... then, in a second call, its operations: none if discovery failed.
SeedOps(c) ==
    /\ c \in seeding
    /\ ops' \in {c, None}
    /\ seeding' = seeding \ {c}
    /\ UNCHANGED <<connection, tenant, config, file, clockVars, pc, tickVars>>

\* POST /logout clears the connection, whoever bound it; the operations stay.
Logout ==
    /\ pc # "down"
    /\ connection # None
    /\ connection' = None /\ tenant' = None
    /\ UNCHANGED <<ops, seeding, config, file, clockVars, pc, tickVars>>

SaveConfig(t, c) ==
    /\ pc # "down"
    /\ config[t] # c
    /\ config' = [config EXCEPT ![t] = c]
    /\ UNCHANGED <<connection, tenant, ops, seeding, file, clockVars, pc,
                   tickVars>>

(* ---- the daemon ---- *)

\* The wait ends and the tick reads the connection under the lock.
Tick(dt) ==
    /\ pc = "wait"
    /\ Advance(dt)
    /\ conn' = connection
    /\ binder' = tenant
    /\ pc' = IF connection = None THEN "wait" ELSE "config"
    /\ UNCHANGED <<requestVars, owner, cfg, state, outcome, snap, events>>

AlertsDue(c) == c.alerts /\ sinceCheck >= c.check

\* _load_config reads the tenant under the lock again; when the database cannot
\* be read it takes the configuration of the legacy file.
LoadConfig ==
    /\ pc = "config"
    /\ \/ owner' = Tid(tenant)
       \/ "db" \in Faults /\ owner' = FileOwner
    /\ cfg' = config[owner']
    /\ \/ /\ AlertsDue(cfg')
          /\ sinceCheck' = 0
          /\ pc' = "collect"
       \/ /\ ~AlertsDue(cfg')
          /\ pc' = "report"
          /\ UNCHANGED sinceCheck
    /\ UNCHANGED <<requestVars, file, late, obs, reports, conn, binder, state,
                   outcome, snap, events>>

Collect ==
    /\ pc = "collect"
    /\ state' \in Loaded
    /\ outcome' \in [Kinds -> Outcome]
    /\ snap' \in Snapshots(conn, outcome')
    /\ pc' = "save"
    /\ UNCHANGED <<requestVars, file, clockVars, conn, owner, binder, cfg,
                   events>>

\* The observations the new state is made of, unless the save lost them.
Witnessed(new) ==
    [d \in Devices |->
        LET o == Observed(snap, d) IN
        IF \/ file' # new
           \/ new.devices[d].status = "untracked"
           \/ KindOf[d] \notin Fetched(outcome)
           \/ obs[d].val = o
        THEN obs[d]
        ELSE [val |-> o, age |-> 0]]

UpdatedState_OldWins(ledger) ==
    [state EXCEPT !.devices =
        [d \in Devices |->
            IF @[d].status = "untracked" THEN ledger[d] ELSE @[d]]]

UpdatedState(ledger) == [state EXCEPT !.devices = ledger]

\* Reconcile is pure and the save atomic, so a crash comes before or after both.
ReconcileAndSave ==
    LET ledger == NextLedger(state.devices, snap, Fetched(outcome), cfg.debounce)
        new    == UpdatedState(ledger)
    IN  /\ pc = "save"
        /\ Save(new)
        /\ obs' = Witnessed(new)
        /\ events' = EventsOf(state.devices, ledger, cfg.recovery, cfg.threshold)
        /\ pc' = IF events' = {} THEN "report" ELSE "dispatch"
        /\ state' = EmptyState
        /\ outcome' = [k \in Kinds |-> "ok"]
        /\ snap' = [d \in Devices |-> "absent"]
        /\ UNCHANGED <<requestVars, late, sinceCheck, reports, conn, owner,
                       binder, cfg>>

\* The channels are tried once; a send that fails is logged and forgotten.
Dispatch ==
    /\ pc = "dispatch"
    /\ pc' = "report"
    /\ events' = {}
    /\ UNCHANGED <<requestVars, file, clockVars, conn, owner, binder, cfg,
                   state, outcome, snap>>

\* _report_due loads the file, _mark_report_sent loads it again and saves it
\* before the report is collected.
ReportDue_OnlyAfterFirst(s) == cfg.report /\ s.reported /\ late
ReportDue(s) == cfg.report /\ ~s.reported /\ late

Marked_InMemory(s) == s
Marked(s) == [s EXCEPT !.reported = TRUE]

SkipReport ==
    /\ pc = "report"
    /\ \E s \in Loaded : ~ReportDue(s)
    /\ pc' = "wait"
    /\ IdleTick
    /\ UNCHANGED <<requestVars, file, clockVars>>

MarkReport ==
    /\ pc = "report"
    /\ \E s \in Loaded : ReportDue(s)
    /\ \E s \in Loaded : Save(Marked(s))
    /\ pc' = "send"
    /\ UNCHANGED <<requestVars, clockVars, tickVars>>

\* Collecting or mailing the report may fail; it is not tried again that day.
SendReport ==
    /\ pc = "send"
    /\ reports' \in {reports, Grow(reports, 1, 2)}
    /\ pc' = "wait"
    /\ IdleTick
    /\ UNCHANGED <<requestVars, file, late, sinceCheck, obs>>

(* ---- the process ---- *)

Crash ==
    /\ pc # "down"
    /\ pc' = "down"
    /\ connection' = None /\ tenant' = None /\ ops' = None /\ seeding' = {}
    /\ sinceCheck' = MaxCheck
    /\ IdleTick
    /\ UNCHANGED <<config, file, late, obs, reports>>

Restart(dt) ==
    /\ pc = "down"
    /\ pc' = "wait"
    /\ Advance(dt)
    /\ UNCHANGED <<requestVars, tickVars>>

Request ==
    \/ \E c \in Controllers, t \in Tenants \cup {None} : Connect(c, t)
    \/ \E c \in Controllers : SeedOps(c)
    \/ Logout
    \/ \E t \in Tenants, c \in Configs : SaveConfig(t, c)

Daemon ==
    \/ \E dt \in 1 .. MaxStep : Tick(dt)
    \/ LoadConfig \/ Collect \/ ReconcileAndSave \/ Dispatch
    \/ SkipReport \/ MarkReport \/ SendReport

Next ==
    \/ Request
    \/ Daemon
    \/ Crash
    \/ \E dt \in 0 .. MaxStep : Restart(dt)

\* The thread loops until the process ends, and every call it makes returns.
Spec == Init /\ [][Next]_vars /\ WF_vars(Daemon)

-----------------------------------------------------------------------------
(* Properties *)

TypeOK ==
    /\ connection \in Controllers \cup {None}
    /\ tenant \in Tenants \cup {None}
    /\ ops \in Controllers \cup {None}
    /\ seeding \subseteq Controllers
    /\ config \in [Owners -> Config]
    /\ file \in [devices : Ledger, reported : BOOLEAN]
    /\ late \in BOOLEAN
    /\ sinceCheck \in 0 .. MaxCheck
    /\ pc \in {"wait", "config", "collect", "save", "dispatch", "report",
               "send", "down"}
    /\ conn \in Controllers \cup {None}
    /\ owner \in Owners \cup {None}
    /\ binder \in Tenants \cup {None}
    /\ cfg \in Config
    /\ state \in [devices : Ledger, reported : BOOLEAN]
    /\ outcome \in [Kinds -> Outcome]
    /\ snap \in Snapshot
    /\ events \subseteq Event
    /\ obs \in [Devices -> [val : Status \cup {"none"}, age : 0 .. Horizon]]
    /\ reports \in 0 .. 2

\* A pending window always argues against the committed state, and since the
\* observation it argues for was first made, nothing else was observed.
WindowsWitnessed ==
    \A d \in Devices :
        LET e == file.devices[d] IN
        e.target # "none" =>
            /\ e.status \in Status /\ e.target # e.status
            /\ obs[d].val = e.target
            /\ obs[d].age >= e.age

\* An alert is created only when every observation recorded for the length of
\* the debounce showed the state it announces: an interrupted outage starts
\* over, across crashes, reconnects and unreadable or unwritable files.
AlertsDebounced ==
    [][\A e \in events' \ events :
           \/ obs[e.key].val = e.kind /\ obs[e.key].age >= cfg.debounce
           \/ cfg.debounce = 0]_vars

\* Save-first: when an alert is about to be mailed, the file already records
\* the state it announces, so no crash or later tick can announce it again.
AlertsRecorded ==
    pc = "dispatch" =>
        \A e \in events : file.devices[e.key].status = e.kind

\* The switch fetcher lets its errors out, and any fetcher may raise on an
\* answer it cannot read: such a tick never flips a device of that kind.
RaisedFailuresCarryForward ==
    [][\A d \in Devices :
           (/\ pc = "save"
            /\ \/ outcome[KindOf[d]] = "malformed"
               \/ outcome[KindOf[d]] = "error" /\ KindOf[d] = "switch"
            /\ state.devices = file.devices)
           => file'.devices[d] = file.devices[d]]_vars

\* No device is announced as missing by a tick whose call for its kind failed:
\* the absence of a device means nothing then.
MissingWasAnswered ==
    [][\A e \in events' \ events :
           snap[e.key] = "absent" => outcome[KindOf[e.key]] = "ok"]_vars

\* The report is mailed at most once a day, whatever restarts in between.
ReportOncePerDay == reports <= 1

\* Not so in the code: what a tick mails about a connection goes to the
\* recipients of the tenant that bound this connection (scheduler.py:162-164).
\* A connect between the two lock acquisitions of a tick mixes two tenants.
MailGoesToBinder ==
    (pc \in {"dispatch", "send"} /\ owner \in Tenants) => owner = Tid(binder)

\* The ledger of promises, as the daemon keeps it.
Promise == INSTANCE OutageLedger WITH
    committed <- [d \in Devices |-> file.devices[d].status],
    outbox    <- IF pc = "dispatch" THEN events ELSE {}

KeepsPromise == Promise!Spec

\* A device that stays down, on a controller that stays bound and answers, is
\* committed offline in the end, if alerts are on.
StaysDown(d) ==
    <>[](/\ connection # None
         /\ pc # "down"
         /\ \A o \in Owners : config[o].alerts
         /\ pc = "save" => KindOf[d] \in Fetched(outcome) /\ snap[d] = "offline")

OutageDetected ==
    \A d \in Devices :
        StaysDown(d) => <>[](file.devices[d].status = "offline")

\* While a controller is bound, the report of a day whose time has come is
\* marked as sent: alerts being checked on every tick do not starve it.
ReportMarked ==
    (late /\ ~file.reported /\ connection # None
        /\ \A o \in Owners : config[o].report)
    ~> (file.reported \/ ~late \/ connection = None
        \/ \E o \in Owners : ~config[o].report)
=============================================================================
