# RUCKUS DSO dashboard: specifications, checks and proofs

TLA+ models of `src/RUCKUS/ruckus_dashboard`, a Flask application that shows the
state of RUCKUS controllers in a browser and mails outages and a daily report.
Paths below are relative to that directory unless they start with `docs/` or are
the repository's `README.md`.

## 1. Inventory

The process is one Python interpreter: a threaded WSGI server, one notification
daemon thread, one warmup thread per connect with its pool, SQLite behind
SQLAlchemy, and a few files under `instance/`.

| Part | State it keeps | Operations | What is hard |
|---|---|---|---|
| Outage engine (`notify/outage.py`) | none, it is a pure function on the ledger of devices | `reconcile` | debounce windows across flaps, missing devices, failed fetches |
| Notification daemon (`notify/scheduler.py`) | bound connection and tenant, operations, time of the last check | `set_connection`, `set_available_ops`, `clear_connection`, the 30 s tick | requests between the steps of a tick, crash between save and mail, failing parts |
| State store (`notify/state_store.py`) | `notify_state.json` | `load`, `save` | unreadable file reads as empty, failed save is swallowed |
| Notification config (`notify/config.py`) | one JSON blob per tenant, the legacy file | load, save (read, merge, write) | lost updates, fall back to the file |
| Channels and mailer (`notify/channels.py`, `mailer.py`, `rules.py`) | none | send | a failed send is not retried |
| Warmup (`infra/warmup.py`, `parallel_fetch.py`, `capability_gate.py`) | status objects shared with readers, complete, cancelled | `run`, `cancel`, `snapshot` | hung fetchers, late answers, cancel, torn reads |
| Event stream (`routes/warmup.py`) | what each stream has sent | the SSE generator, the status endpoint | completion racing the last look |
| In-flight deduper (`infra/inflight.py`) | slots by key | `run` | ownership, order of clearing and waking, exceptions |
| Result cache (`infra/cache.py`) | entries with expiry | get, put, invalidate | nothing: the application makes one and never uses it |
| Sessions (`auth/session_store.py`, `infra/capability_registry.py`, `routes/connect.py`, `routes/modules.py`) | connections with TTL, operations by connection, the shared warmup scheduler | connect, logout, module requests, eviction | steps of a connect interleaved with eviction, logout and other connects |
| Identity (`auth/users.py`, `rbac.py`, `ratelimit.py`, `oidc.py`, `audit.py`, `routes/auth.py`) | the users table, the limiter's failures, the audit trail | local login, sign-on, create, deactivate, seed, the gate of every request | read and commit in two transactions, parallel attempts, a crash before the audit line |
| Stores (`auth/profiles.py`, `auth/secrets.py`, `notify/config.py`, `db/*`, `routes/topology_layout.py`) | profiles, configuration, the layout file, the key that encrypts secrets | save, delete, post, reset, import at boot | concurrent saves, masked passwords, a key file that cannot be read, a torn file, steps that fail half-way |
| Reports (`reports/*`, `routes/notifications.py`) | none | fetch anew, filter again, build, mail | rows that came or went since the page was drawn, a pool whose exit waits for hung workers |
| Controller clients (`clients/smartzone.py`, `clients/switchm.py`, `clients/base.py`) | none | paged walks, retries on other versions and paths, fallbacks | pages shifting under the reader, failures in the middle of a walk |
| Module fetchers (`modules/*`) | none but the last traffic rates | which lists a page reads, normalisation, tallies, the topology graph, tiles | partial answers, four lists of status words, caps |
| Front end (`static/dashboard.js`) | rows, filters, controls, tiles, view, the drill-in of one open page | poller, filters, tiles, chips, views, tabs, mailing the page | answers that overtake each other, two ways to set one filter, a table with room for some of the rows |
| Validator, port probe, set-up (`security/`, `net/`, `app.py`, `cli.py`, `config.py`, ...) | none that is shared | input checks, start-up | nothing concurrent |

How they meet: `POST /connect` stores a connection, discovers its operations into
the registry, cancels the warmup of whoever connected before and starts its own,
and binds the daemon; `POST /logout` undoes all of it, for everybody. The daemon
calls the same fetchers as the module routes, reads the configuration through the
store and writes only the state file. Streams read the warmup's objects without
its lock.

What makes each part correct is said with its properties in section 3; what can go
wrong, at its line, is the list `hazards` of `PROJECT.json`. A hazard that no property
guards against says so in its note, also when its step is in a model; section 3 names
those that were left out of the list.

## 2. Modules

| Module | Models | Checked by | Proved in |
|---|---|---|---|
| `OutageEngine` | `notify/outage.py` as operators on ledgers | all notify runs | `NotifySchedulerProofs` |
| `NotifyScheduler` | the daemon, the state store, the requests that touch it, the process | `MCOutage`, `MCDaily` | `NotifySchedulerProofs` |
| `OutageLedger` | what alerting promises: an abstract ledger with an outbox | `KeepsPromise` | `DaemonKeepsPromise` |
| `Warmup` | warmup thread, pool and event streams | `MCWarmup` | `WarmupProofs` |
| `InFlight` | the deduper, section by section | `MCInFlight` | `InFlightProofs` |
| `SingleFlight` | what deduplication promises | `IsSingleFlight` | `DeduperIsSingleFlight` |
| `Sessions` | connection store, capability registry, the requests that use them, the session cookie | `MCSessions` | `SessionsProofs` |
| `Identity` | app users: login, limiter, sign-on, admin pages, gate, audit, seed | `MCIdentity` | `IdentityProofs` |
| `Stores` | profiles, configuration, layout, key, import | `MCStores` | `StoresProofs` |
| `ModuleRows` | what the module pages make of rows, as operators | `MCFetch` | `FetchProofs` |
| `ControllerFetch` | one fetch: the clients' walks, retries and fallbacks (extends `ModuleRows`) | `MCFetch` | `FetchProofs` |
| `Dashboard` | one open page of the front end | `MCDashboard` | `DashboardProofs` |

### OutageEngine

A dict of `DeviceStatus` is a total function over `Devices` whose entries may be
"untracked". `pending_since` is kept as an age, which stops growing at `Horizon`,
the longest debounce of any configuration: the code only compares it with that.
`NextEntry` is the body of the loop in `reconcile` for one key; its cases are
`FetchFailed` (carried forward), `Settled`, `Matured` and `Waiting`. The baseline
branch of the code (no previous devices) does what the loop does for an unknown
device, so one rule covers both. `EventsOf` has the threshold on the batch of
outages and the recovery switch. Names, groups, raw status words and the text of
the mail are left out.

### NotifyScheduler

The daemon is a program counter over the places where a request can interleave or
the process can stop:

| Action | Code |
|---|---|
| `Tick` | the wait ends, `_connection` is read under the lock |
| `LoadConfig` | `_load_config`, with its own acquisition of the lock, and `_alerts_due` |
| `Collect` | `_store.load()` and `collect_device_snapshot` |
| `ReconcileAndSave` | `reconcile` and `_store.save` (a write to a temporary file and a rename, hence atomic) |
| `Dispatch` | the channels |
| `SkipReport`, `MarkReport`, `SendReport` | `_report_due`, `_mark_report_sent`, the report and its mail |
| `Connect`, `SeedOps`, `Logout`, `SaveConfig` | the requests |
| `Crash`, `Restart` | the process stops anywhere and starts with what the file holds |

Time passes while the daemon waits or is down: `now` is read once per tick.
`late` says that the report time of the day has passed; midnight clears it and the
"reported today" of the file at once, as comparing dates does. A fetch ends "ok",
"error" (a `RuckusClientError`) or "malformed" (an answer the fetcher chokes on);
`SwallowsErrors` is what the fetchers do with the second: access points and
controller nodes end up listed in part or not at all and still count as fetched,
switches do not. `Faults` turns on reads and writes of the state file that fail
and a database that cannot be read. `binder`, `obs` and `reports` are history
variables that only properties read.

### Warmup

The warmup thread goes through schedule, fetch, shutdown and record; `cur` is the
module whose `_set` has written `status` and not yet the fields after it. Jobs go
from queued to executing in order, at most `Workers` at a time, and end or hang.
`WaitReturns` may happen at any time, because the timeout may. A stream visits the
modules of its snapshot one by one, then leaves if the warmup is complete or waits.
Listeners are left out: a wait never lasts longer than two seconds, so a stream may
wake at any time. `SummaryRaises` ends the thread, as an exception of `summary_fn`
does. `verdict` is what platform, capabilities and the `warmup` flag decide.

### InFlight

One action per section of `run`: `Join` or `Own` under the lock, `FnEnds`, `Pop`
under the lock, `SetEvent`, `Awake`, `Return`. Slots are objects, so a slot that no
thread refers to may be used again. `SingleFlight` says the same without slots:
callers board, the flight lands once, all aboard are told the same.

### Sessions

A request thread takes a copy of its browser's cookie (`Arrive`, with the app-user
gate), goes through the handler one locked section or shared access at a time, and
replaces the cookie at the end (`Respond`) if the handler changed the session or
the session is permanent, which Flask refreshes on every response; a response may
also get lost.

| Action | Code |
|---|---|
| `Put`, `Get`, `Remove`, `Expire` | `ConnectionStore`; an expired connection stays stored until the next `put` or `get` sweeps it |
| `Notify` | `_notify_evicted`, one token at a time, outside the lock |
| `Discover`, `Clear`, `Gate` | discovery with `set_for`, `clear`, `get_for` and the gate of `module_data` |
| `CheckWarm`, `CancelWarm`, `StartWarm`, `ForgetWarm` | the accesses to `app.warmup_scheduler`, which is read again after its test |
| `SignOut` | the end of `logout`: `session.clear()` |
| `Login`, `LogoutApp` | the session side of the app user's login and logout |
| `Restart` | the process starts again with the cookies still out there |

A token passes through unused, live, idle (stored but expired) and gone. `None`
means no connection. A session names at most one connection, as `connect` replaces
the list. The registry holds a token or not: what an entry contains matters only as
far as it opens the module asked for. Binding the daemon is a step of the same
handlers modelled in `NotifyScheduler`; the thread of the warmup is `Warmup`. The
csrf token is in every session and is left out, and so are fetch errors, which
change the answer and no state. `capable`, `out` and `late` are history variables.

### Identity

A row of the users table is named by its address, which is unique. A read and the
commit after it are two steps, because SQLite takes no lock for a SELECT; a commit
is atomic. A session is a signed cookie, so `issued` only grows: the server keeps
no list and any cookie once issued may be presented at any time.

| Action | Code |
|---|---|
| `Boot`, `SeedAdmin`, `Crash` | `seed_identity` with `bootstrap_admin`; the process stops, the limiter is its memory |
| `Arrive`, `Operate` | `before_request`, `_load_identity`, `require_role` |
| `Login`, `LoginFailed`, `LoginVerified`, `Age` | `login_post`: `is_locked` with the verification, then `register_failure` or `reset`; the window moving on |
| `SignOn` with `Lookup`, `Update`, `InsertRow` | `oidc_callback`, `complete_login`, `upsert_oidc_user` |
| `CreateUser`, `InsertRow`, `Deactivate` | the admin pages |
| `Audit`, `Respond` | `record_audit` in its own transaction, the response with the new session |

The exchange with the provider is its outcome, validated claims or an error. A
password is right or wrong. The CSRF check compares two values of one request and
is left out. `late`, `closed` and `proved` are history variables.

### Stores

| Action | Code |
|---|---|
| `Boot` with `LoadKey`, `ImportProfiles`, `ImportConfig` | `create_app`, `SecretsManager`, `db/migrate.py` |
| `FindProfile`, then `SaveProfile` or `DeleteProfile` | the SELECT and the commit of `ProfileStore.save` and `delete` |
| `PostConfig`, then `StoreConfig` with `MergeIncoming` | the two transactions of `save_config` |
| `OpenLayout`, then `WriteLayout` or `FailLayout` | `write_text` truncates the file as it opens it, then writes it; either may fail |
| `ResetLayout`, `GetLayout` | the file is unlinked, or kept when that fails, with the same answer; the file is read |
| `Crash` | a commit is whole, a layout being written may be torn |

Abstractions: ciphertext is the pair of key and text; an UPDATE writes only the
columns that differ from what was read, as SQLAlchemy does; a row made again after
a delete is found under the old id; the second transaction of `save_config` is
atomic; the columns of a profile that are no secrets are one value; there is one
layout file, that of the connected controller. The file holds a layout, nothing yet
("empty"), or what does not parse ("torn"): a text is written in one go, so it is torn
when it breaks off or when the end of a longer one sticks out behind it. A writer whose
file was unlinked meanwhile is "adrift", what it writes is gone. The process stops, the
machine does not: what was written before a crash is there after it. `given`, `posted`,
`laid`, `alone` and `lost` are history variables: `laid` is what a GET may answer as far
as the answers given to saves and resets tell, `alone` the writer that has had the file
to itself since it opened it.

### ControllerFetch and ModuleRows

A fetch is a queue of calls (`Program`), each a walk over one list. `Page` reads
one page of whatever pager the call uses: GET lists with `hasMore`
(`smartzone_paged_get`), query lists (`smartzone_query_paged`), the switches
(`fetch_switches`), the VLANs, and calls of one page. `Retry` goes on to the next
version or path of the Switch Manager, starting the walk of the switches over;
`Fail` keeps what was read, drops it, or fails the fetch, as the call says;
`Object` is a call for a single object. `FallsBack` lists the access points zone by
zone when the query brought none. `Join` and `Leave` are the controller, which may
change the list being read between any two pages: `world` is what each list was when
its walk began, `view` what the one being read is now. `style` says whether the
answers carry a total and `hasMore`. The walk of one zone reads the access points of
the zone in an order of its own (`Entries`).

`ModuleRows` holds what pages do with rows, as operators: status words, totals,
zones, sites, signal means, VLANs, stacks, PoE, firmware, the graph and its leaves.
Rows carry the fields the tallies depend on. They are counted and summed by position,
and a selection keeps the positions (`RestrictValues`, `SumFunction`), as no tally
depends on the order; the leaves of a zone, where the order decides what the cap cuts,
are chosen by rank: the offline ones before them and before those listed later, which
is what the stable sort at `modules/topology.py:170` does.

Abstractions: an answer has pages of the length asked for; of the world only the
list being read changes (before its walk, a change is another initial list; after
it, nobody sees it); a single call of the Switch Manager counts as failed when all
its candidates have; authentication and HTTP are a request that succeeds or fails.

### Dashboard

The page is the list of a module or the drill-in of one row. Requests sit in slots
(`Polls` for the timer, `Others` for a page that comes back and for tabs); the
server answers (`Answer`) and the answer reaches the page (`Deliver`) in any order,
as nothing in the page orders them.

| Action | Code |
|---|---|
| `Tick`, `Hide`, `Show` | the timer of `startModulePoller`, `visibilitychange` |
| `Expire`, `Break`, `RenderDisabled`, `RenderList`, `RenderDrill`, `RenderTab` | what `fetchModule` does with an answer |
| `Choose`, `Clear` | the controls of `renderFilters` |
| `ClickTile`, `ClickChip` | `applyKpiFilter`, `_maybePoorApBreakdown` |
| `ToggleView` | `wireViewToggle` |
| `RenderData` with `FirstOf` | `renderData`: the rows that match, cut at `Cap(view)`, which is 2000 in `renderColumns` (`:409`) and 600 in `renderGrid` (`:376`) |
| `ClickTab` | the tabs of `renderDrill` |
| `Mailed` | what a report keeps of the rows that `_collect_module` fetches: `apply_filter` |

Mailing the page is no action: the server fetches the rows anew
(`routes/notifications.py:226`, `reports/collect.py:181`) and nothing of the page
changes. `Mailed` is therefore an operator on rows, and `MailFitsPage` applies it to
every content the controller may hold by the time of that fetch, whatever the page
still shows.

Abstractions: of the columns one of each kind of control, selects and ranges with a
lower bound; text searches behave as ranges do and are left out; when controllers
fail, the answer has no rows and the errors; a row keeps its place among the others
from one answer to the next (`Order`); chips are there for every access point of the
rows that match, the code stops at twenty (`:325`); the report is about one
controller, the first of the session, which is what the page of one connection shows.
`again` is a history variable.

## 3. Runs

Passing runs:

| Run | Instance | Shows |
|---|---|---|
| `notify_outage` | one controller, one access point, one switch, a debounced and an immediate configuration, no file faults | `AlertsRecorded` (save first: what is about to be mailed is in the file); `KeepsPromise` (the daemon implements `OutageLedger`: an alert is created by the step that flips the committed state, together with the others of its step, never again) |
| `notify_faults` | the same, debounced, reads and writes of the state file may fail | `WindowsWitnessed` (a pending window rests on observations as old as itself, with nothing else seen since); `AlertsDebounced` (an alert means that all observations for the length of the debounce agreed); `RaisedFailuresCarryForward` (a fetch that raised flips no device of its kind) |
| `notify_daily` | two tenants of one controller with a switch, unreadable database | `ReportOncePerDay`; `OutageDetected` (a lasting outage is committed in the end); `ReportMarked` (the report gets its turn) |
| `warmup` | three modules, one worker, one stream, any verdicts, one summary raises | `CompleteIsFinal`; `AnnouncedStands` (no event is ever contradicted by a late answer, a cancel or the end); `Completes`; `StreamsEnd` |
| `inflight` | three threads, two keys, three slots | `OneFlight`; `LateCallsRunAfresh`; `IsSingleFlight`; `AnsweredCallsReturn` |
| `sessions` | two browsers (one with an account), two threads, two connections, gate off | `OpsHaveOwner` (an entry of the registry belongs to a stored connection, or the request that removed it is about to clear it); `DisabledIsTrue` (a module is reported disabled only if its capability was not discovered or the connection is gone, `README.md:194`); `LogoutIsFinal` (a request with the cookie of a connection whose logout was answered is refused, although a slow response may bring the cookie back); `SharedWarmupRuns` |
| `identity` | two addresses, two provider accounts with the same address claim, one group, two threads, lock-out after one failure | `LockoutBounded` (parallel attempts exceed the limit by at most one each); `LocalNeedsPassword` (sign-on never opens a local account); `DeactivatedStaysOut`; `AuditIsTrue` (no line about what was not committed); `RowsKept` (no row changes hands, nothing brings a deactivated user back) |
| `stores` | one profile with two secrets, one of them imported, an imported configuration, two threads, three requests, a second key | `SecretKept` (a profile resolves to the secret last typed); `ConfigKept` (posting the mask keeps the password, what the page does not show stays); `LayoutKept` (a layout saved alone and answered is served until another save opens the file or a reset comes, and nothing older comes back after that, through failures and crashes); `BootKeepsRows` |
| `controller` | seventeen fetches, lists of up to three rows out of four, pages of two, up to two changes or failures | `WalkAccounts` (a walk loses an entry that was there all along only for one that left, reads one twice only for one that joined); `QuietWalk` (while nothing changes a walk that ran reads its list, through any retries); `QuietFetchIsExact` (an undisturbed fetch is what one look would have given, for each page's own counts and statuses); `TalliesAddUp` (tallies account for every row, and no page calls online what another calls offline); `FetchEnds` |
| `dashboard` | three clients, two with a poor signal of which one names no AP, two contents, a table with room for two rows and a grid with room for one, two polls and one other request in flight | `SelectsTellFilter`; `ShownIsFiltered` (the rows that match, cut only when the view is full); `TilesCountRows`; `MailFitsPage` (a report ordered now differs from the page by rows that came or went since, rows past the cut, and rows with an empty cell under a range, and by no others); `DrillKeepsEntity`; `FreshInTheEnd` (the page catches up in spite of failed, late and overtaken answers) |

The type invariants were checked in the same way and are now proved (section 4), so
the runs spend no time on them.

Violated runs, each a statement of the documentation that the code does not keep:

| Run | Property | What happens |
|---|---|---|
| `notify_failed_fetch` | `MissingWasAnswered` | an error of `query/ap` ends the list silently; the access points count as missing and are announced offline, the storm that `notify/scheduler.py:44-45` and the alerting design (`docs/superpowers/specs/2026-06-30-outage-alerting-design.md:388-390`) rule out |
| `sessions_two_layers` | `ConnectionsAreOwned` | with the app-user gate on, connecting drops the user from the session, and logging in again drops the connection: no session ever passes both layers (identity design, lines 46-47) |

Each property of a passing run is also run against a mutated definition (the
operators named `X_Something` beside the definition `X`), a slip one could make at
that place of the code, and is violated there.

### What the code does not do

Four more properties are stated in the modules and do not hold. To see the
counterexample, add the name to `INVARIANTS` of the configuration.

| Property | Add to | What happens |
|---|---|---|
| `MailGoesToBinder` (`NotifyScheduler`) | `MCDaily.cfg` | a connect of another tenant between the two acquisitions of the lock in a tick mixes one tenant's controller with the other's recipients (`notify/scheduler.py:161-165`) |
| `AllAnnounced` (`Warmup`) | `MCWarmup.cfg` | the stream says "complete" without having sent the last modules (plan 2 design, lines 44 and 51) |
| `DoneHasSummary` (`Warmup`) | `MCWarmup.cfg` | a stream reads a status object between two writes of `_set` and announces a finished module without its summary, which it never sends later (plan 2 design, lines 44-48) |
| `TimedOutWasStarted` (`Warmup`) | `MCWarmup.cfg` | the "per-module" timeout of `README.md:104` is the pool's; a module that never started is reported as timed out |

Met while modelling, with the exception or the guard that keeps each out of a
property:

- A click on "total" clears ranges and searches whose inputs keep their text,
  against the comment at `static/dashboard.js:300`; `SelectsTellFilter` speaks of
  selects.
- The poll of a page that comes back asks for the list although the page is a
  drill-in (`static/dashboard.js:982`); `DrillKeepsEntity` excepts such a page, and
  what is left to check is that the page recovers (`FreshInTheEnd`).
- The table ends after 2000 rows and the grid after 600 (`static/dashboard.js:409`,
  `:376`) without saying so, while tiles, chips and the mailed report go by all rows.
- The report drops rows with an empty cell under a range, the page keeps them
  (`reports/collect.py:31`, docstring "mirroring dashboard.js:_applyFilters");
  `MailFitsPage` bounds the difference.
- A failing `unlink` is passed over, the layout is kept and the answer is still
  `{"reset": true}` (`routes/topology_layout.py:76`): after a reset `LayoutKept` lets
  the layout go or stay.
- A `write_text` that fails, a crash or a second writer leaves a torn layout file and
  what was saved before is lost (`routes/topology_layout.py:66`). `LayoutKept` does not
  claim otherwise; it says that such a file is served as no layout and that the next
  save that has the file to itself puts it right.
- After a connect to another controller the ledger holds the devices of the one before
  and announces them as missing (`notify/scheduler.py:213`). The abstract ledger has
  devices and no controllers, so `KeepsPromise` does not exclude it.
- With a failing save the same alerts are mailed again at the next check
  (`notify/state_store.py:112`), after a failing load everything announced is forgotten
  (`:81`): `AlertsRecorded`, `KeepsPromise` and `ReportOncePerDay` are checked without
  file faults, `WindowsWitnessed` and `AlertsDebounced` with them.
- A cancelled warmup leaves modules running for ever in its statuses
  (`infra/warmup.py:104`); `CompleteIsFinal` excepts it. A `summary_fn` that raises
  ends the thread (`:86`), which `Completes` and `StreamsEnd` except.
- A connection that expired while its capabilities are discovered would leave an entry
  in the registry for good (`routes/connect.py:153`): kept out by the guard of `Expire`,
  see the bounds.
- The answer for a tab replaces whatever tab is open by then
  (`static/dashboard.js:806`); a later answer of a drill-in is kept and drawn only
  at the next click (`:822`); after a "disabled" answer a filter brings the old rows
  back (`:194`).
- The switches are read past the first page only if the answers carry `hasMore`
  (`clients/switchm.py:303`); `Complete` excepts others. A controller that caps
  pages below the length asked for ends a query walk early
  (`clients/smartzone.py:736`), which is outside the model.
- The drill-in of the site "unknown" finds none of the WLANs its row counts
  (`modules/wlans.py:78`).
- Admins may deactivate each other until none is active, and a restart seeds
  nothing while there are rows (`routes/auth.py:353`).
- Deleting the last profile brings the imported ones back at the next boot
  (`db/migrate.py:55`); a key file that cannot be read for a moment is replaced, and
  with it every secret is lost (`auth/secrets.py:157`).
- Two overlapping forms for one profile that type different secrets share a column,
  so the later undoes the earlier (`auth/profiles.py:124`); two overlapping saves of
  the configuration likewise (`notify/config.py:182`).
- A cancelled warmup that nobody refers to any more runs on
  (`routes/connect.py:85`); a connect or logout may fail on `None.cancel()`
  (`:75`); logout unbinds the daemon whoever bound it (`:121`), and leaves its
  operations behind (`:97`).

### Bounds

- `Horizon = 2` and ticks of one step: a window of two ticks can open, wait,
  be interrupted, mature late or be cut by a restart; ages saturate at the bounds
  and the code compares them only with delays within them.
- One device per kind is enough for the engine, which treats devices one by one
  except for the threshold; the second configuration has threshold 2 to exercise it.
  `notify_faults` keeps the first alone (without a debounce there are no windows);
  the theorems on its three properties cover every configuration and every fault.
- `notify_daily`: two tenants are the least that can be confused, and what a tenant
  confuses is the recipients. One controller is enough for its liveness properties,
  which TLC decides on the whole graph: the binding can still change hands and be lost.
- Three modules on one worker give a hung module, one queued behind it, and a third
  that is skipped, fails or raises. Streams only read, so one is as good as many.
- Three threads on the deduper give an owner, two waiters and a late caller.
- Two threads and two tokens give a poll racing a logout, an eviction by a connect
  and two connects or logouts on the shared warmup. `Expire` never strikes a
  connection while its capabilities are discovered: the time to live is twelve
  hours by default, discovery is a few requests with timeouts. This is the one
  assumption about time in `Sessions`.
- `identity`: two threads overlap any two handlers, the second of two inserts of one
  address, of a sign-on and a deactivation; two accounts that claim one address, a
  local user under it and the seeded admin are the ways rows can be confused; a
  limit of one failure makes the lock-out and its overshoot reachable.
- `stores`: `MaxRequests = 3` gives two overlapping requests and one after them,
  before or after a restart; `MaxKeys = 2` gives one lost key. Two secret fields are
  needed for one to be left blank.
- `controller`: `Limit = 2`, three rows and a fourth that joins make walks of one to
  two pages with a short, a full and an empty last page; `MaxRecords = 4` and
  `MaxPages = 2` are reached; `Candidates = 2` gives one retry and then a failure;
  `MaxEvents = 2` is a change in each of two pages, a change and a failure, or a
  retry and a failure. `Cap = 1` cuts leaves.
- `dashboard`: two polls and one other request can overtake each other; one change
  of the controller's rows makes options and selections disappear; one fault comes
  at any request. The contents hold an empty cell in each column with a control. With
  caps of two and one, all three rows overflow both views, the poor ones only the grid,
  and one that matches alone fits everywhere.
- `reports` is counted up to 2, enough to see a second one.

### Fairness

- Daemon: weak fairness of its own steps. The thread loops until the process ends,
  catches every exception of a tick, and all it calls has a timeout (HTTP and SMTP)
  except the pool of the report, where the theorem about detection would need more:
  see the hazards. Requests, crashes and restarts are never forced; liveness
  properties are stated for a process that stays up.
- Warmup: weak fairness of the thread and of each open stream; none for fetchers,
  which may hang.
- Deduper: weak fairness of every thread outside `fn`; none for `fn`.
- Fetch: weak fairness of `Request`: every request of the clients has a timeout, so
  it is answered or fails. The controller's changes are not forced.
- Dashboard: weak fairness of the timer of each slot of the poller, of the server's
  answer to its request and of its arrival, one by one: `setInterval` fires while the
  page is open, and `fetch` settles. Nothing is asked of the requests in `Others`, they
  may hang. Operator, changes and faults are not forced, and `FreshInTheEnd` is claimed
  for a page that stays open and in sight.

## 4. Proofs

`NotifySchedulerProofs` holds the theorems about the daemon, for all devices,
controllers, tenants, configurations, clock steps and (where not said otherwise)
faults, from `DevicesAssumption` and `SchedulerAssumption` alone.

| Theorem | Property | Assumes |
|---|---|---|
| `TypeCorrect` | `TypeOK` | |
| `WindowsAreWitnessed` | `WindowsWitnessed` | |
| `AlertsAreDebounced` | `AlertsDebounced` | |
| `FailuresCarryForward` | `RaisedFailuresCarryForward` | |
| `AlertsAreRecorded` | `AlertsRecorded` | saves succeed |
| `OneReportPerDay` | `ReportOncePerDay` | loads and saves succeed |
| `DaemonKeepsPromise` | `KeepsPromise` | loads and saves succeed |

`WindowsWitnessed` is not inductive alone: between `Collect` and
`ReconcileAndSave` the tick works on a copy of the file and on a snapshot, and the
invariant must say that the copy is the file (or empty, after a failed read) and
that the snapshot is one the fetches can produce. `DebounceInv` adds that as
`TickInv`. Its step lemma then needs two facts of the engine: a listed device is of
a fetched kind (`ListedIsFetched`), so what is kept as an observation is what the
engine acted on, and growing ages keep `obs` at least as old as the window
(`AdvanceKeepsWindows`, `ReconcileKeepsWindows`). `AlertsAreDebounced` follows from
the same invariant: an alert is a flip, a flip is a matured window, and a matured
window has been witnessed for the debounce time (`AlertStep`). `FailuresCarryForward`
needs one fact more, that a device the file does not track has no window in it either
(`Untraced`): the entry of such a device is written anew by every tick, and only then
is that the entry the file had. The assumptions about saves are needed: with a failing
save the alerts of a tick are mailed and the file does not know, and with a failing
read `_mark_report_sent` writes an empty ledger.

`InFlightProofs` and `WarmupProofs` need `InFlightAssumption` and `WarmupAssumption`,
`SessionsProofs` needs `SessionsAssumption`; none restricts the sizes.

| Theorem | Property |
|---|---|
| `InFlightProofs!TypeCorrect`, `WarmupProofs!TypeCorrect`, `SessionsProofs!TypeCorrect` | `TypeOK` of each |
| `FlightsAreSingle` | `OneFlight` |
| `LateCallsAreFresh` | `LateCallsRunAfresh` |
| `DeduperIsSingleFlight` | `IsSingleFlight` |
| `CompleteWarmupsAreFinal` | `CompleteIsFinal` |
| `AnnouncementsStand` | `AnnouncedStands` |
| `CapabilitiesHaveOwners` | `OpsHaveOwner` |
| `DisabledAnswersAreTrue` | `DisabledIsTrue` |
| `LogoutsAreFinal` | `LogoutIsFinal` |
| `CancelledWarmupsAreReplaced` | `SharedWarmupRuns` |

`FlightInv` says of each thread, by its place in `run`, how its slot stands: the
registered slot of a key has exactly one owner, who has not yet cleared it
(`HasOwner`, `Shared`), and whoever waits on a slot does so on one that was
registered for its key (`Places`). The refinement lets a flight land at `Pop`, the
clearing of the registration (`PopLands`), not at the wake-up: from there on nobody
can join it.

`WarmupInv` says what each phase of `run` knows of the modules: waiting for their
turn, running, or settled (`Scheduling`, `Fetching`, `Recording`). Only the first two
may get another status, so what a stream saw settled stays. Late answers are
harmless because `WaitReturns` has fixed a result for every job by then.

`SessionsInv` rests on the secrecy of new tokens: while a connect discovers its
capabilities no cookie and no other handler names its token (`NewTokens`), which in
turn holds because a token not drawn yet is nowhere (`UnusedTokens`). So no logout can
remove the connection under it, and the entry it makes has an owner. `Places` says
that what a handler has taken out of the store is gone by the time it clears the
registry; with it, an entry that is missing belongs to a connection that is gone
(`RegistryKeeps`), which is `DisabledIsTrue` seen from the gate. `LateAreRefused`
follows a late request through the store, where its token is gone for good.

`IdentityProofs` and `StoresProofs` need `IdentityAssumption` and `StoresAssumption`
alone. `DashboardProofs` needs `DashboardAssumption` and, for what is cut,
`ViewAssumption`: the page starts in one of its views, each has room for some number of
rows, any number, and an answer has its rows in an order.

| Theorem | Property |
|---|---|
| `IdentityProofs!TypeCorrect`, `StoresProofs!TypeCorrect`, `DashboardProofs!TypeCorrect` | `TypeOK` of each |
| `LockoutsAreBounded` | `LockoutBounded` |
| `LocalAccountsNeedPassword` | `LocalNeedsPassword` |
| `DeactivatedUsersStayOut` | `DeactivatedStaysOut` |
| `AuditTellsTheTruth` | `AuditIsTrue` |
| `RowsAreKept` | `RowsKept` |
| `SecretsAreKept` | `SecretKept` |
| `ConfigIsKept` | `ConfigKept` |
| `LayoutIsKept` | `LayoutKept` |
| `RowsSurviveBoot` | `BootKeepsRows` |
| `TableIsFiltered` | `ShownIsFiltered` |
| `TilesAreOfRows` | `TilesCountRows` |
| `MailFits` | `MailFitsPage` |
| `SelectsTell` | `SelectsTellFilter` |
| `DrillIsOfEntity` | `DrillKeepsEntity` |

The bound of the limiter is a count: the failures of an address and the threads that
are about to report one (`failed`) together stay below the limit plus the number
of threads, as each attempt was admitted below the limit. The other invariants of
`Identity` say what a thread knows at its place: whose row it is to update, that its
insert is still to be decided, that the subject of a row never changes, so what was
looked up may be stale in its role and never in its subject.

`SecretKept` splits in two: whatever key a ciphertext was made with, its text is the
secret last typed (`TextsKept`, `ConfigTextKept`), where `lost` marks the commits
that undo another's; and as long as no second key was made, all ciphertexts, in the
tables and in what requests have read, are of the first (`OneKey`), so they can be
decrypted. `LayoutKept` needs to know what a writer that is alone finds (`LayoutAlone`):
the file as it truncated it, and nobody else about to write, so that what it writes is
what is served.

In `Dashboard` the table as it was drawn (`Cut`) and the tiles are inductive by
themselves, since every change of rows, filters or view draws them (`ListUntouched` says
that nothing else touches the list). That a cut takes nothing from rows that fit is a
matter of counting (`FirstOfFew`): the rows before one of n rows are fewer than n.
`MailFits` follows from the table and a lemma that compares the two filters on one row
(`MailedMatch`). `SelectsTell` needs that controls exist only with
their metadata, and `DrillIsOfEntity` that until the page was hidden everything
asked and answered is of the entity (`EntityAsked`).

`FetchProofs` needs `FetchAssumption` for the walks: lists of any length without
repetition, any page size and limits, any number of changes and failures, every fetch of
`Program`. For the pages it needs in addition `CapAssumption` and `RowAssumption`, which
say what the controller's rows are: entries have ids of their own, amounts are natural
numbers, signals are integers, a catalogue is a list of versions, no zone is called
"unknown", and no group has the id of a stack (`switches.py:116` puts `groupId` and
`stackId`, which the controller draws from different numbers, in one place).

| Theorem | Property |
|---|---|
| `FetchProofs!TypeCorrect` | `TypeOK` |
| `WalksAccount` | `WalkAccounts` |
| `QuietWalksExact` | `QuietWalk` |
| `QuietFetchReads` | a quiet fetch, other than the inventory, has read every list it asked for (`QuietReads`) |
| `QuietPagesExact` | `QuietFetchIsExact` |
| `TalliesAreRight` | `TalliesAddUp` |

`WalkAccounts` speaks of a walk that is over, when its list is gone; what is inductive
is an account of the current one (`Accounts`, in `WalkInv`). The offset of the next
request cuts the list in two. An entry that was read and is ahead of the offset again
was pushed there by one that joined; one behind it that was there all along and was
not read was pulled there by one that left; and the list is no longer than what was
there all along and what joined. `JoinAccounts` and `LeaveAccounts` show that one
change moves at most one entry across the offset, and `PageAccounts` that a page moves
what it reads behind it. The offset is `Len(rows)` in every pager, which holds because
a walk goes on only after a whole page (`NextOffset`); `EndsAtEnd` is the case
analysis over the pagers that a walk whose list fits its limits ends at the end of
the list. `OnePage` (a GET list and the switches without `hasMore` read one page) is
needed for that. `Prefix`, for `QuietWalk`, says that without changes the rows are
the beginning of the list. `Types` adds that every queued call is one of `Calls` and
that lists hold ids the controller may list. 
`QuietReads` needs an account of the calls still to be made (`Queue`): no list is asked
for twice or for one zone only (`Orderly`), and what a fetch has of a list is nothing
while a call for it is waiting and the whole list after that. Most of it is about the
end of a walk (`QueueEnds`), which appends calls for the details of zones or, when the
query for the access points has brought nothing, puts the list of all of them in
front. The inventory may have the same access points in another order than the
controller's list, so `QuietReads` is said of the other sixteen fetches.

`QuietFetchIsExact` needs three accounts more, one of which is also what `TalliesAddUp`
needs. `Origin`: whatever changes, every row that was read is one the controller may
list under that name, so its fields are what `RowAssumption` says. `Detailing`: while
nothing is lost, each zone that was read has its details or a call waiting for them.
`Inventory`: while the inventory reads the access points zone by zone, what it has read
are exactly those of the zones that are no longer waiting (`Collected`, `Covered`), each
once (`ByZone`: no zone is asked for twice), so that in the end it has each access point
of a listed zone once, in an order that no tally can see. From there each page is a
statement about two sums or two counts, one over positions of `got` and one over the
entries of `world`, and a lemma per page carries one over into the other
(`ApsOfWorld`, `SitesOfWorld`, `ZonesOfWorld`, ... `GraphOfWorld`). In the same way
`TalliesAddUp` falls into one lemma for each of its conjuncts (`GroupsTally`,
`VlansTally`, ... `LeavesTally`).

All of them rest on a small theory of sums in the first half of the module. A sum of the
community modules is a fold, which takes one member after another in an order of its
own; that the fold of a finite set exists, is unique and does not depend on the order
(`SumExists`, `SumUnique`, `SumWithout`, `SumWith`) is proved by induction on the number
of members. As the library's induction rules cannot be used, the induction is the least
counterexample of a set of numbers (`Least`, `CountUp`, `SetInduction`). From it follow
sums that are equal, smaller or added up member by member, and the two that tallies use:
the sum of a table by key is the sum over what was put into it (`SumOfTable`,
`CountOfTable`). TLC checked `WalkInv`, `Types`, `Prefix`, `Queue`, `QuietReads`,
`Origin`, `Detailing` and `Inventory` on the instance of `controller` before they were
proved. The lemmas about `InsertAt`, `RemoveAt`, `ToSet` and `SetToSeq` state what these
operators of the community modules do.

With these, every safety property that a passing run checks is stated by a theorem. What
stays with TLC is liveness (`FetchEnds`, `FreshInTheEnd`, `OutageDetected`,
`ReportMarked`, `Completes`, `StreamsEnd`, `AnsweredCallsReturn`), which is beyond the
prover, and the two violated runs, which are counterexamples.

## 5. Not modelled

- `clients/ruckus_one.py`: the same walks for a platform `connect` does not offer.
- Capability discovery (`clients/capabilities.py`): an OpenAPI document read once
  per connect, one step (`Discover`) of `Sessions`.
- Validator and network helpers (`security/validator.py`, `net/`), the command line,
  certificates, logging, configuration: sequential, with no state that is shared.
- `infra/cache.py`: `app.py:164` makes one and nothing reads or fills it.
- The canvas of the topology, views other than table and grid, the filters within a tab, the layout of
  mails and spreadsheets: presentation.
- The pool of `collect_report_model`, whose `with` block waits for hung workers
  (`reports/collect.py:264`), and the traffic rates kept in `traffic._PREV` without
  a lock (`modules/traffic.py:34`), two values per switch and a clock for a number no
  other part reads.
- HTTP, JSON and authentication at the controller and at the identity provider:
  external, a request succeeds or fails.

## 6. What could follow

1. The pool of the report, with the daemon waiting for it, and the operations the
   daemon holds tied to the connection they were discovered on.
2. The connection between `Sessions` and `NotifyScheduler`: who binds the daemon and
   who unbinds it.
3. Several layout files, named by the stored connection (`routes/topology_layout.py:23`).
