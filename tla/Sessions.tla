------------------------------ MODULE Sessions ------------------------------
(***************************************************************************)
(* Connections and the requests that use them: the connection store of     *)
(* auth/session_store.py, the capability registry of                       *)
(* infra/capability_registry.py and the handlers of routes/connect.py,     *)
(* routes/modules.py and routes/auth.py, one action per section that runs  *)
(* without giving way to another request thread.                           *)
(*                                                                         *)
(* The session is a signed cookie: a handler works on the copy that came   *)
(* with its request, and the response replaces whatever cookie the browser *)
(* has by then.  A cookie is written when the handler changed the session, *)
(* and on every response when the session is permanent, which it is as     *)
(* soon as it names a user or a connection.                                *)
(***************************************************************************)
EXTENDS FiniteSets

CONSTANTS
    Browsers,       \* what keeps a cookie, one operator each
    Accounts,       \* those whose operator has an app account
    Threads,        \* request threads of the server
    Tokens,         \* connection ids, each drawn at most once
    AuthRequired,   \* RUCKUS_AUTH_REQUIRED
    None

ASSUME SessionsAssumption ==
    /\ None \notin Tokens \cup Browsers
    /\ Accounts \subseteq Browsers
    /\ AuthRequired \in BOOLEAN

VARIABLES
    cookie,     \* the session cookie of each browser
    store,      \* ConnectionStore._connections, with the fate of past tokens
    ops,        \* tokens with an entry in CapabilityRegistry._ops
    warm,       \* app.warmup_scheduler
    pc, kind, from, held,   \* each thread: its place, handler, browser, session
    token,      \* the connection id the handler works on
    evicted,    \* the evicted tokens it has yet to report
    answer,     \* what it says about the module
    late,       \* history: its cookie named a connection already logged out
    capable,    \* history: tokens whose capabilities were discovered
    out         \* history: tokens whose logout was answered

shared  == <<cookie, store, ops, warm>>
thread  == <<pc, kind, from, held, token, evicted, answer, late>>
history == <<capable, out>>
vars == <<shared, thread, history>>

-----------------------------------------------------------------------------
Session == [user : BOOLEAN, conn : Tokens \cup {None}]

Blank == [user |-> FALSE, conn |-> None]

Permanent(s) == s # Blank

Place == {"idle", "handle", "evict", "discover", "check", "cancel", "start",
          "remove", "clear", "forget", "finish", "gate", "respond"}

Kind == {"connect", "logout", "module", "login", "logout_app", "rejected", "refused"}

TypeOK ==
    /\ cookie \in [Browsers -> Session]
    /\ store \in [Tokens -> {"unused", "live", "idle", "gone"}]
    /\ ops \subseteq Tokens
    /\ warm \in {"none", "running", "cancelled"}
    /\ pc \in [Threads -> Place]
    /\ kind \in [Threads -> Kind]
    /\ from \in [Threads -> Browsers \cup {None}]
    /\ held \in [Threads -> Session]
    /\ token \in [Threads -> Tokens \cup {None}]
    /\ evicted \in [Threads -> SUBSET Tokens]
    /\ answer \in [Threads -> {"none", "data", "disabled"}]
    /\ late \in [Threads -> BOOLEAN]
    /\ capable \subseteq Tokens
    /\ out \subseteq Tokens
    /\ \A t \in Threads :
           /\ pc[t] = "evict" <=> evicted[t] # {}
           /\ pc[t] = "idle" => answer[t] = "none" /\ token[t] = None /\ from[t] = None

Init ==
    /\ cookie = [b \in Browsers |-> Blank]
    /\ store = [k \in Tokens |-> "unused"]
    /\ ops = {} /\ capable = {} /\ out = {}
    /\ warm = "none"
    /\ pc = [t \in Threads |-> "idle"]
    /\ kind = [t \in Threads |-> "refused"]
    /\ from = [t \in Threads |-> None]
    /\ held = [t \in Threads |-> Blank]
    /\ token = [t \in Threads |-> None]
    /\ evicted = [t \in Threads |-> {}]
    /\ answer = [t \in Threads |-> "none"]
    /\ late = [t \in Threads |-> FALSE]

Stored(k) == store[k] \in {"live", "idle"}

Goto(t, place) == pc' = [pc EXCEPT ![t] = place]

-----------------------------------------------------------------------------
\* before_request: the cookie is read, and the app-user gate lets the request
\* through or answers it.  An identity that is inactive or cannot be loaded
\* counts as absent.
Admitted(s, k, loaded) == AuthRequired => k = "login" \/ (s.user /\ loaded)

Arrive(t, b, k, loaded) ==
    /\ pc[t] = "idle"
    /\ from' = [from EXCEPT ![t] = b]
    /\ held' = [held EXCEPT ![t] = cookie[b]]
    /\ late' = [late EXCEPT ![t] = k = "module" /\ cookie[b].conn \in out]
    /\ kind' = [kind EXCEPT ![t] = IF Admitted(cookie[b], k, loaded) THEN k ELSE "refused"]
    /\ Goto(t, IF Admitted(cookie[b], k, loaded) THEN "handle" ELSE "respond")
    /\ UNCHANGED <<shared, token, evicted, answer, history>>

-----------------------------------------------------------------------------
\* The connection store.  put and get first drop what was idle for too long;
\* the callback for what they dropped runs once the lock is released.

Expired == {k \in Tokens : store[k] = "idle"}

Swept == [k \in Tokens |-> IF k \in Expired THEN "gone" ELSE store[k]]

\* _notify_evicted: one token after the other, then the handler goes on.
Resume(k) == CASE k = "connect" -> "discover"
               [] k = "logout"  -> "remove"
               [] k = "module"  -> "gate"
               [] OTHER         -> "respond"

ThenEvict_NoCallback(t, k, dropped) ==
    /\ kind' = [kind EXCEPT ![t] = k]
    /\ Goto(t, Resume(k))
    /\ UNCHANGED evicted

ThenEvict(t, k, dropped) ==
    /\ evicted' = [evicted EXCEPT ![t] = dropped]
    /\ kind' = [kind EXCEPT ![t] = k]
    /\ Goto(t, IF dropped = {} THEN Resume(k) ELSE "evict")

Notify(t, k) ==
    /\ pc[t] = "evict" /\ k \in evicted[t]
    /\ ops' = ops \ {k}
    /\ ThenEvict(t, kind[t], evicted[t] \ {k})
    /\ UNCHANGED <<cookie, store, warm,
                   from, held, token, answer, late, history>>

\* A connection was not used for longer than the time to live.  Discovery is
\* much shorter than that.
Expire(k) ==
    /\ store[k] = "live"
    /\ \A t \in Threads : token[t] = k => kind[t] # "connect"
    /\ store' = [store EXCEPT ![k] = "idle"]
    /\ UNCHANGED <<cookie, ops, warm, thread, history>>

-----------------------------------------------------------------------------
\* connect

AuthenticateFails(t) ==
    /\ pc[t] = "handle" /\ kind[t] = "connect"
    /\ kind' = [kind EXCEPT ![t] = "rejected"]
    /\ Goto(t, "respond")
    /\ UNCHANGED <<shared, from, held, token, evicted, answer, late, history>>

Put(t, k) ==
    /\ pc[t] = "handle" /\ kind[t] = "connect"
    /\ store[k] = "unused"
    /\ store' = [Swept EXCEPT ![k] = "live"]
    /\ token' = [token EXCEPT ![t] = k]
    /\ held' = [held EXCEPT ![t] = [user |-> FALSE, conn |-> k]]
    /\ ThenEvict(t, "connect", Expired)
    /\ UNCHANGED <<cookie, ops, warm,
                   from, answer, late, history>>

\* _refresh_available_ops: discovery finds the capability, or it fails, finds
\* none or is skipped for the platform.
Discover(t) ==
    /\ pc[t] = "discover"
    /\ \/ /\ ops' = ops \cup {token[t]}
          /\ capable' = capable \cup {token[t]}
       \/ UNCHANGED <<ops, capable>>
    /\ Goto(t, "check")
    /\ UNCHANGED <<cookie, store, warm,
                   kind, from, held, token, evicted, answer, late, out>>

\* connect and logout test app.warmup_scheduler, then read it again to cancel
\* it; when another logout has cleared it in between, that raises and the
\* request ends with a 500.
CheckWarm(t) ==
    /\ pc[t] = "check"
    /\ Goto(t, IF warm # "none" THEN "cancel"
               ELSE IF kind[t] = "connect" THEN "start" ELSE "finish")
    /\ UNCHANGED <<shared, kind, from, held, token, evicted, answer, late, history>>

CancelWarm(t) ==
    /\ pc[t] = "cancel"
    /\ IF warm = "none"
       THEN /\ kind' = [kind EXCEPT ![t] = "refused"]
            /\ Goto(t, "respond")
            /\ UNCHANGED warm
       ELSE /\ warm' = "cancelled"
            /\ Goto(t, IF kind[t] = "connect" THEN "start" ELSE "forget")
            /\ UNCHANGED kind
    /\ UNCHANGED <<cookie, store, ops, from, held, token, evicted, answer, late, history>>

StartWarm(t) ==
    /\ pc[t] = "start"
    /\ warm' = "running"
    /\ Goto(t, "respond")
    /\ UNCHANGED <<cookie, store, ops,
                   kind, from, held, token, evicted, answer, late, history>>

-----------------------------------------------------------------------------
\* The look-up of the connection a request works on, by logout and by the
\* module routes.

Get(t) ==
    /\ pc[t] = "handle" /\ kind[t] \in {"logout", "module"}
    /\ held[t].conn # None
    /\ store' = Swept
    /\ token' = [token EXCEPT ![t] = held[t].conn]
    /\ ThenEvict(t,
                 IF kind[t] = "module" /\ Swept[held[t].conn] # "live"
                 THEN "refused" ELSE kind[t],
                 Expired)
    /\ UNCHANGED <<cookie, ops, warm,
                   from, held, answer, late, history>>

NoConnection(t) ==
    /\ pc[t] = "handle" /\ kind[t] \in {"logout", "module"}
    /\ held[t].conn = None
    /\ Goto(t, IF kind[t] = "logout" THEN "check" ELSE "respond")
    /\ UNCHANGED <<shared, kind, from, held, token, evicted, answer, late, history>>

-----------------------------------------------------------------------------
\* logout

Remove_LeavesIt(t) ==
    /\ pc[t] = "remove"
    /\ Goto(t, "clear")
    /\ UNCHANGED <<shared, kind, from, held, token, evicted, answer, late, history>>

Remove(t) ==
    /\ pc[t] = "remove"
    /\ store' = [store EXCEPT ![token[t]] = "gone"]
    /\ Goto(t, "clear")
    /\ UNCHANGED <<cookie, ops, warm,
                   kind, from, held, token, evicted, answer, late, history>>

Clear_All(t) ==
    /\ pc[t] = "clear"
    /\ ops' = {}
    /\ Goto(t, "check")
    /\ UNCHANGED <<cookie, store, warm,
                   kind, from, held, token, evicted, answer, late, history>>

Clear(t) ==
    /\ pc[t] = "clear"
    /\ ops' = ops \ {token[t]}
    /\ Goto(t, "check")
    /\ UNCHANGED <<cookie, store, warm,
                   kind, from, held, token, evicted, answer, late, history>>

ForgetWarm_KeepsIt(t) ==
    /\ pc[t] = "forget"
    /\ Goto(t, "finish")
    /\ UNCHANGED <<shared, kind, from, held, token, evicted, answer, late, history>>

ForgetWarm(t) ==
    /\ pc[t] = "forget"
    /\ warm' = "none"
    /\ Goto(t, "finish")
    /\ UNCHANGED <<cookie, store, ops,
                   kind, from, held, token, evicted, answer, late, history>>

SignOut(t) ==
    /\ pc[t] = "finish"
    /\ held' = [held EXCEPT ![t] = Blank]
    /\ Goto(t, "respond")
    /\ UNCHANGED <<shared, kind, from, token, evicted, answer, late, history>>

-----------------------------------------------------------------------------
\* module_data: the registry is read after the store.  A module that requires
\* no capability, and the drill routes, answer with data in any case.

Gate(t) ==
    /\ pc[t] = "gate"
    /\ \/ answer' = [answer EXCEPT ![t] = "data"]
       \/ /\ token[t] \notin ops
          /\ answer' = [answer EXCEPT ![t] = "disabled"]
    /\ Goto(t, "respond")
    /\ UNCHANGED <<shared, kind, from, held, token, evicted, late, history>>

-----------------------------------------------------------------------------
\* Login and logout of the app user.

Login(t) ==
    /\ pc[t] = "handle" /\ kind[t] = "login"
    /\ \/ /\ from[t] \in Accounts
          /\ held' = [held EXCEPT ![t] = [user |-> TRUE, conn |-> None]]
       \/ UNCHANGED held
    /\ Goto(t, "respond")
    /\ UNCHANGED <<shared, kind, from, token, evicted, answer, late, history>>

LogoutApp(t) ==
    /\ pc[t] = "handle" /\ kind[t] = "logout_app"
    /\ held' = [held EXCEPT ![t] = Blank]
    /\ Goto(t, "respond")
    /\ UNCHANGED <<shared, kind, from, token, evicted, answer, late, history>>

-----------------------------------------------------------------------------
\* The response replaces the cookie of its browser, if it carries one and
\* arrives.
WritesCookie(t) ==
    kind[t] \notin {"module", "refused"} \/ Permanent(held[t])

Respond(t) ==
    /\ pc[t] = "respond"
    /\ \/ /\ WritesCookie(t)
          /\ cookie' = [cookie EXCEPT ![from[t]] = held[t]]
       \/ UNCHANGED cookie
    /\ out' = IF kind[t] = "logout" THEN out \cup ({token[t]} \ {None}) ELSE out
    /\ Goto(t, "idle")
    /\ kind' = [kind EXCEPT ![t] = "refused"]
    /\ held' = [held EXCEPT ![t] = Blank]
    /\ token' = [token EXCEPT ![t] = None]
    /\ answer' = [answer EXCEPT ![t] = "none"]
    /\ late' = [late EXCEPT ![t] = FALSE]
    /\ from' = [from EXCEPT ![t] = None]
    /\ UNCHANGED <<store, ops, warm, evicted, capable>>

\* The process stops and starts again.  Cookies outlive it, connections do not.
Restart ==
    /\ store' = [k \in Tokens |-> IF Stored(k) THEN "gone" ELSE store[k]]
    /\ ops' = {} /\ warm' = "none"
    /\ pc' = [t \in Threads |-> "idle"]
    /\ kind' = [t \in Threads |-> "refused"]
    /\ from' = [t \in Threads |-> None]
    /\ held' = [t \in Threads |-> Blank]
    /\ token' = [t \in Threads |-> None]
    /\ evicted' = [t \in Threads |-> {}]
    /\ answer' = [t \in Threads |-> "none"]
    /\ late' = [t \in Threads |-> FALSE]
    /\ UNCHANGED <<cookie, history>>

-----------------------------------------------------------------------------
Connecting(t) ==
    \/ AuthenticateFails(t)
    \/ \E k \in Tokens : Put(t, k)
    \/ Discover(t) \/ StartWarm(t)

LoggingOut(t) == Remove(t) \/ Clear(t) \/ ForgetWarm(t) \/ SignOut(t)

Handle(t) ==
    \/ \E b \in Browsers, k \in Kind \ {"rejected", "refused"}, loaded \in BOOLEAN :
           Arrive(t, b, k, loaded)
    \/ \E k \in Tokens : Notify(t, k)
    \/ Get(t) \/ NoConnection(t)
    \/ CheckWarm(t) \/ CancelWarm(t)
    \/ Connecting(t) \/ LoggingOut(t)
    \/ Gate(t) \/ Login(t) \/ LogoutApp(t)
    \/ Respond(t)

Next ==
    \/ \E t \in Threads : Handle(t)
    \/ \E k \in Tokens : Expire(k)
    \/ Restart

Spec == Init /\ [][Next]_vars

-----------------------------------------------------------------------------
(***************************************************************************)
(* Properties                                                              *)
(***************************************************************************)

\* No entry of the registry outlives its connection: it belongs to a stored
\* connection, or the request that took that connection out of the store has
\* yet to clear it (the on_evict callback of app.py, logout).
OpsHaveOwner ==
    \A k \in ops :
        \/ Stored(k)
        \/ \E t \in Threads : k \in evicted[t] \/ (pc[t] = "clear" /\ token[t] = k)

\* A request is told that a module is disabled only if the capability was not
\* discovered or the connection is gone.  No other operator's logout or
\* eviction, at any moment between the look-ups of module_data, makes it so.
DisabledIsTrue ==
    \A t \in Threads :
        answer[t] = "disabled" => token[t] \notin capable \/ store[token[t]] = "gone"

\* A request that comes with the cookie of a connection after its logout was
\* answered is refused, although a slower response may have put that cookie
\* back into the browser.
LogoutIsFinal ==
    \A t \in Threads : late[t] => answer[t] = "none"

\* A cancelled warmup is the shared one only while the request that cancelled
\* it is about to replace it: the status page never rests on a dead warmup.
SharedWarmupRuns ==
    warm = "cancelled" => \E t \in Threads : pc[t] \in {"start", "forget"}

\* A connection belongs to the user that made it: with the app-user gate on, a
\* session that names a connection also names a user.
ConnectionsAreOwned ==
    AuthRequired => \A b \in Browsers : cookie[b].conn # None => cookie[b].user
=============================================================================
