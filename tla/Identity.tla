------------------------------ MODULE Identity ------------------------------
(***************************************************************************)
(* The app users of auth/users.py and what may change or use them: local   *)
(* login with its limiter (auth/ratelimit.py), single sign-on              *)
(* (auth/oidc.py), the admin pages of routes/auth.py, the identity each    *)
(* request is served under (app.py, auth/rbac.py), the audit trail and the *)
(* seed at boot.                                                           *)
(*                                                                         *)
(* A session is a signed cookie that names a user.  The server keeps no    *)
(* list of them, so one it has issued may be presented at any time.  A     *)
(* read of the database and the commit that follows it are two steps:      *)
(* SQLite takes no lock for a SELECT.                                      *)
(***************************************************************************)
EXTENDS Naturals, FiniteSets

CONSTANTS
    Emails,         \* addresses of users, unique in the table
    Admin,          \* the address of the break-glass account
    NoEmail,        \* what an identity without an address is stored under
    Subjects,       \* accounts at the identity provider
    EmailOf,        \* the address claim of each, which does not change
    Groups,         \* groups at the identity provider
    RoleOf,         \* RUCKUS_OIDC_GROUP_ROLES as parsed: some groups' role
    Threads,        \* request threads
    MaxFailures,
    None

Viewer == 1   Operator == 2   Manager == 3   \* Role, "admin" being the highest

Roles == {Viewer, Operator, Manager}

Note == {"role_changed", "login_success", "user_create", "user_deactivate"}

ASSUME IdentityAssumption ==
    /\ Admin \in Emails /\ Admin # NoEmail
    /\ EmailOf \in [Subjects -> Emails]
    /\ RoleOf \in [Groups -> Roles]
    /\ None \notin Subjects \cup Emails \cup Note
    /\ MaxFailures \in Nat \ {0}
    /\ IsFiniteSet(Threads)

VARIABLES
    up,         \* the process runs
    rows,       \* the addresses in the users table, by which its rows are named
    subject, rank, active,  \* columns; a local account has no subject
    fails,      \* failures in the limiter's window, per address
    issued,     \* users a session cookie was issued for
    pc, kind,   \* each thread: its place and handler
    acct, claim, want, seen,    \* the row and subject it works on, the role
                                \* it is to get, the role that was read
    note,       \* what it is about to audit
    late,       \* history: it came after its user's deactivation was answered
    closed,     \* history: users whose deactivation was answered
    proved      \* history: users who gave their password

table   == <<rows, subject, rank, active>>
thread  == <<pc, kind, acct, claim, want, seen, note, late>>
history == <<closed, proved>>
vars == <<up, table, fails, issued, thread, history>>

-----------------------------------------------------------------------------
Kind == {"login", "sso", "operate", "create", "deactivate"}

Place == {"idle", "handle", "verified", "failed", "update", "insert", "audit", "respond"}

TableOK ==
    /\ up \in BOOLEAN
    /\ rows \subseteq Emails
    /\ subject \in [Emails -> Subjects \cup {None}]
    /\ rank \in [Emails -> Roles]
    /\ active \in [Emails -> BOOLEAN]
    /\ fails \in [Emails -> Nat]
    /\ issued \subseteq Emails
    /\ closed \subseteq Emails
    /\ proved \subseteq Emails

ThreadOK ==
    /\ pc \in [Threads -> Place]
    /\ kind \in [Threads -> Kind]
    /\ acct \in [Threads -> Emails \cup {None}]
    /\ claim \in [Threads -> Subjects \cup {None}]
    /\ want \in [Threads -> Roles]
    /\ seen \in [Threads -> Roles]
    /\ note \in [Threads -> Note \cup {None}]
    /\ late \in [Threads -> BOOLEAN]

\* A thread names a row, and a subject during sign-on, once it has looked.
ThreadShape ==
    \A t \in Threads :
        IF pc[t] \in {"idle", "handle"}
        THEN acct[t] = None /\ claim[t] = None /\ note[t] = None
        ELSE acct[t] \in Emails /\ (kind[t] = "sso" <=> claim[t] # None)

TypeOK == TableOK /\ ThreadOK /\ ThreadShape

NoRequest ==
    /\ pc = [t \in Threads |-> "idle"]
    /\ kind = [t \in Threads |-> "operate"]
    /\ acct = [t \in Threads |-> None]
    /\ claim = [t \in Threads |-> None]
    /\ want = [t \in Threads |-> Viewer]
    /\ seen = [t \in Threads |-> Viewer]
    /\ note = [t \in Threads |-> None]
    /\ late = [t \in Threads |-> FALSE]

Init ==
    /\ up = FALSE
    /\ rows = {}
    /\ subject = [e \in Emails |-> None]
    /\ rank = [e \in Emails |-> Viewer]
    /\ active = [e \in Emails |-> FALSE]
    /\ fails = [e \in Emails |-> 0]
    /\ issued = {} /\ closed = {} /\ proved = {}
    /\ NoRequest

Goto(t, place) == pc' = [pc EXCEPT ![t] = place]

Done(t) ==
    /\ Goto(t, "idle")
    /\ kind' = [kind EXCEPT ![t] = "operate"]
    /\ acct' = [acct EXCEPT ![t] = None]
    /\ claim' = [claim EXCEPT ![t] = None]
    /\ want' = [want EXCEPT ![t] = Viewer]
    /\ seen' = [seen EXCEPT ![t] = Viewer]
    /\ note' = [note EXCEPT ![t] = None]
    /\ late' = [late EXCEPT ![t] = FALSE]

Insert(e, s, r) ==
    /\ rows' = rows \cup {e}
    /\ subject' = [subject EXCEPT ![e] = s]
    /\ rank' = [rank EXCEPT ![e] = r]
    /\ active' = [active EXCEPT ![e] = TRUE]

-----------------------------------------------------------------------------
\* seed_identity at every start: bootstrap_admin acts on an empty table only.
SeedAdmin_Always == Insert(Admin, None, Manager)

SeedAdmin == IF rows = {} THEN Insert(Admin, None, Manager) ELSE UNCHANGED table

Boot ==
    /\ ~up
    /\ up' = TRUE
    /\ SeedAdmin
    /\ UNCHANGED <<fails, issued, thread, history>>

\* The process stops.  What it had not committed is lost, and the limiter is
\* its memory; rows and cookies stay.
Crash ==
    /\ up
    /\ up' = FALSE
    /\ fails' = [e \in Emails |-> 0]
    /\ pc' = [t \in Threads |-> "idle"]
    /\ kind' = [t \in Threads |-> "operate"]
    /\ acct' = [t \in Threads |-> None]
    /\ claim' = [t \in Threads |-> None]
    /\ want' = [t \in Threads |-> Viewer]
    /\ seen' = [t \in Threads |-> Viewer]
    /\ note' = [t \in Threads |-> None]
    /\ late' = [t \in Threads |-> FALSE]
    /\ UNCHANGED <<table, issued, history>>

-----------------------------------------------------------------------------
\* _load_identity: the row decides, not the cookie, whether there is a user
\* and in which role.  A row that cannot be read counts as absent.
Loaded_AnyRow(u) == u \in rows

Loaded(u) == u \in rows /\ active[u]

\* The gate in front of every route, then require_role.
NeededRole(k) == CASE k = "operate" -> Operator
                   [] k \in {"create", "deactivate"} -> Manager
                   [] OTHER -> Viewer

Admitted(u, k) == k \in {"login", "sso"} \/ (Loaded(u) /\ rank[u] >= NeededRole(k))

\* A request with the session of u, or without one; a denied one ends at once.
Arrive(t, u, k) ==
    /\ up /\ pc[t] = "idle"
    /\ Admitted(u, k)
    /\ Goto(t, "handle")
    /\ kind' = [kind EXCEPT ![t] = k]
    /\ late' = [late EXCEPT ![t] = u \in closed]
    /\ UNCHANGED <<up, table, fails, issued, acct, claim, want, seen, note, history>>

\* The routes of the other components.
Operate(t) ==
    /\ pc[t] = "handle" /\ kind[t] = "operate"
    /\ Done(t)
    /\ UNCHANGED <<up, table, fails, issued, history>>

-----------------------------------------------------------------------------
\* Local login: the limiter is asked, the password is verified, and only then
\* the outcome is told to the limiter.

Locked_OneMore(e) == fails[e] > MaxFailures

Locked(e) == fails[e] >= MaxFailures

\* The row exists, is active and has a password, and that is the one given.
Verified(e, right) == e \in rows /\ active[e] /\ subject[e] = None /\ right

Login(t, e, right) ==
    /\ pc[t] = "handle" /\ kind[t] = "login"
    /\ IF Locked(e)
       THEN Done(t) /\ UNCHANGED proved
       ELSE /\ Goto(t, IF Verified(e, right) THEN "verified" ELSE "failed")
            /\ acct' = [acct EXCEPT ![t] = e]
            /\ proved' = IF Verified(e, right) THEN proved \cup {e} ELSE proved
            /\ UNCHANGED <<kind, claim, want, seen, note, late>>
    /\ UNCHANGED <<up, table, fails, issued, closed>>

LoginFailed(t) ==
    /\ pc[t] = "failed"
    /\ fails' = [fails EXCEPT ![acct[t]] = @ + 1]
    /\ Done(t)
    /\ UNCHANGED <<up, table, issued, history>>

LoginVerified(t) ==
    /\ pc[t] = "verified"
    /\ fails' = [fails EXCEPT ![acct[t]] = 0]
    /\ note' = [note EXCEPT ![t] = "login_success"]
    /\ Goto(t, "audit")
    /\ UNCHANGED <<up, table, issued, kind, acct, claim, want, seen, late, history>>

\* The oldest failure leaves the window.
Age(e) ==
    /\ fails[e] > 0
    /\ fails' = [fails EXCEPT ![e] = @ - 1]
    /\ UNCHANGED <<up, table, issued, thread, history>>

-----------------------------------------------------------------------------
\* Single sign-on.

\* map_groups_to_role: the highest role the groups grant, at least viewer.
Grants(gs, r) ==
    LET granted == {Viewer} \cup {RoleOf[g] : g \in gs}
    IN  r \in granted /\ \A x \in granted : x <= r

Linked_ByAddress(s) == {e \in rows : subject[e] = s \/ e = EmailOf[s]}

Linked(s) == {e \in rows : subject[e] = s}

\* upsert_oidc_user up to its flush.  The subject decides which row it is;
\* without one a row is to be made, unless the address is taken.
Lookup(t, s, r) ==
    /\ pc[t] = "handle" /\ kind[t] = "sso"
    /\ IF Linked(s) = {} /\ EmailOf[s] # NoEmail /\ EmailOf[s] \in rows
       THEN Done(t)
       ELSE /\ \E e \in IF Linked(s) = {} THEN {EmailOf[s]} ELSE Linked(s) :
                   /\ acct' = [acct EXCEPT ![t] = e]
                   /\ seen' = [seen EXCEPT ![t] = rank[e]]
            /\ claim' = [claim EXCEPT ![t] = s]
            /\ want' = [want EXCEPT ![t] = r]
            /\ Goto(t, IF Linked(s) = {} THEN "insert" ELSE "update")
            /\ UNCHANGED <<kind, note, late>>
    /\ UNCHANGED <<up, table, fails, issued, history>>

\* The callback: the provider's validated claims name a subject and its groups,
\* or the exchange fails in any of its steps.
SignOn(t) ==
    \/ \E s \in Subjects, gs \in SUBSET Groups, r \in Roles : Grants(gs, r) /\ Lookup(t, s, r)
    \/ /\ pc[t] = "handle" /\ kind[t] = "sso"
       /\ Done(t)
       /\ UNCHANGED <<up, table, fails, issued, history>>

\* The commit for a known subject writes the role only if it differs from the
\* one that was read.
Update(t) ==
    /\ pc[t] = "update"
    /\ rank' = IF want[t] # seen[t] THEN [rank EXCEPT ![acct[t]] = want[t]] ELSE rank
    /\ note' = [note EXCEPT ![t] = IF want[t] # seen[t] THEN "role_changed" ELSE "login_success"]
    /\ Goto(t, "audit")
    /\ UNCHANGED <<up, rows, subject, active, fails, issued,
                   kind, acct, claim, want, seen, late, history>>

\* The insert of a new row, by sign-on or by an admin; the unique address
\* refuses the later of two.
InsertRow_AuditsAnyway(t) ==
    /\ pc[t] = "insert"
    /\ IF acct[t] \in rows THEN UNCHANGED table ELSE Insert(acct[t], claim[t], want[t])
    /\ note' = [note EXCEPT ![t] = IF kind[t] = "sso" THEN "login_success" ELSE "user_create"]
    /\ Goto(t, "audit")
    /\ UNCHANGED <<up, fails, issued, kind, acct, claim, want, seen, late, history>>

InsertRow(t) ==
    /\ pc[t] = "insert"
    /\ IF acct[t] \in rows
       THEN Done(t) /\ UNCHANGED table
       ELSE /\ Insert(acct[t], claim[t], want[t])
            /\ note' = [note EXCEPT ![t] = IF kind[t] = "sso" THEN "login_success"
                                                              ELSE "user_create"]
            /\ Goto(t, "audit")
            /\ UNCHANGED <<kind, acct, claim, want, seen, late>>
    /\ UNCHANGED <<up, fails, issued, history>>

-----------------------------------------------------------------------------
\* The admin pages.

CreateUser(t, e, r) ==
    /\ pc[t] = "handle" /\ kind[t] = "create"
    /\ e # NoEmail
    /\ IF e \in rows
       THEN Done(t)
       ELSE /\ acct' = [acct EXCEPT ![t] = e]
            /\ want' = [want EXCEPT ![t] = r]
            /\ Goto(t, "insert")
            /\ UNCHANGED <<kind, claim, seen, note, late>>
    /\ UNCHANGED <<up, table, fails, issued, history>>

Deactivate(t, e) ==
    /\ pc[t] = "handle" /\ kind[t] = "deactivate"
    /\ e \in rows
    /\ active' = [active EXCEPT ![e] = FALSE]
    /\ acct' = [acct EXCEPT ![t] = e]
    /\ note' = [note EXCEPT ![t] = "user_deactivate"]
    /\ Goto(t, "audit")
    /\ UNCHANGED <<up, rows, subject, rank, fails, issued,
                   kind, claim, want, seen, late, history>>

-----------------------------------------------------------------------------
\* record_audit writes the note in a transaction of its own, after the commit
\* it is about; a failure is swallowed.  A sign-on that changed a role has two
\* notes to write.
Audit(t) ==
    /\ pc[t] = "audit"
    /\ closed' = IF note[t] = "user_deactivate" THEN closed \cup {acct[t]} ELSE closed
    /\ IF note[t] \in {"user_create", "user_deactivate"}
       THEN Done(t)
       ELSE /\ note' = [note EXCEPT ![t] = "login_success"]
            /\ Goto(t, IF note[t] = "role_changed" THEN "audit" ELSE "respond")
            /\ UNCHANGED <<kind, acct, claim, want, seen, late>>
    /\ UNCHANGED <<up, table, fails, issued, proved>>

\* _rotate_session_for_login: the response carries the new session.
Respond(t) ==
    /\ pc[t] = "respond"
    /\ issued' = issued \cup {acct[t]}
    /\ Done(t)
    /\ UNCHANGED <<up, table, fails, history>>

-----------------------------------------------------------------------------
Handle(t) ==
    \/ \E u \in issued \cup {None}, k \in Kind : Arrive(t, u, k)
    \/ Operate(t)
    \/ \E e \in Emails, right \in BOOLEAN : Login(t, e, right)
    \/ LoginFailed(t) \/ LoginVerified(t)
    \/ SignOn(t) \/ Update(t) \/ InsertRow(t)
    \/ \E e \in Emails, r \in Roles : CreateUser(t, e, r)
    \/ \E e \in Emails : Deactivate(t, e)
    \/ Audit(t) \/ Respond(t)

Next ==
    \/ \E t \in Threads : Handle(t)
    \/ \E e \in Emails : Age(e)
    \/ Boot \/ Crash

Spec == Init /\ [][Next]_vars

-----------------------------------------------------------------------------
(***************************************************************************)
(* Properties                                                              *)
(***************************************************************************)

\* The lock-out is late by at most the attempts in flight: is_locked and
\* register_failure of login_post are two critical sections, so every other
\* thread may already have passed the first.
LockoutBounded == \A e \in Emails : fails[e] < MaxFailures + Cardinality(Threads)

\* Sign-on never opens a local account: a session for one was issued to
\* somebody who gave its password, whatever addresses the provider claims and
\* whoever creates the row meanwhile (OidcEmailConflict).
LocalNeedsPassword ==
    \A e \in issued : subject[e] = None => e \in proved

\* A deactivated user stays out: no request that comes after the deactivation
\* was answered is served under that identity, whatever sessions exist or are
\* still issued by sign-on.
DeactivatedStaysOut ==
    \A t \in Threads : late[t] => kind[t] \in {"login", "sso"} \/ pc[t] = "idle"

\* The audit trail tells of nothing that did not happen: what is about to be
\* written was committed, and a commit that was refused is not reported.
AuditIsTrue ==
    \A t \in Threads :
        /\ note[t] = "user_create" => acct[t] \in rows /\ subject[acct[t]] = None
        /\ note[t] = "user_deactivate" => ~active[acct[t]]
        /\ note[t] = "role_changed" => subject[acct[t]] = claim[t] /\ claim[t] # None
        /\ note[t] = "login_success" =>
               acct[t] \in rows /\ subject[acct[t]] = claim[t]

\* A row keeps its subject, a local account its role, and nothing brings a
\* deactivated user back, not even a restart.
RowsKept ==
    [][\A e \in rows :
           /\ e \in rows'
           /\ subject'[e] = subject[e]
           /\ rank'[e] = rank[e] \/ subject[e] # None
           /\ active'[e] => active[e]]_vars
=============================================================================
