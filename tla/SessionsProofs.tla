--------------------------- MODULE SessionsProofs ---------------------------
(***************************************************************************)
(* Theorems about connections and their requests, for any number of        *)
(* browsers, request threads and connections, with the app-user gate on or *)
(* off.                                                                    *)
(***************************************************************************)
EXTENDS Sessions, TLAPS

\* The connect of t has stored its connection and not yet its capabilities.
Discovering(t) == pc[t] = "discover" \/ (pc[t] = "evict" /\ kind[t] = "connect")

\* Nobody but t knows the token k.
SecretOf(t, k) ==
    /\ \A u \in Threads \ {t} : token[u] # k /\ held[u].conn # k
    /\ \A b \in Browsers : cookie[b].conn # k

NewTokens == \A t \in Threads : Discovering(t) =>
    /\ kind[t] = "connect"
    /\ store[token[t]] = "live"
    /\ SecretOf(t, token[t])

\* A token not drawn yet is nowhere.
UnusedTokens == \A k \in Tokens : store[k] = "unused" =>
    /\ \A t \in Threads : token[t] # k /\ held[t].conn # k /\ k \notin evicted[t]
    /\ \A b \in Browsers : cookie[b].conn # k
    /\ k \notin ops \cup capable \cup out

\* Where a handler is tells which it is and what it has done.
PlacedRight(t) ==
    /\ pc[t] \in {"evict", "discover", "remove", "clear", "gate"} => token[t] # None
    /\ pc[t] \in {"remove", "clear"} => kind[t] = "logout"
    /\ kind[t] = "logout" /\ token[t] # None
           => pc[t] \in {"evict", "remove"} \/ store[token[t]] = "gone"
    /\ pc[t] = "handle" => token[t] = None
    /\ answer[t] # "none" => pc[t] = "respond"
    /\ \A k \in evicted[t] : store[k] = "gone"
Places == \A t \in Threads : PlacedRight(t)

\* Capabilities stay registered as long as their connection is there.
RegistryKeeps == \A k \in capable : k \in ops \/ store[k] = "gone"

LoggedOutAreGone == \A k \in out : store[k] = "gone"

LateAreRefused == \A t \in Threads : late[t] =>
    /\ held[t].conn \in out
    /\ answer[t] = "none"
    /\ \/ pc[t] = "handle" /\ kind[t] = "module"
       \/ pc[t] \in {"evict", "respond"} /\ kind[t] = "refused"

\* The inductive invariant.
SessionsInv ==
    /\ TypeOK
    /\ NewTokens
    /\ UnusedTokens
    /\ Places
    /\ RegistryKeeps
    /\ LoggedOutAreGone
    /\ LateAreRefused
    /\ OpsHaveOwner
    /\ DisabledIsTrue
    /\ SharedWarmupRuns

-----------------------------------------------------------------------------
LEMMA TypeStep == SessionsInv /\ [Next]_vars => TypeOK'
<1> SUFFICES ASSUME SessionsInv, [Next]_vars PROVE TypeOK'
  OBVIOUS
<1> USE SessionsAssumption DEF SessionsInv, TypeOK, Goto, shared, thread,
    history, Session, Blank, Kind, Place
<1>1. ASSUME NEW t \in Threads, NEW b \in Browsers, NEW k \in Kind \ {"rejected", "refused"},
             NEW loaded \in BOOLEAN,
             Arrive(t, b, k, loaded)
      PROVE  TypeOK'
  BY <1>1 DEF Arrive
<1>2. ASSUME NEW t \in Threads, NEW k \in Tokens, Notify(t, k) PROVE TypeOK'
  BY <1>2 DEF Notify, ThenEvict, Resume
<1>3. ASSUME NEW t \in Threads, NEW k \in Tokens, Put(t, k) PROVE TypeOK'
  BY <1>3 DEF Put, ThenEvict, Resume, Swept, Expired
<1>4. ASSUME NEW t \in Threads, Get(t) PROVE TypeOK'
  BY <1>4 DEF Get, ThenEvict, Resume, Swept, Expired
<1>5. ASSUME NEW t \in Threads, AuthenticateFails(t) PROVE TypeOK'
  BY <1>5 DEF AuthenticateFails
<1>6. ASSUME NEW t \in Threads, Discover(t) PROVE TypeOK'
  BY <1>6 DEF Discover, Places, PlacedRight
<1>7. ASSUME NEW t \in Threads, CheckWarm(t) PROVE TypeOK'
  BY <1>7 DEF CheckWarm
<1>8. ASSUME NEW t \in Threads, CancelWarm(t) PROVE TypeOK'
  <2>1. /\ pc[t] = "cancel" /\ warm' \in {"none", "cancelled"}
        /\ kind' = kind \/ kind' = [kind EXCEPT ![t] = "refused"]
        /\ \E place \in {"respond", "start", "forget"} : pc' = [pc EXCEPT ![t] = place]
        /\ UNCHANGED <<cookie, store, ops, from, held, token, evicted, answer, late, history>>
    BY <1>8 DEF CancelWarm
  <2>2. kind' \in [Threads -> Kind]
    BY <2>1
  <2>3. pc' \in [Threads -> Place]
    BY <2>1
  <2> QED
    BY <2>1, <2>2, <2>3
<1>9. ASSUME NEW t \in Threads, StartWarm(t) PROVE TypeOK'
  BY <1>9 DEF StartWarm
<1>10. ASSUME NEW t \in Threads, NoConnection(t) PROVE TypeOK'
  BY <1>10 DEF NoConnection
<1>11. ASSUME NEW t \in Threads, Remove(t) PROVE TypeOK'
  BY <1>11 DEF Remove
<1>12. ASSUME NEW t \in Threads, Clear(t) PROVE TypeOK'
  BY <1>12 DEF Clear
<1>13. ASSUME NEW t \in Threads, ForgetWarm(t) PROVE TypeOK'
  BY <1>13 DEF ForgetWarm
<1>14. ASSUME NEW t \in Threads, SignOut(t) PROVE TypeOK'
  BY <1>14 DEF SignOut
<1>15. ASSUME NEW t \in Threads, Gate(t) PROVE TypeOK'
  BY <1>15 DEF Gate
<1>16. ASSUME NEW t \in Threads, Login(t) PROVE TypeOK'
  <2>0. [user |-> TRUE, conn |-> None] \in Session
    OBVIOUS
  <2>1. held' \in [Threads -> Session]
    <3>1. \/ held' = [held EXCEPT ![t] = [user |-> TRUE, conn |-> None]]
          \/ held' = held
      BY <1>16 DEF Login
    <3>2. held \in [Threads -> Session]
      OBVIOUS
    <3> HIDE DEF SessionsInv, TypeOK, Session
    <3> QED
      BY <2>0, <3>1, <3>2
  <2> QED
    BY <1>16, <2>1 DEF Login
<1>17. ASSUME NEW t \in Threads, LogoutApp(t) PROVE TypeOK'
  BY <1>17 DEF LogoutApp
<1>18. ASSUME NEW t \in Threads, Respond(t) PROVE TypeOK'
  <2>1. cookie' \in [Browsers -> Session]
    <3>1. \/ cookie' = [cookie EXCEPT ![from[t]] = held[t]]
          \/ cookie' = cookie
      BY <1>18 DEF Respond
    <3> HIDE DEF Session
    <3> QED
      BY <3>1
  <2>2. out' \subseteq Tokens
    BY <1>18 DEF Respond
  <2> QED
    BY <1>18, <2>1, <2>2 DEF Respond
<1>19. ASSUME NEW k \in Tokens, Expire(k) PROVE TypeOK'
  BY <1>19 DEF Expire
<1>20. ASSUME Restart PROVE TypeOK'
  BY <1>20 DEF Restart
<1>21. CASE UNCHANGED vars
  BY <1>21 DEF vars
<1> QED
  <2> HIDE DEF SessionsInv, TypeOK
  <2> QED
    BY <1>1, <1>2, <1>3, <1>4, <1>5, <1>6, <1>7, <1>8, <1>9, <1>10, <1>11, <1>12,
        <1>13, <1>14, <1>15, <1>16, <1>17, <1>18, <1>19, <1>20, <1>21
    DEF Next, Handle, Connecting, LoggingOut

LEMMA ArriveStep ==
    ASSUME SessionsInv, TypeOK', NEW t \in Threads, NEW b \in Browsers,
           NEW k \in Kind \ {"rejected", "refused"}, NEW loaded \in BOOLEAN,
           Arrive(t, b, k, loaded)
    PROVE  SessionsInv'
<1> USE SessionsAssumption DEF SessionsInv, TypeOK, Goto, shared, thread,
    history, Session, Blank, Kind, Place
<1>1. NewTokens'
  BY DEF Arrive, NewTokens, Discovering, SecretOf
<1>2. UnusedTokens'
  BY DEF Arrive, UnusedTokens
<1>3. Places'
  BY DEF Arrive, Places, PlacedRight
<1>4. LateAreRefused'
  BY DEF Arrive, LateAreRefused
<1>5. RegistryKeeps' /\ LoggedOutAreGone' /\ OpsHaveOwner' /\ DisabledIsTrue' /\
    SharedWarmupRuns'
  BY DEF Arrive, RegistryKeeps, LoggedOutAreGone, OpsHaveOwner, DisabledIsTrue,
      SharedWarmupRuns, Stored
<1> QED
  BY <1>1, <1>2, <1>3, <1>4, <1>5

LEMMA NotifyStep ==
    ASSUME SessionsInv, TypeOK', NEW t \in Threads, NEW k \in Tokens, Notify(t, k)
    PROVE  SessionsInv'
<1> USE SessionsAssumption DEF SessionsInv, TypeOK, Goto, shared, thread,
    history, Session, Blank, Kind, Place
<1>1. NewTokens'
  BY DEF Notify, ThenEvict, Resume, NewTokens, Discovering, SecretOf
<1>2. UnusedTokens'
  BY DEF Notify, ThenEvict, Resume, UnusedTokens
<1>3. Places'
  BY DEF Notify, ThenEvict, Resume, Places, PlacedRight
<1>4. RegistryKeeps'
  BY DEF Notify, ThenEvict, Resume, RegistryKeeps, Places, PlacedRight
<1>5. OpsHaveOwner'
  BY DEF Notify, ThenEvict, Resume, OpsHaveOwner, Stored
<1>6. LateAreRefused'
  BY DEF Notify, ThenEvict, Resume, LateAreRefused
<1>7. LoggedOutAreGone' /\ DisabledIsTrue' /\ SharedWarmupRuns'
  BY DEF Notify, ThenEvict, Resume, LoggedOutAreGone, DisabledIsTrue,
      SharedWarmupRuns
<1> QED
  BY <1>1, <1>2, <1>3, <1>4, <1>5, <1>6, <1>7

LEMMA PutStep ==
    ASSUME SessionsInv, TypeOK', NEW t \in Threads, NEW k \in Tokens, Put(t, k)
    PROVE  SessionsInv'
<1> USE SessionsAssumption DEF SessionsInv, TypeOK, Goto, shared, thread,
    history, Session, Blank, Kind, Place
<1>1. NewTokens'
  <2> SUFFICES ASSUME NEW u \in Threads, Discovering(u)'
               PROVE  (/\ kind[u] = "connect" /\ store[token[u]] = "live"
                       /\ SecretOf(u, token[u]))'
    BY DEF NewTokens
  <2>1. CASE u = t
    BY <2>1 DEF Put, ThenEvict, UnusedTokens, SecretOf
  <2>2. CASE u # t
    <3>1. Discovering(u) /\ token'[u] = token[u] /\ token[u] # k
      BY <2>2 DEF Put, ThenEvict, Discovering, UnusedTokens
    <3> QED
      BY <2>2, <3>1 DEF Put, ThenEvict, Swept, Expired, NewTokens, SecretOf,
          Discovering, Places, PlacedRight
  <2> QED
    BY <2>1, <2>2
<1>2. UnusedTokens'
  BY DEF Put, ThenEvict, Resume, Swept, Expired, UnusedTokens
<1>3. Places'
  BY DEF Put, ThenEvict, Resume, Swept, Expired, Places, PlacedRight
<1>4. RegistryKeeps'
  BY DEF Put, ThenEvict, Resume, Swept, Expired, RegistryKeeps, UnusedTokens
<1>5. LoggedOutAreGone'
  BY DEF Put, ThenEvict, Resume, Swept, Expired, LoggedOutAreGone
<1>6. LateAreRefused'
  BY DEF Put, ThenEvict, Resume, Swept, Expired, LateAreRefused
<1>7. OpsHaveOwner'
  <2> SUFFICES ASSUME NEW q \in ops
               PROVE  \/ Stored(q)'
                      \/ (\E u \in Threads :
                              q \in evicted[u] \/ (pc[u] = "clear" /\ token[u] =
                                  q))'
    BY DEF OpsHaveOwner, Put
  <2>1. CASE store[q] = "live"
    BY <2>1 DEF Put, Swept, Expired, Stored
  <2>2. CASE store[q] = "idle"
    BY <2>2 DEF Put, ThenEvict, Swept, Expired
  <2>3. CASE ~Stored(q)
    <3>1. PICK u \in Threads : q \in evicted[u] \/ (pc[u] = "clear" /\ token[u] = q)
      BY <2>3 DEF OpsHaveOwner
    <3>2. u # t
      BY <3>1 DEF Put
    <3> QED
      BY <3>1, <3>2 DEF Put, ThenEvict
  <2> QED
    BY <2>1, <2>2, <2>3 DEF Stored
<1>8. DisabledIsTrue'
  BY DEF Put, ThenEvict, Resume, Swept, Expired, DisabledIsTrue, Places, PlacedRight,
      UnusedTokens
<1>9. SharedWarmupRuns'
  BY DEF Put, ThenEvict, Resume, Swept, Expired, SharedWarmupRuns
<1> QED
  BY <1>1, <1>2, <1>3, <1>4, <1>5, <1>6, <1>7, <1>8, <1>9

LEMMA GetStep ==
    ASSUME SessionsInv, TypeOK', NEW t \in Threads, Get(t)
    PROVE  SessionsInv'
<1> USE SessionsAssumption DEF SessionsInv, TypeOK, Goto, shared, thread,
    history, Session, Blank, Kind, Place
<1>1. NewTokens'
  <2> SUFFICES ASSUME NEW u \in Threads, Discovering(u)'
               PROVE  (/\ kind[u] = "connect" /\ store[token[u]] = "live"
                       /\ SecretOf(u, token[u]))'
    BY DEF NewTokens
  <2>1. u # t
    BY DEF Get, ThenEvict, Resume, Discovering
  <2>2. Discovering(u) /\ token[u] \in Tokens
    BY <2>1 DEF Get, ThenEvict, Discovering, Places, PlacedRight
  <2> QED
    BY <2>1, <2>2 DEF Get, ThenEvict, Swept, Expired, NewTokens, SecretOf
<1>2. UnusedTokens'
  BY DEF Get, ThenEvict, Resume, Swept, Expired, UnusedTokens
<1>3. Places'
  <2>1. \A k \in Tokens : store'[k] = IF store[k] = "idle" THEN "gone" ELSE store[k]
    BY DEF Get, Swept, Expired
  <2>2. ASSUME NEW u \in Threads, u # t PROVE PlacedRight(u)'
    <3>1. /\ pc'[u] = pc[u] /\ kind'[u] = kind[u] /\ token'[u] = token[u]
          /\ evicted'[u] = evicted[u] /\ answer'[u] = answer[u]
      BY <2>2 DEF Get, ThenEvict
    <3> QED
      BY <2>1, <3>1 DEF Places, PlacedRight
  <2>3. PlacedRight(t)'
    <3>1. /\ pc'[t] \in {"evict", "remove", "gate", "respond"}
          /\ pc'[t] = "remove" => kind'[t] = "logout"
          /\ kind'[t] = "logout" => pc'[t] \in {"evict", "remove"}
      BY DEF Get, ThenEvict, Resume
    <3>2. token'[t] # None /\ evicted'[t] = Expired /\ answer'[t] = answer[t] /\ pc[t] = "handle"
      BY DEF Get, ThenEvict
    <3> QED
      BY <2>1, <3>1, <3>2 DEF Places, PlacedRight, Expired
  <2> QED
    BY <2>2, <2>3 DEF Places, PlacedRight
<1>4. RegistryKeeps'
  BY DEF Get, ThenEvict, Resume, Swept, Expired, RegistryKeeps
<1>5. LoggedOutAreGone'
  <2>1. UNCHANGED out /\ \A k \in Tokens : store[k] = "gone" => store'[k] = "gone"
    BY DEF Get, Swept, Expired
  <2> QED
    BY <2>1 DEF LoggedOutAreGone
<1>6. LateAreRefused'
  <2>1. UNCHANGED <<held, answer, late, out>>
    BY DEF Get
  <2>2. \A u \in Threads \ {t} : pc'[u] = pc[u] /\ kind'[u] = kind[u]
    BY DEF Get, ThenEvict
  <2>3. late[t] => Swept[held[t].conn] = "gone"
    BY DEF LateAreRefused, LoggedOutAreGone, Swept
  <2>4. late[t] => pc'[t] \in {"evict", "respond"} /\ kind'[t] = "refused"
    BY <2>3 DEF Get, ThenEvict, Resume, LateAreRefused
  <2> QED
    BY <2>1, <2>2, <2>4 DEF LateAreRefused
<1>7. OpsHaveOwner'
  BY DEF Get, ThenEvict, Resume, Swept, Expired, OpsHaveOwner, Stored
<1>8. DisabledIsTrue'
  BY DEF Get, ThenEvict, Resume, Swept, Expired, DisabledIsTrue, Places, PlacedRight
<1>9. SharedWarmupRuns'
  BY DEF Get, ThenEvict, Resume, Swept, Expired, SharedWarmupRuns
<1> QED
  BY <1>1, <1>2, <1>3, <1>4, <1>5, <1>6, <1>7, <1>8, <1>9

\* Steps that change at most the shared warmup and where the handler is.
LEMMA MoveStep ==
    ASSUME SessionsInv, TypeOK', NEW t \in Threads,
           \/ AuthenticateFails(t) \/ CheckWarm(t) \/ CancelWarm(t)
           \/ StartWarm(t) \/ NoConnection(t) \/ ForgetWarm(t)
    PROVE  SessionsInv'
<1> USE SessionsAssumption DEF SessionsInv, TypeOK, Goto, shared, thread,
    history, Session, Blank, Kind, Place
<1>1. CASE AuthenticateFails(t)
  BY <1>1 DEF AuthenticateFails, NewTokens, UnusedTokens, Places, PlacedRight, RegistryKeeps, LoggedOutAreGone,
              LateAreRefused, OpsHaveOwner, DisabledIsTrue, SharedWarmupRuns,
              Stored, Discovering, SecretOf
<1>2. CASE CheckWarm(t)
  BY <1>2 DEF CheckWarm, NewTokens, UnusedTokens, Places, PlacedRight, RegistryKeeps, LoggedOutAreGone,
              LateAreRefused, OpsHaveOwner, DisabledIsTrue, SharedWarmupRuns,
              Stored, Discovering, SecretOf
<1>3. CASE CancelWarm(t)
  BY <1>3 DEF CancelWarm, NewTokens, UnusedTokens, Places, PlacedRight, RegistryKeeps, LoggedOutAreGone,
              LateAreRefused, OpsHaveOwner, DisabledIsTrue, SharedWarmupRuns,
              Stored, Discovering, SecretOf
<1>4. CASE StartWarm(t)
  BY <1>4 DEF StartWarm, NewTokens, UnusedTokens, Places, PlacedRight, RegistryKeeps, LoggedOutAreGone,
              LateAreRefused, OpsHaveOwner, DisabledIsTrue, SharedWarmupRuns,
              Stored, Discovering, SecretOf
<1>5. CASE NoConnection(t)
  BY <1>5 DEF NoConnection, NewTokens, UnusedTokens, Places, PlacedRight, RegistryKeeps, LoggedOutAreGone,
              LateAreRefused, OpsHaveOwner, DisabledIsTrue, SharedWarmupRuns,
              Stored, Discovering, SecretOf
<1>6. CASE ForgetWarm(t)
  BY <1>6 DEF ForgetWarm, NewTokens, UnusedTokens, Places, PlacedRight, RegistryKeeps, LoggedOutAreGone,
              LateAreRefused, OpsHaveOwner, DisabledIsTrue, SharedWarmupRuns,
              Stored, Discovering, SecretOf
<1> QED
  BY <1>1, <1>2, <1>3, <1>4, <1>5, <1>6

LEMMA DiscoverStep ==
    ASSUME SessionsInv, TypeOK', NEW t \in Threads, Discover(t)
    PROVE  SessionsInv'
<1> USE SessionsAssumption DEF SessionsInv, TypeOK, Goto, shared, thread,
    history, Session, Blank, Kind, Place
<1>1. NewTokens'
  BY DEF Discover, NewTokens, Discovering, SecretOf
<1>2. UnusedTokens'
  BY DEF Discover, UnusedTokens
<1>3. Places'
  BY DEF Discover, Places, PlacedRight
<1>4. RegistryKeeps'
  BY DEF Discover, RegistryKeeps
<1>5. OpsHaveOwner'
  BY DEF Discover, OpsHaveOwner, Stored, NewTokens, Discovering
<1>6. DisabledIsTrue'
  BY DEF Discover, DisabledIsTrue, Places, PlacedRight, NewTokens, Discovering, SecretOf
<1>7. LoggedOutAreGone' /\ LateAreRefused' /\ SharedWarmupRuns'
  BY DEF Discover, LoggedOutAreGone, LateAreRefused, SharedWarmupRuns
<1> QED
  BY <1>1, <1>2, <1>3, <1>4, <1>5, <1>6, <1>7

LEMMA RemoveStep ==
    ASSUME SessionsInv, TypeOK', NEW t \in Threads, Remove(t)
    PROVE  SessionsInv'
<1> USE SessionsAssumption DEF SessionsInv, TypeOK, Goto, shared, thread,
    history, Session, Blank, Kind, Place
<1>1. NewTokens'
  BY DEF Remove, NewTokens, Discovering, SecretOf
<1>2. UnusedTokens'
  BY DEF Remove, UnusedTokens
<1>3. Places'
  BY DEF Remove, Places, PlacedRight
<1>4. OpsHaveOwner'
  BY DEF Remove, OpsHaveOwner, Stored
<1>5. DisabledIsTrue'
  BY DEF Remove, DisabledIsTrue
<1>6. RegistryKeeps' /\ LoggedOutAreGone' /\ LateAreRefused' /\ SharedWarmupRuns'
  BY DEF Remove, RegistryKeeps, LoggedOutAreGone, LateAreRefused, SharedWarmupRuns
<1> QED
  BY <1>1, <1>2, <1>3, <1>4, <1>5, <1>6

LEMMA ClearStep ==
    ASSUME SessionsInv, TypeOK', NEW t \in Threads, Clear(t)
    PROVE  SessionsInv'
<1> USE SessionsAssumption DEF SessionsInv, TypeOK, Goto, shared, thread,
    history, Session, Blank, Kind, Place
<1>1. NewTokens'
  <2>1. \A u \in Threads : Discovering(u)' => Discovering(u)
    BY DEF Clear, Discovering
  <2>2. UNCHANGED <<store, token, kind, held, cookie>>
    BY DEF Clear
  <2> QED
    BY <2>1, <2>2 DEF NewTokens, SecretOf
<1>2. RegistryKeeps'
  <2>1. token[t] # None /\ store[token[t]] = "gone"
    BY DEF Clear, Places, PlacedRight
  <2>2. ops' = ops \ {token[t]} /\ UNCHANGED <<store, capable>>
    BY DEF Clear
  <2>3. RegistryKeeps
    OBVIOUS
  <2> HIDE DEF SessionsInv, TypeOK
  <2> QED
    BY <2>1, <2>2, <2>3 DEF RegistryKeeps
<1>3. OpsHaveOwner'
  BY DEF Clear, OpsHaveOwner, Stored
<1>4. UnusedTokens' /\ Places' /\ LoggedOutAreGone' /\ LateAreRefused' /\
    DisabledIsTrue' /\ SharedWarmupRuns'
  BY DEF Clear, UnusedTokens, Places, PlacedRight, LoggedOutAreGone, LateAreRefused,
      DisabledIsTrue, SharedWarmupRuns
<1> QED
  BY <1>1, <1>2, <1>3, <1>4

LEMMA SignOutStep ==
    ASSUME SessionsInv, TypeOK', NEW t \in Threads, SignOut(t)
    PROVE  SessionsInv'
<1> USE SessionsAssumption DEF SessionsInv, TypeOK, Goto, shared, thread,
    history, Session, Blank, Kind, Place
<1>1. NewTokens'
  BY DEF SignOut, NewTokens, Places, PlacedRight, Discovering, SecretOf
<1>2. UnusedTokens' /\ Places' /\ RegistryKeeps' /\ LoggedOutAreGone' /\
    LateAreRefused' /\ OpsHaveOwner' /\ DisabledIsTrue' /\ SharedWarmupRuns'
  BY DEF SignOut, UnusedTokens, Places, PlacedRight, RegistryKeeps, LoggedOutAreGone,
      LateAreRefused, OpsHaveOwner, DisabledIsTrue, SharedWarmupRuns, Stored
<1> QED
  BY <1>1, <1>2

LEMMA GateStep ==
    ASSUME SessionsInv, TypeOK', NEW t \in Threads, Gate(t)
    PROVE  SessionsInv'
<1> USE SessionsAssumption DEF SessionsInv, TypeOK, Goto, shared, thread,
    history, Session, Blank, Kind, Place
<1>1. DisabledIsTrue'
  BY DEF Gate, DisabledIsTrue, RegistryKeeps, Places, PlacedRight
<1>2. LateAreRefused'
  BY DEF Gate, LateAreRefused
<1>3. NewTokens' /\ UnusedTokens' /\ Places' /\ RegistryKeeps' /\
    LoggedOutAreGone' /\ OpsHaveOwner' /\ SharedWarmupRuns'
  BY DEF Gate, NewTokens, UnusedTokens, Places, PlacedRight, RegistryKeeps, LoggedOutAreGone,
      OpsHaveOwner, SharedWarmupRuns, Stored, Discovering, SecretOf
<1> QED
  BY <1>1, <1>2, <1>3

LEMMA LoginStep ==
    ASSUME SessionsInv, TypeOK', NEW t \in Threads, Login(t)
    PROVE  SessionsInv'
<1> USE SessionsAssumption DEF SessionsInv, TypeOK, Goto, shared, thread,
    history, Session, Blank, Kind, Place
<1>1. NewTokens'
  BY DEF Login, NewTokens, Places, PlacedRight, Discovering, SecretOf
<1>2. UnusedTokens' /\ Places' /\ RegistryKeeps' /\ LoggedOutAreGone' /\
    LateAreRefused' /\ OpsHaveOwner' /\ DisabledIsTrue' /\ SharedWarmupRuns'
  BY DEF Login, UnusedTokens, Places, PlacedRight, RegistryKeeps, LoggedOutAreGone,
      LateAreRefused, OpsHaveOwner, DisabledIsTrue, SharedWarmupRuns, Stored
<1> QED
  BY <1>1, <1>2

LEMMA LogoutAppStep ==
    ASSUME SessionsInv, TypeOK', NEW t \in Threads, LogoutApp(t)
    PROVE  SessionsInv'
<1> USE SessionsAssumption DEF SessionsInv, TypeOK, Goto, shared, thread,
    history, Session, Blank, Kind, Place
<1>1. NewTokens'
  BY DEF LogoutApp, NewTokens, Places, PlacedRight, Discovering, SecretOf
<1>2. UnusedTokens' /\ Places' /\ RegistryKeeps' /\ LoggedOutAreGone' /\
    LateAreRefused' /\ OpsHaveOwner' /\ DisabledIsTrue' /\ SharedWarmupRuns'
  BY DEF LogoutApp, UnusedTokens, Places, PlacedRight, RegistryKeeps, LoggedOutAreGone,
      LateAreRefused, OpsHaveOwner, DisabledIsTrue, SharedWarmupRuns, Stored
<1> QED
  BY <1>1, <1>2

LEMMA RespondStep ==
    ASSUME SessionsInv, TypeOK', NEW t \in Threads, Respond(t)
    PROVE  SessionsInv'
<1> USE SessionsAssumption DEF SessionsInv, TypeOK, Goto, shared, thread,
    history, Session, Blank, Kind, Place
<1>1. NewTokens'
  <2> SUFFICES ASSUME NEW u \in Threads, Discovering(u)'
               PROVE  (/\ kind[u] = "connect" /\ store[token[u]] = "live"
                       /\ SecretOf(u, token[u]))'
    BY DEF NewTokens
  <2>1. u # t
    BY DEF Respond, Discovering
  <2>2. Discovering(u) /\ token[u] \in Tokens /\ held[t].conn # token[u]
    BY <2>1 DEF Respond, Discovering, Places, PlacedRight, NewTokens, SecretOf
  <2>3. \A b \in Browsers : cookie'[b] \in {cookie[b], held[t]}
    BY DEF Respond
  <2> QED
    BY <2>1, <2>2, <2>3 DEF Respond, NewTokens, SecretOf
<1>2. UnusedTokens'
  <2> SUFFICES ASSUME NEW k \in Tokens, store[k] = "unused"
               PROVE  (/\ \A u \in Threads : token[u] # k /\ held[u].conn # k /\ k \notin evicted[u]
                       /\ \A b \in Browsers : cookie[b].conn # k
                       /\ k \notin ops \cup capable \cup out)'
    BY DEF Respond, UnusedTokens
  <2>1. \A u \in Threads : /\ token'[u] \in {token[u], None} /\ evicted'[u] = evicted[u]
                           /\ held'[u] \in {held[u], Blank}
    BY DEF Respond
  <2>2. \A b \in Browsers : cookie'[b] \in {cookie[b], held[t]}
    BY DEF Respond
  <2>3. out' \subseteq out \cup {token[t]} /\ UNCHANGED <<ops, capable>>
    BY DEF Respond
  <2>4. /\ \A u \in Threads : token[u] # k /\ held[u].conn # k /\ k \notin evicted[u]
        /\ \A b \in Browsers : cookie[b].conn # k
        /\ k \notin ops \cup capable \cup out
    BY DEF UnusedTokens
  <2>5. None # k /\ Blank.conn # k
    OBVIOUS
  <2> HIDE DEF SessionsInv, TypeOK, Blank
  <2> QED
    BY <2>1, <2>2, <2>3, <2>4, <2>5
<1>3. LoggedOutAreGone'
  <2>1. \A k \in out' : k \in out \/ (kind[t] = "logout" /\ token[t] # None /\ k = token[t])
    BY DEF Respond
  <2>2. UNCHANGED store /\ pc[t] = "respond"
    BY DEF Respond
  <2>3. kind[t] = "logout" /\ token[t] # None => store[token[t]] = "gone"
    BY <2>2 DEF Places, PlacedRight
  <2>4. LoggedOutAreGone
    OBVIOUS
  <2> HIDE DEF SessionsInv, TypeOK
  <2> QED
    BY <2>1, <2>2, <2>3, <2>4 DEF LoggedOutAreGone
<1>4. Places' /\ RegistryKeeps' /\ LateAreRefused' /\ OpsHaveOwner' /\
    DisabledIsTrue' /\ SharedWarmupRuns'
  BY DEF Respond, Places, PlacedRight, RegistryKeeps, LateAreRefused, OpsHaveOwner,
      DisabledIsTrue, SharedWarmupRuns, Stored
<1> QED
  BY <1>1, <1>2, <1>3, <1>4

LEMMA ExpireStep ==
    ASSUME SessionsInv, TypeOK', NEW k \in Tokens, Expire(k)
    PROVE  SessionsInv'
<1> USE SessionsAssumption DEF SessionsInv, TypeOK, Goto, shared, thread,
    history, Session, Blank, Kind, Place
<1>1. NewTokens'
  BY DEF Expire, NewTokens, Discovering, SecretOf
<1>2. OpsHaveOwner'
  BY DEF Expire, OpsHaveOwner, Stored
<1>3. UnusedTokens' /\ Places' /\ RegistryKeeps' /\ LoggedOutAreGone' /\
    LateAreRefused' /\ DisabledIsTrue' /\ SharedWarmupRuns'
  BY DEF Expire, UnusedTokens, Places, PlacedRight, RegistryKeeps, LoggedOutAreGone,
      LateAreRefused, DisabledIsTrue, SharedWarmupRuns
<1> QED
  BY <1>1, <1>2, <1>3

LEMMA RestartStep ==
    ASSUME SessionsInv, TypeOK', Restart
    PROVE  SessionsInv'
<1> USE SessionsAssumption DEF SessionsInv, TypeOK, Goto, shared, thread,
    history, Session, Blank, Kind, Place
<1>1. RegistryKeeps'
  <2> SUFFICES ASSUME NEW k \in capable PROVE store'[k] = "gone"
    BY DEF Restart, RegistryKeeps
  <2>1. k \in Tokens /\ store[k] # "unused"
    BY DEF UnusedTokens
  <2> QED
    BY <2>1 DEF Restart, Stored
<1>2. UnusedTokens'
  BY DEF Restart, UnusedTokens
<1>3. NewTokens' /\ Places' /\ LoggedOutAreGone' /\ LateAreRefused' /\
    OpsHaveOwner' /\ DisabledIsTrue' /\ SharedWarmupRuns'
  BY DEF Restart, NewTokens, Places, PlacedRight, LoggedOutAreGone, LateAreRefused,
      OpsHaveOwner, DisabledIsTrue, SharedWarmupRuns, Stored, Discovering, SecretOf
<1> QED
  BY <1>1, <1>2, <1>3

-----------------------------------------------------------------------------
LEMMA SessionsInvInit == Init => SessionsInv
  BY SessionsAssumption
  DEF Init, SessionsInv, TypeOK, Session, Blank, Kind, Place, NewTokens,
      UnusedTokens,
      Places, PlacedRight, RegistryKeeps, LoggedOutAreGone, LateAreRefused, OpsHaveOwner,
      DisabledIsTrue, SharedWarmupRuns, Discovering

LEMMA SessionsInvStep == SessionsInv /\ [Next]_vars => SessionsInv'
<1>1. CASE UNCHANGED vars
  BY <1>1
  DEF vars, shared, thread, history, SessionsInv, TypeOK, NewTokens, UnusedTokens,
      Places, PlacedRight, RegistryKeeps, LoggedOutAreGone, LateAreRefused, OpsHaveOwner,
      DisabledIsTrue, SharedWarmupRuns, Discovering, SecretOf, Stored
<1>2. CASE Next
  BY <1>2, TypeStep, MoveStep, ArriveStep, NotifyStep, PutStep, GetStep,
      DiscoverStep, RemoveStep, ClearStep, SignOutStep,
     GateStep, LoginStep, LogoutAppStep, RespondStep, ExpireStep, RestartStep
  DEF Next, Handle, Connecting, LoggingOut
<1> QED
  BY <1>1, <1>2

LEMMA SessionsInvAlways == Spec => []SessionsInv
  BY SessionsInvInit, SessionsInvStep, PTL DEF Spec

\* Cookies, connections, registry and handlers keep their types.
THEOREM TypeCorrect == Spec => []TypeOK
<1>1. SessionsInv => TypeOK
  BY DEF SessionsInv
<1> QED
  BY <1>1, SessionsInvAlways, PTL

\* No capability entry is left behind by an eviction, a logout or a restart,
\* wherever other requests are in their handlers.
THEOREM CapabilitiesHaveOwners == Spec => []OpsHaveOwner
<1>1. SessionsInv => OpsHaveOwner
  BY DEF SessionsInv
<1> QED
  BY <1>1, SessionsInvAlways, PTL

\* No other operator's logout or eviction makes a module of a live connection
\* look disabled.
THEOREM DisabledAnswersAreTrue == Spec => []DisabledIsTrue
<1>1. SessionsInv => DisabledIsTrue
  BY DEF SessionsInv
<1> QED
  BY <1>1, SessionsInvAlways, PTL

\* A cookie that comes back after its logout was answered gets no data.
THEOREM LogoutsAreFinal == Spec => []LogoutIsFinal
<1>1. SessionsInv => LogoutIsFinal
  BY DEF SessionsInv, LateAreRefused, LogoutIsFinal
<1> QED
  BY <1>1, SessionsInvAlways, PTL

\* A cancelled warmup is always about to be replaced.
THEOREM CancelledWarmupsAreReplaced == Spec => []SharedWarmupRuns
<1>1. SessionsInv => SharedWarmupRuns
  BY DEF SessionsInv
<1> QED
  BY <1>1, SessionsInvAlways, PTL
=============================================================================
