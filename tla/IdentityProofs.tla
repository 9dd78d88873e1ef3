--------------------------- MODULE IdentityProofs ---------------------------
(***************************************************************************)
(* Theorems about the app users, for any number of addresses, accounts at  *)
(* the provider, groups and request threads.                               *)
(***************************************************************************)
EXTENDS Identity, FiniteSetTheorems, TLAPS

\* The threads that have yet to report a failure for e.
Failing(e) == {t \in Threads : pc[t] = "failed" /\ acct[t] = e}

\* Reported and unreported failures together: an attempt in flight was let
\* through when fewer than MaxFailures had been reported.
FailuresBounded ==
    \A e \in Emails : fails[e] + Cardinality(Failing(e)) < MaxFailures + Cardinality(Threads)

\* Where a handler is tells which it is and what it rests on.
Places == \A t \in Threads :
    /\ pc[t] = "failed" => kind[t] = "login"
    /\ pc[t] = "verified" => kind[t] = "login" /\ acct[t] \in proved
    /\ pc[t] = "update" => kind[t] = "sso" /\ acct[t] \in rows /\ subject[acct[t]] = claim[t]
    /\ pc[t] = "insert" => kind[t] \in {"sso", "create"}
    /\ pc[t] \notin {"audit", "respond"} => note[t] = None
    /\ pc[t] = "audit" => note[t] \in Note
    /\ pc[t] = "respond" => note[t] = "login_success"
    /\ note[t] = "login_success" => kind[t] = "sso" \/ (kind[t] = "login" /\ acct[t] \in proved)
    /\ note[t] = "role_changed" => kind[t] = "sso" /\ acct[t] \in rows
    /\ note[t] = "user_create" => kind[t] = "create"
    /\ note[t] = "user_deactivate" => kind[t] = "deactivate" /\ acct[t] \in rows

\* What the histories say holds of the table.
Histories ==
    /\ issued \subseteq rows
    /\ \A e \in proved : e \in rows /\ subject[e] = None
    /\ \A e \in closed : e \in rows /\ ~active[e]

\* The inductive invariant.
IdentityInv ==
    /\ TypeOK
    /\ FailuresBounded
    /\ Places
    /\ Histories
    /\ LocalNeedsPassword
    /\ DeactivatedStaysOut
    /\ AuditIsTrue

-----------------------------------------------------------------------------
LEMMA DoneOK ==
    ASSUME TypeOK, NEW t \in Threads, Done(t)
    PROVE  ThreadOK'
<1> USE DEF TypeOK, ThreadOK, Done, Goto
<1>1. pc' \in [Threads -> Place]
  BY DEF Place
<1>2. kind' \in [Threads -> Kind]
  BY DEF Kind
<1>3. acct' \in [Threads -> Emails \cup {None}] /\ claim' \in [Threads -> Subjects \cup {None}]
  OBVIOUS
<1>4. want' \in [Threads -> Roles] /\ seen' \in [Threads -> Roles]
  BY DEF Roles, Viewer
<1>5. note' \in [Threads -> Note \cup {None}] /\ late' \in [Threads -> BOOLEAN]
  OBVIOUS
<1> QED
  BY <1>1, <1>2, <1>3, <1>4, <1>5

LEMMA InsertOK ==
    ASSUME TypeOK, NEW e \in Emails, NEW s \in Subjects \cup {None}, NEW r \in Roles, Insert(e, s, r)
    PROVE  /\ rows' \subseteq Emails
           /\ subject' \in [Emails -> Subjects \cup {None}]
           /\ rank' \in [Emails -> Roles]
           /\ active' \in [Emails -> BOOLEAN]
<1> USE DEF TypeOK, TableOK, Insert
<1>1. rows' \subseteq Emails
  OBVIOUS
<1>2. subject' \in [Emails -> Subjects \cup {None}]
  OBVIOUS
<1>3. rank' \in [Emails -> Roles]
  OBVIOUS
<1>4. active' \in [Emails -> BOOLEAN]
  OBVIOUS
<1> QED
  BY <1>1, <1>2, <1>3, <1>4

LEMMA FailingFinite ==
    ASSUME TypeOK, NEW e \in Emails
    PROVE  /\ IsFiniteSet(Failing(e))
           /\ Cardinality(Failing(e)) \in Nat
           /\ Cardinality(Threads) \in Nat
           /\ Cardinality(Failing(e)) <= Cardinality(Threads)
<1>1. Failing(e) \subseteq Threads
  BY DEF Failing
<1> QED
  BY <1>1, IdentityAssumption, FS_Subset, FS_CardinalityType

LEMMA FailingFiniteNext ==
    ASSUME NEW e \in Emails
    PROVE  /\ IsFiniteSet(Failing(e)')
           /\ Cardinality(Failing(e)') \in Nat
           /\ Cardinality(Threads) \in Nat
           /\ Cardinality(Failing(e)') <= Cardinality(Threads)
<1>1. Failing(e)' \subseteq Threads
  BY DEF Failing
<1> QED
  BY <1>1, IdentityAssumption, FS_Subset, FS_CardinalityType

\* A step after which fewer threads are failing and no more is counted.
LEMMA FewerFailing ==
    ASSUME TypeOK, FailuresBounded, TypeOK',
           \A e \in Emails : fails'[e] <= fails[e] /\ Failing(e)' \subseteq Failing(e)
    PROVE  FailuresBounded'
<1> SUFFICES ASSUME NEW e \in Emails
             PROVE  fails'[e] + Cardinality(Failing(e)') < MaxFailures + Cardinality(Threads)
  BY DEF FailuresBounded
<1>1. Cardinality(Failing(e)') <= Cardinality(Failing(e)) /\ Cardinality(Failing(e)') \in Nat
  BY FailingFinite, FS_Subset, FS_CardinalityType
<1> QED
  BY <1>1, FailingFinite, IdentityAssumption DEF FailuresBounded, TypeOK, TableOK

LEMMA BootStep ==
    ASSUME IdentityInv, Boot
    PROVE  TypeOK' /\ Places' /\ Histories' /\ LocalNeedsPassword' /\ DeactivatedStaysOut' /\ AuditIsTrue'
<1> USE IdentityAssumption DEF IdentityInv, TypeOK, TableOK, ThreadOK, ThreadShape, Goto, table, thread, history, Kind, Place, Note, Roles, Viewer, Operator, Manager
<1>1. TableOK'
  <2>1. CASE rows = {}
    BY InsertOK, <2>1 DEF Boot, SeedAdmin
  <2>2. CASE rows # {}
    BY InsertOK, <2>2 DEF Boot, SeedAdmin
  <2> QED
    BY <2>1, <2>2
<1>2. ThreadOK'
  <2>1. CASE rows = {}
    BY <2>1 DEF Boot, SeedAdmin, Insert
  <2>2. CASE rows # {}
    BY <2>2 DEF Boot, SeedAdmin, Insert
  <2> QED
    BY <2>1, <2>2
<1>3. ThreadShape'
  <2>1. CASE rows = {}
    BY <2>1 DEF Boot, SeedAdmin, Insert
  <2>2. CASE rows # {}
    BY <2>2 DEF Boot, SeedAdmin, Insert
  <2> QED
    BY <2>1, <2>2
<1>4. Places'
  <2>1. CASE rows = {}
    BY <1>1, <1>2, <2>1 DEF Boot, SeedAdmin, Insert, Places, Histories
  <2>2. CASE rows # {}
    BY <1>1, <1>2, <2>2 DEF Boot, SeedAdmin, Insert, Places, Histories
  <2> QED
    BY <2>1, <2>2
<1>5. Histories'
  <2>1. CASE rows = {}
    BY <1>1, <1>2, <2>1 DEF Boot, SeedAdmin, Insert, Histories, Places, AuditIsTrue
  <2>2. CASE rows # {}
    BY <1>1, <1>2, <2>2 DEF Boot, SeedAdmin, Insert, Histories, Places, AuditIsTrue
  <2> QED
    BY <2>1, <2>2
<1>6. LocalNeedsPassword'
  <2>1. CASE rows = {}
    BY <1>1, <1>2, <2>1 DEF Boot, SeedAdmin, Insert, LocalNeedsPassword, Places, Histories, AuditIsTrue
  <2>2. CASE rows # {}
    BY <1>1, <1>2, <2>2 DEF Boot, SeedAdmin, Insert, LocalNeedsPassword, Places, Histories, AuditIsTrue
  <2> QED
    BY <2>1, <2>2
<1>7. DeactivatedStaysOut'
  <2>1. CASE rows = {}
    BY <1>1, <1>2, <2>1 DEF Boot, SeedAdmin, Insert, DeactivatedStaysOut, Places, Histories
  <2>2. CASE rows # {}
    BY <1>1, <1>2, <2>2 DEF Boot, SeedAdmin, Insert, DeactivatedStaysOut, Places, Histories
  <2> QED
    BY <2>1, <2>2
<1>8. AuditIsTrue'
  <2>1. CASE rows = {}
    BY <1>1, <1>2, <2>1 DEF Boot, SeedAdmin, Insert, AuditIsTrue, Places, Histories
  <2>2. CASE rows # {}
    BY <1>1, <1>2, <2>2 DEF Boot, SeedAdmin, Insert, AuditIsTrue, Places, Histories
  <2> QED
    BY <2>1, <2>2
<1> QED
  BY <1>1, <1>2, <1>3, <1>4, <1>5, <1>6, <1>7, <1>8

LEMMA CrashStep ==
    ASSUME IdentityInv, Crash
    PROVE  TypeOK' /\ Places' /\ Histories' /\ LocalNeedsPassword' /\ DeactivatedStaysOut' /\ AuditIsTrue'
<1> USE IdentityAssumption DEF IdentityInv, TypeOK, TableOK, ThreadOK, ThreadShape, Goto, table, thread, history, Kind, Place, Note, Roles, Viewer, Operator, Manager
<1>1. TableOK'
  BY DEF Crash
<1>2. ThreadOK'
  BY DEF Crash
<1>3. ThreadShape'
  BY DEF Crash
<1>4. Places'
  BY <1>1, <1>2 DEF Crash, Places, Histories
<1>5. Histories'
  BY <1>1, <1>2 DEF Crash, Histories, Places, AuditIsTrue
<1>6. LocalNeedsPassword'
  BY <1>1, <1>2 DEF Crash, LocalNeedsPassword, Places, Histories, AuditIsTrue
<1>7. DeactivatedStaysOut'
  BY <1>1, <1>2 DEF Crash, DeactivatedStaysOut, Places, Histories
<1>8. AuditIsTrue'
  BY <1>1, <1>2 DEF Crash, AuditIsTrue, Places, Histories
<1> QED
  BY <1>1, <1>2, <1>3, <1>4, <1>5, <1>6, <1>7, <1>8

LEMMA ArriveStep ==
    ASSUME IdentityInv, NEW t \in Threads, NEW u \in issued \cup {None}, NEW k \in Kind, Arrive(t, u, k)
    PROVE  TypeOK' /\ Places' /\ Histories' /\ LocalNeedsPassword' /\ DeactivatedStaysOut' /\ AuditIsTrue'
<1> USE IdentityAssumption DEF IdentityInv, TypeOK, TableOK, ThreadOK, ThreadShape, Goto, table, thread, history, Kind, Place, Note, Roles, Viewer, Operator, Manager
<1>1. TableOK'
  BY DEF Arrive, Admitted, Loaded
<1>2. ThreadOK'
  BY DEF Arrive, Admitted, Loaded
<1>3. ThreadShape'
  BY DEF Arrive, Admitted, Loaded
<1>4. Places'
  BY <1>1, <1>2 DEF Arrive, Admitted, Loaded, Places, Histories
<1>5. Histories'
  BY <1>1, <1>2 DEF Arrive, Admitted, Loaded, Histories, Places, AuditIsTrue
<1>6. LocalNeedsPassword'
  BY <1>1, <1>2 DEF Arrive, Admitted, Loaded, LocalNeedsPassword, Places, Histories, AuditIsTrue
<1>7. DeactivatedStaysOut'
  <2> SUFFICES ASSUME NEW x \in Threads, late'[x]
               PROVE  kind'[x] \in {"login", "sso"} \/ pc'[x] = "idle"
    BY DEF DeactivatedStaysOut
  <2>1. CASE x = t
    <3>1. u \in closed
      BY <2>1 DEF Arrive
    <3>2. ~Loaded(u)
      BY <3>1 DEF Loaded, Histories
    <3> QED
      BY <2>1, <3>2 DEF Arrive, Admitted
  <2>2. CASE x # t
    BY <2>2 DEF Arrive, DeactivatedStaysOut
  <2> QED
    BY <2>1, <2>2
<1>8. AuditIsTrue'
  BY <1>1, <1>2 DEF Arrive, Admitted, Loaded, AuditIsTrue, Places, Histories
<1> QED
  BY <1>1, <1>2, <1>3, <1>4, <1>5, <1>6, <1>7, <1>8

LEMMA OperateStep ==
    ASSUME IdentityInv, NEW t \in Threads, Operate(t)
    PROVE  TypeOK' /\ Places' /\ Histories' /\ LocalNeedsPassword' /\ DeactivatedStaysOut' /\ AuditIsTrue'
<1> USE IdentityAssumption DEF IdentityInv, TypeOK, TableOK, ThreadOK, ThreadShape, Goto, table, thread, history, Kind, Place, Note, Roles, Viewer, Operator, Manager
<1>1. TableOK'
  BY DEF Operate, Done
<1>2. ThreadOK'
  BY DoneOK DEF Operate
<1>3. ThreadShape'
  BY DEF Operate, Done
<1>4. Places'
  BY <1>1, <1>2 DEF Operate, Done, Places, Histories
<1>5. Histories'
  BY <1>1, <1>2 DEF Operate, Done, Histories, Places, AuditIsTrue
<1>6. LocalNeedsPassword'
  BY <1>1, <1>2 DEF Operate, Done, LocalNeedsPassword, Places, Histories, AuditIsTrue
<1>7. DeactivatedStaysOut'
  BY <1>1, <1>2 DEF Operate, Done, DeactivatedStaysOut, Places, Histories
<1>8. AuditIsTrue'
  BY <1>1, <1>2 DEF Operate, Done, AuditIsTrue, Places, Histories
<1> QED
  BY <1>1, <1>2, <1>3, <1>4, <1>5, <1>6, <1>7, <1>8

LEMMA LoginStep ==
    ASSUME IdentityInv, NEW t \in Threads, NEW e \in Emails, NEW right \in BOOLEAN, Login(t, e, right)
    PROVE  TypeOK' /\ Places' /\ Histories' /\ LocalNeedsPassword' /\ DeactivatedStaysOut' /\ AuditIsTrue'
<1> USE IdentityAssumption DEF IdentityInv, TypeOK, TableOK, ThreadOK, ThreadShape, Goto, table, thread, history, Kind, Place, Note, Roles, Viewer, Operator, Manager
<1>1. TableOK'
  <2>1. CASE Locked(e)
    BY <2>1 DEF Login, Verified, Done
  <2>2. CASE ~Locked(e) /\ Verified(e, right)
    BY <2>2 DEF Login, Verified, Done
  <2>3. CASE ~Locked(e) /\ ~Verified(e, right)
    BY <2>3 DEF Login, Verified, Done
  <2> QED
    BY <2>1, <2>2, <2>3
<1>2. ThreadOK'
  <2>1. CASE Locked(e)
    BY <2>1, DoneOK DEF Login
  <2>2. CASE ~Locked(e)
    <3>1. \E place \in {"verified", "failed"} : pc' = [pc EXCEPT ![t] = place]
      BY <2>2 DEF Login
    <3>2. acct' = [acct EXCEPT ![t] = e] /\ UNCHANGED <<kind, claim, want, seen, note, late>>
      BY <2>2 DEF Login
    <3> QED
      BY <3>1, <3>2
  <2> QED
    BY <2>1, <2>2
<1>3. ThreadShape'
  <2>1. CASE Locked(e)
    BY <2>1 DEF Login, Verified, Done
  <2>2. CASE ~Locked(e) /\ Verified(e, right)
    BY <2>2 DEF Login, Verified, Done
  <2>3. CASE ~Locked(e) /\ ~Verified(e, right)
    BY <2>3 DEF Login, Verified, Done
  <2> QED
    BY <2>1, <2>2, <2>3
<1>4. Places'
  <2>1. CASE Locked(e)
    BY <1>1, <1>2, <2>1 DEF Login, Verified, Done, Places, Histories
  <2>2. CASE ~Locked(e) /\ Verified(e, right)
    BY <1>1, <1>2, <2>2 DEF Login, Verified, Done, Places, Histories
  <2>3. CASE ~Locked(e) /\ ~Verified(e, right)
    BY <1>1, <1>2, <2>3 DEF Login, Verified, Done, Places, Histories
  <2> QED
    BY <2>1, <2>2, <2>3
<1>5. Histories'
  <2>1. CASE Locked(e)
    BY <1>1, <1>2, <2>1 DEF Login, Verified, Done, Histories, Places, AuditIsTrue
  <2>2. CASE ~Locked(e) /\ Verified(e, right)
    BY <1>1, <1>2, <2>2 DEF Login, Verified, Done, Histories, Places, AuditIsTrue
  <2>3. CASE ~Locked(e) /\ ~Verified(e, right)
    BY <1>1, <1>2, <2>3 DEF Login, Verified, Done, Histories, Places, AuditIsTrue
  <2> QED
    BY <2>1, <2>2, <2>3
<1>6. LocalNeedsPassword'
  <2>1. CASE Locked(e)
    BY <1>1, <1>2, <2>1 DEF Login, Verified, Done, LocalNeedsPassword, Places, Histories, AuditIsTrue
  <2>2. CASE ~Locked(e) /\ Verified(e, right)
    BY <1>1, <1>2, <2>2 DEF Login, Verified, Done, LocalNeedsPassword, Places, Histories, AuditIsTrue
  <2>3. CASE ~Locked(e) /\ ~Verified(e, right)
    BY <1>1, <1>2, <2>3 DEF Login, Verified, Done, LocalNeedsPassword, Places, Histories, AuditIsTrue
  <2> QED
    BY <2>1, <2>2, <2>3
<1>7. DeactivatedStaysOut'
  <2>1. CASE Locked(e)
    BY <1>1, <1>2, <2>1 DEF Login, Verified, Done, DeactivatedStaysOut, Places, Histories
  <2>2. CASE ~Locked(e) /\ Verified(e, right)
    BY <1>1, <1>2, <2>2 DEF Login, Verified, Done, DeactivatedStaysOut, Places, Histories
  <2>3. CASE ~Locked(e) /\ ~Verified(e, right)
    BY <1>1, <1>2, <2>3 DEF Login, Verified, Done, DeactivatedStaysOut, Places, Histories
  <2> QED
    BY <2>1, <2>2, <2>3
<1>8. AuditIsTrue'
  <2>1. CASE Locked(e)
    BY <1>1, <1>2, <2>1 DEF Login, Verified, Done, AuditIsTrue, Places, Histories
  <2>2. CASE ~Locked(e) /\ Verified(e, right)
    BY <1>1, <1>2, <2>2 DEF Login, Verified, Done, AuditIsTrue, Places, Histories
  <2>3. CASE ~Locked(e) /\ ~Verified(e, right)
    BY <1>1, <1>2, <2>3 DEF Login, Verified, Done, AuditIsTrue, Places, Histories
  <2> QED
    BY <2>1, <2>2, <2>3
<1> QED
  BY <1>1, <1>2, <1>3, <1>4, <1>5, <1>6, <1>7, <1>8

LEMMA LoginFailedStep ==
    ASSUME IdentityInv, NEW t \in Threads, LoginFailed(t)
    PROVE  TypeOK' /\ Places' /\ Histories' /\ LocalNeedsPassword' /\ DeactivatedStaysOut' /\ AuditIsTrue'
<1> USE IdentityAssumption DEF IdentityInv, TypeOK, TableOK, ThreadOK, ThreadShape, Goto, table, thread, history, Kind, Place, Note, Roles, Viewer, Operator, Manager
<1>1. TableOK'
  BY DEF LoginFailed, Done
<1>2. ThreadOK'
  BY DoneOK DEF LoginFailed
<1>3. ThreadShape'
  BY DEF LoginFailed, Done
<1>4. Places'
  BY <1>1, <1>2 DEF LoginFailed, Done, Places, Histories
<1>5. Histories'
  BY <1>1, <1>2 DEF LoginFailed, Done, Histories, Places, AuditIsTrue
<1>6. LocalNeedsPassword'
  BY <1>1, <1>2 DEF LoginFailed, Done, LocalNeedsPassword, Places, Histories, AuditIsTrue
<1>7. DeactivatedStaysOut'
  BY <1>1, <1>2 DEF LoginFailed, Done, DeactivatedStaysOut, Places, Histories
<1>8. AuditIsTrue'
  BY <1>1, <1>2 DEF LoginFailed, Done, AuditIsTrue, Places, Histories
<1> QED
  BY <1>1, <1>2, <1>3, <1>4, <1>5, <1>6, <1>7, <1>8

LEMMA LoginVerifiedStep ==
    ASSUME IdentityInv, NEW t \in Threads, LoginVerified(t)
    PROVE  TypeOK' /\ Places' /\ Histories' /\ LocalNeedsPassword' /\ DeactivatedStaysOut' /\ AuditIsTrue'
<1> USE IdentityAssumption DEF IdentityInv, TypeOK, TableOK, ThreadOK, ThreadShape, Goto, table, thread, history, Kind, Place, Note, Roles, Viewer, Operator, Manager
<1>1. TableOK'
  BY DEF LoginVerified
<1>2. ThreadOK'
  BY DEF LoginVerified
<1>3. ThreadShape'
  BY DEF LoginVerified
<1>4. Places'
  BY <1>1, <1>2 DEF LoginVerified, Places, Histories
<1>5. Histories'
  BY <1>1, <1>2 DEF LoginVerified, Histories, Places, AuditIsTrue
<1>6. LocalNeedsPassword'
  BY <1>1, <1>2 DEF LoginVerified, LocalNeedsPassword, Places, Histories, AuditIsTrue
<1>7. DeactivatedStaysOut'
  BY <1>1, <1>2 DEF LoginVerified, DeactivatedStaysOut, Places, Histories
<1>8. AuditIsTrue'
  BY <1>1, <1>2 DEF LoginVerified, AuditIsTrue, Places, Histories
<1> QED
  BY <1>1, <1>2, <1>3, <1>4, <1>5, <1>6, <1>7, <1>8

LEMMA AgeStep ==
    ASSUME IdentityInv, NEW e \in Emails, Age(e)
    PROVE  TypeOK' /\ Places' /\ Histories' /\ LocalNeedsPassword' /\ DeactivatedStaysOut' /\ AuditIsTrue'
<1> USE IdentityAssumption DEF IdentityInv, TypeOK, TableOK, ThreadOK, ThreadShape, Goto, table, thread, history, Kind, Place, Note, Roles, Viewer, Operator, Manager
<1>1. TableOK'
  BY DEF Age
<1>2. ThreadOK'
  BY DEF Age
<1>3. ThreadShape'
  BY DEF Age
<1>4. Places'
  BY <1>1, <1>2 DEF Age, Places, Histories
<1>5. Histories'
  BY <1>1, <1>2 DEF Age, Histories, Places, AuditIsTrue
<1>6. LocalNeedsPassword'
  BY <1>1, <1>2 DEF Age, LocalNeedsPassword, Places, Histories, AuditIsTrue
<1>7. DeactivatedStaysOut'
  BY <1>1, <1>2 DEF Age, DeactivatedStaysOut, Places, Histories
<1>8. AuditIsTrue'
  BY <1>1, <1>2 DEF Age, AuditIsTrue, Places, Histories
<1> QED
  BY <1>1, <1>2, <1>3, <1>4, <1>5, <1>6, <1>7, <1>8

LEMMA LookupStep ==
    ASSUME IdentityInv, NEW t \in Threads, NEW s \in Subjects, NEW r \in Roles, Lookup(t, s, r)
    PROVE  TypeOK' /\ Places' /\ Histories' /\ LocalNeedsPassword' /\ DeactivatedStaysOut' /\ AuditIsTrue'
<1> USE IdentityAssumption DEF IdentityInv, TypeOK, TableOK, ThreadOK, ThreadShape, Goto, table, thread, history, Kind, Place, Note, Roles, Viewer, Operator, Manager
<1>1. TableOK'
  <2>1. CASE Linked(s) = {} /\ EmailOf[s] # NoEmail /\ EmailOf[s] \in rows
    BY <2>1 DEF Lookup, Linked, Done
  <2>2. CASE Linked(s) # {}
    BY <2>2 DEF Lookup, Linked, Done
  <2>3. CASE Linked(s) = {} /\ ~(EmailOf[s] # NoEmail /\ EmailOf[s] \in rows)
    BY <2>3 DEF Lookup, Linked, Done
  <2> QED
    BY <2>1, <2>2, <2>3
<1>2. ThreadOK'
  <2>1. CASE Linked(s) = {} /\ EmailOf[s] # NoEmail /\ EmailOf[s] \in rows
    BY DoneOK, <2>1 DEF Lookup, Linked
  <2>2. CASE Linked(s) # {}
    BY DoneOK, <2>2 DEF Lookup, Linked
  <2>3. CASE Linked(s) = {} /\ ~(EmailOf[s] # NoEmail /\ EmailOf[s] \in rows)
    BY DoneOK, <2>3 DEF Lookup, Linked
  <2> QED
    BY <2>1, <2>2, <2>3
<1>3. ThreadShape'
  <2>1. CASE Linked(s) = {} /\ EmailOf[s] # NoEmail /\ EmailOf[s] \in rows
    BY <2>1 DEF Lookup, Linked, Done
  <2>2. CASE Linked(s) # {}
    BY <2>2 DEF Lookup, Linked, Done
  <2>3. CASE Linked(s) = {} /\ ~(EmailOf[s] # NoEmail /\ EmailOf[s] \in rows)
    BY <2>3 DEF Lookup, Linked, Done
  <2> QED
    BY <2>1, <2>2, <2>3
<1>4. Places'
  <2>1. CASE Linked(s) = {} /\ EmailOf[s] # NoEmail /\ EmailOf[s] \in rows
    BY <1>1, <1>2, <2>1 DEF Lookup, Linked, Done, Places, Histories
  <2>2. CASE Linked(s) # {}
    BY <1>1, <1>2, <2>2 DEF Lookup, Linked, Done, Places, Histories
  <2>3. CASE Linked(s) = {} /\ ~(EmailOf[s] # NoEmail /\ EmailOf[s] \in rows)
    BY <1>1, <1>2, <2>3 DEF Lookup, Linked, Done, Places, Histories
  <2> QED
    BY <2>1, <2>2, <2>3
<1>5. Histories'
  <2>1. CASE Linked(s) = {} /\ EmailOf[s] # NoEmail /\ EmailOf[s] \in rows
    BY <1>1, <1>2, <2>1 DEF Lookup, Linked, Done, Histories, Places, AuditIsTrue
  <2>2. CASE Linked(s) # {}
    BY <1>1, <1>2, <2>2 DEF Lookup, Linked, Done, Histories, Places, AuditIsTrue
  <2>3. CASE Linked(s) = {} /\ ~(EmailOf[s] # NoEmail /\ EmailOf[s] \in rows)
    BY <1>1, <1>2, <2>3 DEF Lookup, Linked, Done, Histories, Places, AuditIsTrue
  <2> QED
    BY <2>1, <2>2, <2>3
<1>6. LocalNeedsPassword'
  <2>1. CASE Linked(s) = {} /\ EmailOf[s] # NoEmail /\ EmailOf[s] \in rows
    BY <1>1, <1>2, <2>1 DEF Lookup, Linked, Done, LocalNeedsPassword, Places, Histories, AuditIsTrue
  <2>2. CASE Linked(s) # {}
    BY <1>1, <1>2, <2>2 DEF Lookup, Linked, Done, LocalNeedsPassword, Places, Histories, AuditIsTrue
  <2>3. CASE Linked(s) = {} /\ ~(EmailOf[s] # NoEmail /\ EmailOf[s] \in rows)
    BY <1>1, <1>2, <2>3 DEF Lookup, Linked, Done, LocalNeedsPassword, Places, Histories, AuditIsTrue
  <2> QED
    BY <2>1, <2>2, <2>3
<1>7. DeactivatedStaysOut'
  <2>1. CASE Linked(s) = {} /\ EmailOf[s] # NoEmail /\ EmailOf[s] \in rows
    BY <1>1, <1>2, <2>1 DEF Lookup, Linked, Done, DeactivatedStaysOut, Places, Histories
  <2>2. CASE Linked(s) # {}
    BY <1>1, <1>2, <2>2 DEF Lookup, Linked, Done, DeactivatedStaysOut, Places, Histories
  <2>3. CASE Linked(s) = {} /\ ~(EmailOf[s] # NoEmail /\ EmailOf[s] \in rows)
    BY <1>1, <1>2, <2>3 DEF Lookup, Linked, Done, DeactivatedStaysOut, Places, Histories
  <2> QED
    BY <2>1, <2>2, <2>3
<1>8. AuditIsTrue'
  <2>1. CASE Linked(s) = {} /\ EmailOf[s] # NoEmail /\ EmailOf[s] \in rows
    BY <1>1, <1>2, <2>1 DEF Lookup, Linked, Done, AuditIsTrue, Places, Histories
  <2>2. CASE Linked(s) # {}
    BY <1>1, <1>2, <2>2 DEF Lookup, Linked, Done, AuditIsTrue, Places, Histories
  <2>3. CASE Linked(s) = {} /\ ~(EmailOf[s] # NoEmail /\ EmailOf[s] \in rows)
    BY <1>1, <1>2, <2>3 DEF Lookup, Linked, Done, AuditIsTrue, Places, Histories
  <2> QED
    BY <2>1, <2>2, <2>3
<1> QED
  BY <1>1, <1>2, <1>3, <1>4, <1>5, <1>6, <1>7, <1>8

LEMMA RefuseStep ==
    ASSUME IdentityInv, NEW t \in Threads, pc[t] = "handle", Done(t), UNCHANGED <<up, table, fails, issued, history>>
    PROVE  TypeOK' /\ Places' /\ Histories' /\ LocalNeedsPassword' /\ DeactivatedStaysOut' /\ AuditIsTrue'
<1> USE IdentityAssumption DEF IdentityInv, TypeOK, TableOK, ThreadOK, ThreadShape, Goto, table, thread, history, Kind, Place, Note, Roles, Viewer, Operator, Manager
<1>1. TableOK'
  BY DEF Done
<1>2. ThreadOK'
  BY DEF Done
<1>3. ThreadShape'
  BY DEF Done
<1>4. Places'
  BY <1>1, <1>2 DEF Done, Places, Histories
<1>5. Histories'
  BY <1>1, <1>2 DEF Done, Histories, Places, AuditIsTrue
<1>6. LocalNeedsPassword'
  BY <1>1, <1>2 DEF Done, LocalNeedsPassword, Places, Histories, AuditIsTrue
<1>7. DeactivatedStaysOut'
  BY <1>1, <1>2 DEF Done, DeactivatedStaysOut, Places, Histories
<1>8. AuditIsTrue'
  BY <1>1, <1>2 DEF Done, AuditIsTrue, Places, Histories
<1> QED
  BY <1>1, <1>2, <1>3, <1>4, <1>5, <1>6, <1>7, <1>8

LEMMA UpdateStep ==
    ASSUME IdentityInv, NEW t \in Threads, Update(t)
    PROVE  TypeOK' /\ Places' /\ Histories' /\ LocalNeedsPassword' /\ DeactivatedStaysOut' /\ AuditIsTrue'
<1> USE IdentityAssumption DEF IdentityInv, TypeOK, TableOK, ThreadOK, ThreadShape, Goto, table, thread, history, Kind, Place, Note, Roles, Viewer, Operator, Manager
<1>1. TableOK'
  <2>1. CASE want[t] # seen[t]
    BY <2>1 DEF Update
  <2>2. CASE want[t] = seen[t]
    BY <2>2 DEF Update
  <2> QED
    BY <2>1, <2>2
<1>2. ThreadOK'
  <2>1. CASE want[t] # seen[t]
    BY <2>1 DEF Update
  <2>2. CASE want[t] = seen[t]
    BY <2>2 DEF Update
  <2> QED
    BY <2>1, <2>2
<1>3. ThreadShape'
  <2>1. CASE want[t] # seen[t]
    BY <2>1 DEF Update
  <2>2. CASE want[t] = seen[t]
    BY <2>2 DEF Update
  <2> QED
    BY <2>1, <2>2
<1>4. Places'
  <2>1. CASE want[t] # seen[t]
    BY <1>1, <1>2, <2>1 DEF Update, Places, Histories
  <2>2. CASE want[t] = seen[t]
    BY <1>1, <1>2, <2>2 DEF Update, Places, Histories
  <2> QED
    BY <2>1, <2>2
<1>5. Histories'
  <2>1. CASE want[t] # seen[t]
    BY <1>1, <1>2, <2>1 DEF Update, Histories, Places, AuditIsTrue
  <2>2. CASE want[t] = seen[t]
    BY <1>1, <1>2, <2>2 DEF Update, Histories, Places, AuditIsTrue
  <2> QED
    BY <2>1, <2>2
<1>6. LocalNeedsPassword'
  <2>1. CASE want[t] # seen[t]
    BY <1>1, <1>2, <2>1 DEF Update, LocalNeedsPassword, Places, Histories, AuditIsTrue
  <2>2. CASE want[t] = seen[t]
    BY <1>1, <1>2, <2>2 DEF Update, LocalNeedsPassword, Places, Histories, AuditIsTrue
  <2> QED
    BY <2>1, <2>2
<1>7. DeactivatedStaysOut'
  <2>1. CASE want[t] # seen[t]
    BY <1>1, <1>2, <2>1 DEF Update, DeactivatedStaysOut, Places, Histories
  <2>2. CASE want[t] = seen[t]
    BY <1>1, <1>2, <2>2 DEF Update, DeactivatedStaysOut, Places, Histories
  <2> QED
    BY <2>1, <2>2
<1>8. AuditIsTrue'
  <2>1. CASE want[t] # seen[t]
    BY <1>1, <1>2, <2>1 DEF Update, AuditIsTrue, Places, Histories
  <2>2. CASE want[t] = seen[t]
    BY <1>1, <1>2, <2>2 DEF Update, AuditIsTrue, Places, Histories
  <2> QED
    BY <2>1, <2>2
<1> QED
  BY <1>1, <1>2, <1>3, <1>4, <1>5, <1>6, <1>7, <1>8

LEMMA InsertRowStep ==
    ASSUME IdentityInv, NEW t \in Threads, InsertRow(t)
    PROVE  TypeOK' /\ Places' /\ Histories' /\ LocalNeedsPassword' /\ DeactivatedStaysOut' /\ AuditIsTrue'
<1> USE IdentityAssumption DEF IdentityInv, TypeOK, TableOK, ThreadOK, ThreadShape, Goto, table, thread, history, Kind, Place, Note, Roles, Viewer, Operator, Manager
<1>1. TableOK'
  <2>1. CASE acct[t] \in rows
    BY InsertOK, <2>1 DEF InsertRow
  <2>2. CASE acct[t] \notin rows
    BY InsertOK, <2>2 DEF InsertRow
  <2> QED
    BY <2>1, <2>2
<1>2. ThreadOK'
  <2>1. CASE acct[t] \in rows
    BY DoneOK, <2>1 DEF InsertRow, Insert
  <2>2. CASE acct[t] \notin rows
    BY DoneOK, <2>2 DEF InsertRow, Insert
  <2> QED
    BY <2>1, <2>2
<1>3. ThreadShape'
  <2>1. CASE acct[t] \in rows
    BY <2>1 DEF InsertRow, Insert, Done
  <2>2. CASE acct[t] \notin rows
    BY <2>2 DEF InsertRow, Insert, Done
  <2> QED
    BY <2>1, <2>2
<1>4. Places'
  <2>1. CASE acct[t] \in rows
    BY <1>1, <1>2, <2>1 DEF InsertRow, Insert, Done, Places, Histories
  <2>2. CASE acct[t] \notin rows
    BY <1>1, <1>2, <2>2 DEF InsertRow, Insert, Done, Places, Histories
  <2> QED
    BY <2>1, <2>2
<1>5. Histories'
  <2>1. CASE acct[t] \in rows
    BY <1>1, <1>2, <2>1 DEF InsertRow, Insert, Done, Histories, Places, AuditIsTrue
  <2>2. CASE acct[t] \notin rows
    BY <1>1, <1>2, <2>2 DEF InsertRow, Insert, Done, Histories, Places, AuditIsTrue
  <2> QED
    BY <2>1, <2>2
<1>6. LocalNeedsPassword'
  <2>1. CASE acct[t] \in rows
    BY <1>1, <1>2, <2>1 DEF InsertRow, Insert, Done, LocalNeedsPassword, Places, Histories, AuditIsTrue
  <2>2. CASE acct[t] \notin rows
    BY <1>1, <1>2, <2>2 DEF InsertRow, Insert, Done, LocalNeedsPassword, Places, Histories, AuditIsTrue
  <2> QED
    BY <2>1, <2>2
<1>7. DeactivatedStaysOut'
  <2>1. CASE acct[t] \in rows
    BY <1>1, <1>2, <2>1 DEF InsertRow, Insert, Done, DeactivatedStaysOut, Places, Histories
  <2>2. CASE acct[t] \notin rows
    BY <1>1, <1>2, <2>2 DEF InsertRow, Insert, Done, DeactivatedStaysOut, Places, Histories
  <2> QED
    BY <2>1, <2>2
<1>8. AuditIsTrue'
  <2>1. CASE acct[t] \in rows
    BY <1>1, <1>2, <2>1 DEF InsertRow, Insert, Done, AuditIsTrue, Places, Histories
  <2>2. CASE acct[t] \notin rows
    BY <1>1, <1>2, <2>2 DEF InsertRow, Insert, Done, AuditIsTrue, Places, Histories
  <2> QED
    BY <2>1, <2>2
<1> QED
  BY <1>1, <1>2, <1>3, <1>4, <1>5, <1>6, <1>7, <1>8

LEMMA CreateUserStep ==
    ASSUME IdentityInv, NEW t \in Threads, NEW e \in Emails, NEW r \in Roles, CreateUser(t, e, r)
    PROVE  TypeOK' /\ Places' /\ Histories' /\ LocalNeedsPassword' /\ DeactivatedStaysOut' /\ AuditIsTrue'
<1> USE IdentityAssumption DEF IdentityInv, TypeOK, TableOK, ThreadOK, ThreadShape, Goto, table, thread, history, Kind, Place, Note, Roles, Viewer, Operator, Manager
<1>1. TableOK'
  <2>1. CASE e \in rows
    BY <2>1 DEF CreateUser, Done
  <2>2. CASE e \notin rows
    BY <2>2 DEF CreateUser, Done
  <2> QED
    BY <2>1, <2>2
<1>2. ThreadOK'
  <2>1. CASE e \in rows
    BY DoneOK, <2>1 DEF CreateUser
  <2>2. CASE e \notin rows
    BY DoneOK, <2>2 DEF CreateUser
  <2> QED
    BY <2>1, <2>2
<1>3. ThreadShape'
  <2>1. CASE e \in rows
    BY <2>1 DEF CreateUser, Done
  <2>2. CASE e \notin rows
    BY <2>2 DEF CreateUser, Done
  <2> QED
    BY <2>1, <2>2
<1>4. Places'
  <2>1. CASE e \in rows
    BY <1>1, <1>2, <2>1 DEF CreateUser, Done, Places, Histories
  <2>2. CASE e \notin rows
    BY <1>1, <1>2, <2>2 DEF CreateUser, Done, Places, Histories
  <2> QED
    BY <2>1, <2>2
<1>5. Histories'
  <2>1. CASE e \in rows
    BY <1>1, <1>2, <2>1 DEF CreateUser, Done, Histories, Places, AuditIsTrue
  <2>2. CASE e \notin rows
    BY <1>1, <1>2, <2>2 DEF CreateUser, Done, Histories, Places, AuditIsTrue
  <2> QED
    BY <2>1, <2>2
<1>6. LocalNeedsPassword'
  <2>1. CASE e \in rows
    BY <1>1, <1>2, <2>1 DEF CreateUser, Done, LocalNeedsPassword, Places, Histories, AuditIsTrue
  <2>2. CASE e \notin rows
    BY <1>1, <1>2, <2>2 DEF CreateUser, Done, LocalNeedsPassword, Places, Histories, AuditIsTrue
  <2> QED
    BY <2>1, <2>2
<1>7. DeactivatedStaysOut'
  <2>1. CASE e \in rows
    BY <1>1, <1>2, <2>1 DEF CreateUser, Done, DeactivatedStaysOut, Places, Histories
  <2>2. CASE e \notin rows
    BY <1>1, <1>2, <2>2 DEF CreateUser, Done, DeactivatedStaysOut, Places, Histories
  <2> QED
    BY <2>1, <2>2
<1>8. AuditIsTrue'
  <2>1. CASE e \in rows
    BY <1>1, <1>2, <2>1 DEF CreateUser, Done, AuditIsTrue, Places, Histories
  <2>2. CASE e \notin rows
    BY <1>1, <1>2, <2>2 DEF CreateUser, Done, AuditIsTrue, Places, Histories
  <2> QED
    BY <2>1, <2>2
<1> QED
  BY <1>1, <1>2, <1>3, <1>4, <1>5, <1>6, <1>7, <1>8

LEMMA DeactivateStep ==
    ASSUME IdentityInv, NEW t \in Threads, NEW e \in Emails, Deactivate(t, e)
    PROVE  TypeOK' /\ Places' /\ Histories' /\ LocalNeedsPassword' /\ DeactivatedStaysOut' /\ AuditIsTrue'
<1> USE IdentityAssumption DEF IdentityInv, TypeOK, TableOK, ThreadOK, ThreadShape, Goto, table, thread, history, Kind, Place, Note, Roles, Viewer, Operator, Manager
<1>1. TableOK'
  BY DEF Deactivate
<1>2. ThreadOK'
  BY DEF Deactivate
<1>3. ThreadShape'
  BY DEF Deactivate
<1>4. Places'
  BY <1>1, <1>2 DEF Deactivate, Places, Histories
<1>5. Histories'
  BY <1>1, <1>2 DEF Deactivate, Histories, Places, AuditIsTrue
<1>6. LocalNeedsPassword'
  BY <1>1, <1>2 DEF Deactivate, LocalNeedsPassword, Places, Histories, AuditIsTrue
<1>7. DeactivatedStaysOut'
  BY <1>1, <1>2 DEF Deactivate, DeactivatedStaysOut, Places, Histories
<1>8. AuditIsTrue'
  BY <1>1, <1>2 DEF Deactivate, AuditIsTrue, Places, Histories
<1> QED
  BY <1>1, <1>2, <1>3, <1>4, <1>5, <1>6, <1>7, <1>8

LEMMA AuditStep ==
    ASSUME IdentityInv, NEW t \in Threads, Audit(t)
    PROVE  TypeOK' /\ Places' /\ Histories' /\ LocalNeedsPassword' /\ DeactivatedStaysOut' /\ AuditIsTrue'
<1> USE IdentityAssumption DEF IdentityInv, TypeOK, TableOK, ThreadOK, ThreadShape, Goto, table, thread, history, Kind, Place, Note, Roles, Viewer, Operator, Manager
<1>0. note[t] \in Note
  BY DEF Audit, Places
<1>1. TableOK'
  <2>1. CASE note[t] = "user_create"
    BY <2>1 DEF Audit, Done
  <2>2. CASE note[t] = "user_deactivate"
    BY <2>2 DEF Audit, Done
  <2>3. CASE note[t] = "role_changed"
    BY <2>3 DEF Audit, Done
  <2>4. CASE note[t] = "login_success"
    BY <2>4 DEF Audit, Done
  <2> QED
    BY <1>0, <2>1, <2>2, <2>3, <2>4
<1>2. ThreadOK'
  <2>1. CASE note[t] = "user_create"
    BY DoneOK, <2>1 DEF Audit
  <2>2. CASE note[t] = "user_deactivate"
    BY DoneOK, <2>2 DEF Audit
  <2>3. CASE note[t] = "role_changed"
    BY DoneOK, <2>3 DEF Audit
  <2>4. CASE note[t] = "login_success"
    BY DoneOK, <2>4 DEF Audit
  <2> QED
    BY <1>0, <2>1, <2>2, <2>3, <2>4
<1>3. ThreadShape'
  <2>1. CASE note[t] = "user_create"
    BY <2>1 DEF Audit, Done, Places
  <2>2. CASE note[t] = "user_deactivate"
    BY <2>2 DEF Audit, Done, Places
  <2>3. CASE note[t] = "role_changed"
    BY <2>3 DEF Audit, Done, Places
  <2>4. CASE note[t] = "login_success"
    BY <2>4 DEF Audit, Done, Places
  <2> QED
    BY <1>0, <2>1, <2>2, <2>3, <2>4
<1>4. Places'
  <2>1. CASE note[t] = "user_create"
    BY <1>1, <1>2, <2>1 DEF Audit, Done, Places, Histories
  <2>2. CASE note[t] = "user_deactivate"
    BY <1>1, <1>2, <2>2 DEF Audit, Done, Places, Histories
  <2>3. CASE note[t] = "role_changed"
    BY <1>1, <1>2, <2>3 DEF Audit, Done, Places, Histories
  <2>4. CASE note[t] = "login_success"
    BY <1>1, <1>2, <2>4 DEF Audit, Done, Places, Histories
  <2> QED
    BY <1>0, <2>1, <2>2, <2>3, <2>4
<1>5. Histories'
  <2>1. CASE note[t] = "user_create"
    BY <1>1, <1>2, <2>1 DEF Audit, Done, Histories, Places, AuditIsTrue
  <2>2. CASE note[t] = "user_deactivate"
    BY <1>1, <1>2, <2>2 DEF Audit, Done, Histories, Places, AuditIsTrue
  <2>3. CASE note[t] = "role_changed"
    BY <1>1, <1>2, <2>3 DEF Audit, Done, Histories, Places, AuditIsTrue
  <2>4. CASE note[t] = "login_success"
    BY <1>1, <1>2, <2>4 DEF Audit, Done, Histories, Places, AuditIsTrue
  <2> QED
    BY <1>0, <2>1, <2>2, <2>3, <2>4
<1>6. LocalNeedsPassword'
  <2>1. CASE note[t] = "user_create"
    BY <1>1, <1>2, <2>1 DEF Audit, Done, LocalNeedsPassword, Places, Histories, AuditIsTrue
  <2>2. CASE note[t] = "user_deactivate"
    BY <1>1, <1>2, <2>2 DEF Audit, Done, LocalNeedsPassword, Places, Histories, AuditIsTrue
  <2>3. CASE note[t] = "role_changed"
    BY <1>1, <1>2, <2>3 DEF Audit, Done, LocalNeedsPassword, Places, Histories, AuditIsTrue
  <2>4. CASE note[t] = "login_success"
    BY <1>1, <1>2, <2>4 DEF Audit, Done, LocalNeedsPassword, Places, Histories, AuditIsTrue
  <2> QED
    BY <1>0, <2>1, <2>2, <2>3, <2>4
<1>7. DeactivatedStaysOut'
  <2>1. CASE note[t] = "user_create"
    BY <1>1, <1>2, <2>1 DEF Audit, Done, DeactivatedStaysOut, Places, Histories
  <2>2. CASE note[t] = "user_deactivate"
    BY <1>1, <1>2, <2>2 DEF Audit, Done, DeactivatedStaysOut, Places, Histories
  <2>3. CASE note[t] = "role_changed"
    BY <1>1, <1>2, <2>3 DEF Audit, Done, DeactivatedStaysOut, Places, Histories
  <2>4. CASE note[t] = "login_success"
    BY <1>1, <1>2, <2>4 DEF Audit, Done, DeactivatedStaysOut, Places, Histories
  <2> QED
    BY <1>0, <2>1, <2>2, <2>3, <2>4
<1>8. AuditIsTrue'
  <2>1. CASE note[t] = "user_create"
    BY <1>1, <1>2, <2>1 DEF Audit, Done, AuditIsTrue, Places, Histories
  <2>2. CASE note[t] = "user_deactivate"
    BY <1>1, <1>2, <2>2 DEF Audit, Done, AuditIsTrue, Places, Histories
  <2>3. CASE note[t] = "role_changed"
    BY <1>1, <1>2, <2>3 DEF Audit, Done, AuditIsTrue, Places, Histories
  <2>4. CASE note[t] = "login_success"
    BY <1>1, <1>2, <2>4 DEF Audit, Done, AuditIsTrue, Places, Histories
  <2> QED
    BY <1>0, <2>1, <2>2, <2>3, <2>4
<1> QED
  BY <1>1, <1>2, <1>3, <1>4, <1>5, <1>6, <1>7, <1>8

LEMMA RespondStep ==
    ASSUME IdentityInv, NEW t \in Threads, Respond(t)
    PROVE  TypeOK' /\ Places' /\ Histories' /\ LocalNeedsPassword' /\ DeactivatedStaysOut' /\ AuditIsTrue'
<1> USE IdentityAssumption DEF IdentityInv, TypeOK, TableOK, ThreadOK, ThreadShape, Goto, table, thread, history, Kind, Place, Note, Roles, Viewer, Operator, Manager
<1>1. TableOK'
  BY DEF Respond, Done
<1>2. ThreadOK'
  BY DoneOK DEF Respond
<1>3. ThreadShape'
  BY DEF Respond, Done
<1>4. Places'
  BY <1>1, <1>2 DEF Respond, Done, Places, Histories
<1>5. Histories'
  BY <1>1, <1>2 DEF Respond, Done, Histories, Places, AuditIsTrue
<1>6. LocalNeedsPassword'
  BY <1>1, <1>2 DEF Respond, Done, LocalNeedsPassword, Places, Histories, AuditIsTrue
<1>7. DeactivatedStaysOut'
  BY <1>1, <1>2 DEF Respond, Done, DeactivatedStaysOut, Places, Histories
<1>8. AuditIsTrue'
  BY <1>1, <1>2 DEF Respond, Done, AuditIsTrue, Places, Histories
<1> QED
  BY <1>1, <1>2, <1>3, <1>4, <1>5, <1>6, <1>7, <1>8

-----------------------------------------------------------------------------
\* The attempt that is let through is not one of those in flight.
LEMMA LoginBounded ==
    ASSUME IdentityInv, TypeOK',
           NEW t \in Threads, NEW e \in Emails, NEW right \in BOOLEAN, Login(t, e, right)
    PROVE  FailuresBounded'
<1> USE IdentityAssumption DEF IdentityInv, TypeOK, TableOK, ThreadOK, ThreadShape, Goto
<1>1. CASE Locked(e)
  <2>1. \A d \in Emails : fails'[d] <= fails[d] /\ Failing(d)' \subseteq Failing(d)
    BY <1>1 DEF Login, Done, Failing
  <2> QED
    BY <2>1, FewerFailing
<1>2. CASE ~Locked(e)
  <2> SUFFICES ASSUME NEW d \in Emails
               PROVE  fails'[d] + Cardinality(Failing(d)') < MaxFailures + Cardinality(Threads)
    BY DEF FailuresBounded
  <2>1. fails' = fails /\ pc[t] = "handle"
    BY <1>2 DEF Login, Done
  <2>2. CASE d = e
    <3>1. fails[e] <= MaxFailures - 1
      BY <1>2 DEF Locked
    <3> QED
      BY <2>1, <2>2, <3>1, FailingFiniteNext, FailingFinite
  <2>3. CASE d # e
    <3>1. Failing(d)' = Failing(d)
      BY <1>2, <2>3 DEF Login, Done, Failing
    <3> QED
      BY <2>1, <3>1 DEF FailuresBounded
  <2> QED
    BY <2>2, <2>3
<1> QED
  BY <1>1, <1>2

\* A report turns a failing thread into a counted failure.
LEMMA LoginFailedBounded ==
    ASSUME IdentityInv, TypeOK', NEW t \in Threads, LoginFailed(t)
    PROVE  FailuresBounded'
<1> USE IdentityAssumption DEF IdentityInv, TypeOK, TableOK, ThreadOK, ThreadShape, Goto
<1> SUFFICES ASSUME NEW d \in Emails
             PROVE  fails'[d] + Cardinality(Failing(d)') < MaxFailures + Cardinality(Threads)
  BY DEF FailuresBounded
<1>1. CASE d = acct[t]
  <2>1. t \in Failing(d) /\ Failing(d)' = Failing(d) \ {t}
    BY <1>1 DEF LoginFailed, Done, Failing
  <2>2. Cardinality(Failing(d) \ {t}) = Cardinality(Failing(d)) - 1
    BY <2>1, FailingFinite, FS_RemoveElement
  <2>3. fails'[d] = fails[d] + 1
    BY <1>1 DEF LoginFailed
  <2> QED
    BY <2>1, <2>2, <2>3, FailingFinite DEF FailuresBounded
<1>2. CASE d # acct[t]
  <2>1. Failing(d)' = Failing(d) /\ fails'[d] = fails[d]
    BY <1>2 DEF LoginFailed, Done, Failing
  <2> QED
    BY <2>1 DEF FailuresBounded
<1> QED
  BY <1>1, <1>2

LEMMA OthersBounded ==
    ASSUME IdentityInv, TypeOK', [Next]_vars,
           ~\E t \in Threads : LoginFailed(t) \/ \E e \in Emails, right \in BOOLEAN : Login(t, e, right)
    PROVE  FailuresBounded'
<1> USE IdentityAssumption DEF IdentityInv, TypeOK, TableOK, ThreadOK, ThreadShape, Goto, table, thread, history
<1> SUFFICES \A d \in Emails : fails'[d] <= fails[d] /\ Failing(d)' \subseteq Failing(d)
  BY FewerFailing
<1>1. ASSUME Boot
      PROVE  \A d \in Emails : fails'[d] <= fails[d] /\ Failing(d)' \subseteq Failing(d)
  BY <1>1 DEF Boot, SeedAdmin, Insert, Failing
<1>2. ASSUME Crash
      PROVE  \A d \in Emails : fails'[d] <= fails[d] /\ Failing(d)' \subseteq Failing(d)
  BY <1>2 DEF Crash, Failing
<1>3. ASSUME NEW t \in Threads, NEW u \in issued \cup {None}, NEW k \in Kind, Arrive(t, u, k)
      PROVE  \A d \in Emails : fails'[d] <= fails[d] /\ Failing(d)' \subseteq Failing(d)
  BY <1>3 DEF Arrive, Admitted, Loaded, Failing
<1>4. ASSUME NEW t \in Threads, Operate(t)
      PROVE  \A d \in Emails : fails'[d] <= fails[d] /\ Failing(d)' \subseteq Failing(d)
  BY <1>4 DEF Operate, Done, Failing
<1>5. ASSUME NEW t \in Threads, LoginVerified(t)
      PROVE  \A d \in Emails : fails'[d] <= fails[d] /\ Failing(d)' \subseteq Failing(d)
  BY <1>5 DEF LoginVerified, Failing
<1>6. ASSUME NEW e \in Emails, Age(e)
      PROVE  \A d \in Emails : fails'[d] <= fails[d] /\ Failing(d)' \subseteq Failing(d)
  BY <1>6 DEF Age, Failing
<1>7. ASSUME NEW t \in Threads, NEW s \in Subjects, NEW r \in Roles, Lookup(t, s, r)
      PROVE  \A d \in Emails : fails'[d] <= fails[d] /\ Failing(d)' \subseteq Failing(d)
  BY <1>7 DEF Lookup, Linked, Done, Failing
<1>8. ASSUME NEW t \in Threads, pc[t] = "handle", Done(t), UNCHANGED <<up, table, fails, issued, history>>
      PROVE  \A d \in Emails : fails'[d] <= fails[d] /\ Failing(d)' \subseteq Failing(d)
  BY <1>8 DEF Done, Failing
<1>9. ASSUME NEW t \in Threads, Update(t)
      PROVE  \A d \in Emails : fails'[d] <= fails[d] /\ Failing(d)' \subseteq Failing(d)
  BY <1>9 DEF Update, Failing
<1>10. ASSUME NEW t \in Threads, InsertRow(t)
      PROVE  \A d \in Emails : fails'[d] <= fails[d] /\ Failing(d)' \subseteq Failing(d)
  BY <1>10 DEF InsertRow, Insert, Done, Failing
<1>11. ASSUME NEW t \in Threads, NEW e \in Emails, NEW r \in Roles, CreateUser(t, e, r)
      PROVE  \A d \in Emails : fails'[d] <= fails[d] /\ Failing(d)' \subseteq Failing(d)
  BY <1>11 DEF CreateUser, Done, Failing
<1>12. ASSUME NEW t \in Threads, NEW e \in Emails, Deactivate(t, e)
      PROVE  \A d \in Emails : fails'[d] <= fails[d] /\ Failing(d)' \subseteq Failing(d)
  BY <1>12 DEF Deactivate, Failing
<1>13. ASSUME NEW t \in Threads, Audit(t)
      PROVE  \A d \in Emails : fails'[d] <= fails[d] /\ Failing(d)' \subseteq Failing(d)
  BY <1>13 DEF Audit, Done, Failing
<1>14. ASSUME NEW t \in Threads, Respond(t)
      PROVE  \A d \in Emails : fails'[d] <= fails[d] /\ Failing(d)' \subseteq Failing(d)
  BY <1>14 DEF Respond, Done, Failing
<1>15. CASE UNCHANGED vars
  BY <1>15 DEF vars, Failing
<1> QED
  BY <1>1, <1>2, <1>3, <1>4, <1>5, <1>6, <1>7, <1>8, <1>9, <1>10, <1>11, <1>12, <1>13, <1>14, <1>15 DEF Next, Handle, SignOn

LEMMA InvStep == IdentityInv /\ [Next]_vars => IdentityInv'
<1> SUFFICES ASSUME IdentityInv, [Next]_vars PROVE IdentityInv'
  OBVIOUS
<1>1. TypeOK' /\ Places' /\ Histories' /\ LocalNeedsPassword' /\ DeactivatedStaysOut' /\ AuditIsTrue'
  <2>1. ASSUME Boot
        PROVE  TypeOK' /\ Places' /\ Histories' /\ LocalNeedsPassword' /\ DeactivatedStaysOut' /\ AuditIsTrue'
    BY <2>1, BootStep
  <2>2. ASSUME Crash
        PROVE  TypeOK' /\ Places' /\ Histories' /\ LocalNeedsPassword' /\ DeactivatedStaysOut' /\ AuditIsTrue'
    BY <2>2, CrashStep
  <2>3. ASSUME NEW t \in Threads, NEW u \in issued \cup {None}, NEW k \in Kind, Arrive(t, u, k)
        PROVE  TypeOK' /\ Places' /\ Histories' /\ LocalNeedsPassword' /\ DeactivatedStaysOut' /\ AuditIsTrue'
    BY <2>3, ArriveStep
  <2>4. ASSUME NEW t \in Threads, Operate(t)
        PROVE  TypeOK' /\ Places' /\ Histories' /\ LocalNeedsPassword' /\ DeactivatedStaysOut' /\ AuditIsTrue'
    BY <2>4, OperateStep
  <2>5. ASSUME NEW t \in Threads, NEW e \in Emails, NEW right \in BOOLEAN, Login(t, e, right)
        PROVE  TypeOK' /\ Places' /\ Histories' /\ LocalNeedsPassword' /\ DeactivatedStaysOut' /\ AuditIsTrue'
    BY <2>5, LoginStep
  <2>6. ASSUME NEW t \in Threads, LoginFailed(t)
        PROVE  TypeOK' /\ Places' /\ Histories' /\ LocalNeedsPassword' /\ DeactivatedStaysOut' /\ AuditIsTrue'
    BY <2>6, LoginFailedStep
  <2>7. ASSUME NEW t \in Threads, LoginVerified(t)
        PROVE  TypeOK' /\ Places' /\ Histories' /\ LocalNeedsPassword' /\ DeactivatedStaysOut' /\ AuditIsTrue'
    BY <2>7, LoginVerifiedStep
  <2>8. ASSUME NEW e \in Emails, Age(e)
        PROVE  TypeOK' /\ Places' /\ Histories' /\ LocalNeedsPassword' /\ DeactivatedStaysOut' /\ AuditIsTrue'
    BY <2>8, AgeStep
  <2>9. ASSUME NEW t \in Threads, NEW s \in Subjects, NEW r \in Roles, Lookup(t, s, r)
        PROVE  TypeOK' /\ Places' /\ Histories' /\ LocalNeedsPassword' /\ DeactivatedStaysOut' /\ AuditIsTrue'
    BY <2>9, LookupStep
  <2>10. ASSUME NEW t \in Threads, pc[t] = "handle", Done(t), UNCHANGED <<up, table, fails, issued, history>>
        PROVE  TypeOK' /\ Places' /\ Histories' /\ LocalNeedsPassword' /\ DeactivatedStaysOut' /\ AuditIsTrue'
    BY <2>10, RefuseStep
  <2>11. ASSUME NEW t \in Threads, Update(t)
        PROVE  TypeOK' /\ Places' /\ Histories' /\ LocalNeedsPassword' /\ DeactivatedStaysOut' /\ AuditIsTrue'
    BY <2>11, UpdateStep
  <2>12. ASSUME NEW t \in Threads, InsertRow(t)
        PROVE  TypeOK' /\ Places' /\ Histories' /\ LocalNeedsPassword' /\ DeactivatedStaysOut' /\ AuditIsTrue'
    BY <2>12, InsertRowStep
  <2>13. ASSUME NEW t \in Threads, NEW e \in Emails, NEW r \in Roles, CreateUser(t, e, r)
        PROVE  TypeOK' /\ Places' /\ Histories' /\ LocalNeedsPassword' /\ DeactivatedStaysOut' /\ AuditIsTrue'
    BY <2>13, CreateUserStep
  <2>14. ASSUME NEW t \in Threads, NEW e \in Emails, Deactivate(t, e)
        PROVE  TypeOK' /\ Places' /\ Histories' /\ LocalNeedsPassword' /\ DeactivatedStaysOut' /\ AuditIsTrue'
    BY <2>14, DeactivateStep
  <2>15. ASSUME NEW t \in Threads, Audit(t)
        PROVE  TypeOK' /\ Places' /\ Histories' /\ LocalNeedsPassword' /\ DeactivatedStaysOut' /\ AuditIsTrue'
    BY <2>15, AuditStep
  <2>16. ASSUME NEW t \in Threads, Respond(t)
        PROVE  TypeOK' /\ Places' /\ Histories' /\ LocalNeedsPassword' /\ DeactivatedStaysOut' /\ AuditIsTrue'
    BY <2>16, RespondStep
  <2>17. CASE UNCHANGED vars
    BY <2>17 DEF vars, table, thread, history, IdentityInv, TypeOK, TableOK, ThreadOK, ThreadShape, Places, Histories,
       LocalNeedsPassword, DeactivatedStaysOut, AuditIsTrue
  <2> QED
    BY <2>1, <2>2, <2>3, <2>4, <2>5, <2>6, <2>7, <2>8, <2>9, <2>10, <2>11, <2>12, <2>13, <2>14, <2>15, <2>16, <2>17 DEF Next, Handle, SignOn
<1>2. FailuresBounded'
  BY <1>1, LoginBounded, LoginFailedBounded, OthersBounded
<1> QED
  BY <1>1, <1>2 DEF IdentityInv

LEMMA InvInit == Init => IdentityInv
<1> SUFFICES ASSUME Init PROVE IdentityInv
  OBVIOUS
<1> USE IdentityAssumption DEF Init, NoRequest
<1>1. TypeOK
  BY DEF TypeOK, TableOK, ThreadOK, ThreadShape, Kind, Place, Note, Roles, Viewer, Operator, Manager
<1>2. FailuresBounded
  <2> SUFFICES ASSUME NEW e \in Emails
               PROVE  fails[e] + Cardinality(Failing(e)) < MaxFailures + Cardinality(Threads)
    BY DEF FailuresBounded
  <2> QED
    BY <1>1, FailingFinite
<1>3. Places /\ Histories /\ LocalNeedsPassword /\ DeactivatedStaysOut /\ AuditIsTrue
  BY DEF Places, Histories, LocalNeedsPassword, DeactivatedStaysOut, AuditIsTrue, Note
<1> QED
  BY <1>1, <1>2, <1>3 DEF IdentityInv

LEMMA Invariance == Spec => []IdentityInv
BY InvInit, InvStep, PTL DEF Spec

-----------------------------------------------------------------------------
\* Every variable keeps its type.
THEOREM TypeCorrect == Spec => []TypeOK
<1>1. IdentityInv => TypeOK
  BY DEF IdentityInv
<1> QED
  BY <1>1, Invariance, PTL

\* However many attempts run in parallel, login_post lets through fewer than
\* one for each thread beyond the limit.
THEOREM LockoutsAreBounded == Spec => []LockoutBounded
<1>1. IdentityInv => LockoutBounded
  <2> SUFFICES ASSUME IdentityInv, NEW e \in Emails
               PROVE  fails[e] < MaxFailures + Cardinality(Threads)
    BY DEF LockoutBounded
  <2> QED
    BY FailingFinite, IdentityAssumption DEF IdentityInv, TypeOK, TableOK, ThreadOK, ThreadShape, FailuresBounded
<1> QED
  BY <1>1, Invariance, PTL

\* A session for a local account was issued to somebody who gave its password.
THEOREM LocalAccountsNeedPassword == Spec => []LocalNeedsPassword
<1>1. IdentityInv => LocalNeedsPassword
  BY DEF IdentityInv
<1> QED
  BY <1>1, Invariance, PTL

\* No request that comes after a deactivation was answered is served under
\* that identity.
THEOREM DeactivatedUsersStayOut == Spec => []DeactivatedStaysOut
<1>1. IdentityInv => DeactivatedStaysOut
  BY DEF IdentityInv
<1> QED
  BY <1>1, Invariance, PTL

\* What is about to be audited has been committed.
THEOREM AuditTellsTheTruth == Spec => []AuditIsTrue
<1>1. IdentityInv => AuditIsTrue
  BY DEF IdentityInv
<1> QED
  BY <1>1, Invariance, PTL

\* Rows keep their subject, local accounts their role, and no step, a restart
\* included, brings a deactivated user back.
THEOREM RowsAreKept == Spec => RowsKept
<1> DEFINE Kept == \A e \in rows :
                       /\ e \in rows'
                       /\ subject'[e] = subject[e]
                       /\ rank'[e] = rank[e] \/ subject[e] # None
                       /\ active'[e] => active[e]
<1>1. IdentityInv /\ [Next]_vars => [Kept]_vars
  <2> SUFFICES ASSUME IdentityInv, Next PROVE Kept
    OBVIOUS
  <2> USE IdentityAssumption DEF IdentityInv, TypeOK, TableOK, ThreadOK, ThreadShape, table, history

  <2>1. ASSUME Boot PROVE Kept
    BY <2>1 DEF Boot, SeedAdmin, Insert
  <2>2. ASSUME Crash PROVE Kept
    BY <2>2 DEF Crash
  <2>3. ASSUME NEW t \in Threads, NEW u \in issued \cup {None}, NEW k \in Kind, Arrive(t, u, k) PROVE Kept
    BY <2>3 DEF Arrive, Admitted, Loaded
  <2>4. ASSUME NEW t \in Threads, Operate(t) PROVE Kept
    BY <2>4 DEF Operate, Done
  <2>5. ASSUME NEW t \in Threads, NEW e \in Emails, NEW right \in BOOLEAN, Login(t, e, right) PROVE Kept
    BY <2>5 DEF Login, Verified, Done
  <2>6. ASSUME NEW t \in Threads, LoginFailed(t) PROVE Kept
    BY <2>6 DEF LoginFailed, Done
  <2>7. ASSUME NEW t \in Threads, LoginVerified(t) PROVE Kept
    BY <2>7 DEF LoginVerified
  <2>8. ASSUME NEW e \in Emails, Age(e) PROVE Kept
    BY <2>8 DEF Age
  <2>9. ASSUME NEW t \in Threads, NEW s \in Subjects, NEW r \in Roles, Lookup(t, s, r) PROVE Kept
    BY <2>9 DEF Lookup, Linked, Done
  <2>10. ASSUME NEW t \in Threads, pc[t] = "handle", Done(t), UNCHANGED <<up, table, fails, issued, history>> PROVE Kept
    BY <2>10 DEF Done
  <2>11. ASSUME NEW t \in Threads, Update(t) PROVE Kept
    BY <2>11 DEF Update, Places
  <2>12. ASSUME NEW t \in Threads, InsertRow(t) PROVE Kept
    BY <2>12 DEF InsertRow, Insert, Done
  <2>13. ASSUME NEW t \in Threads, NEW e \in Emails, NEW r \in Roles, CreateUser(t, e, r) PROVE Kept
    BY <2>13 DEF CreateUser, Done
  <2>14. ASSUME NEW t \in Threads, NEW e \in Emails, Deactivate(t, e) PROVE Kept
    BY <2>14 DEF Deactivate
  <2>15. ASSUME NEW t \in Threads, Audit(t) PROVE Kept
    BY <2>15 DEF Audit, Done
  <2>16. ASSUME NEW t \in Threads, Respond(t) PROVE Kept
    BY <2>16 DEF Respond, Done
  <2> QED
    BY <2>1, <2>2, <2>3, <2>4, <2>5, <2>6, <2>7, <2>8, <2>9, <2>10, <2>11, <2>12, <2>13, <2>14, <2>15, <2>16 DEF Next, Handle, SignOn
<1> QED
  BY <1>1, Invariance, PTL DEF Spec, RowsKept
=============================================================================
