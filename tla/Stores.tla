------------------------------- MODULE Stores -------------------------------
(***************************************************************************)
(* What the server keeps for its operators: connection profiles            *)
(* (auth/profiles.py), the notification configuration (notify/config.py),  *)
(* the layout of a topology (routes/topology_layout.py), the key that      *)
(* encrypts their secrets (auth/secrets.py) and the import of the older    *)
(* JSON files at boot (db/migrate.py).                                     *)
(*                                                                         *)
(* A request reads, works on what it read, and commits; between the two    *)
(* others commit.  SQLite takes no lock for a SELECT, and an UPDATE writes *)
(* only the columns whose value differs from the one that was read.        *)
(***************************************************************************)
EXTENDS Naturals

CONSTANTS
    Names,          \* names of profiles
    Fields,         \* PROFILE_SECRET_FIELDS
    Smtp,           \* the password of the configuration, a field like those
    Values,         \* what a form or a layout may hold besides secrets
    Default,        \* DEFAULTS, the value of Values nobody has saved yet
    Secrets,        \* passwords somebody may type
    OldProfiles,    \* profiles.json and notifications.json of the older version
    OldConfig,
    Threads,
    MaxRequests,    \* bounds: requests, and keys ever generated
    MaxKeys,
    None

Keys == 1..MaxKeys

\* Fernet ciphertext: what it was made from.  An empty field is None.
Ciphers == [key : Keys, text : Secrets] \cup {None}

ProfileRows == [plain : Values, secret : [Fields -> Ciphers]]

Configs == [shown : Values, hidden : Values, secret : [{Smtp} -> Ciphers]]

\* What the body of a request says: a field that is blank or holds the mask is None.
Forms == [name : Names \cup {None}, value : Values,
          secret : [Fields \cup {Smtp} -> Secrets \cup {None}]]

ASSUME StoresAssumption ==
    /\ Default \in Values
    /\ Smtp \notin Fields
    /\ None \notin Names \cup Secrets \cup Values \cup {"empty", "torn"}
    /\ {"empty", "torn"} \cap Values = {}
    /\ None \notin ProfileRows \cup Configs \cup [key : Keys, text : Secrets]
    /\ OldProfiles \in [Names -> ProfileRows \cup {None}]
    /\ OldConfig \in Configs \cup {None}
    /\ \A n \in Names, f \in Fields :     \* made with the key that is in the file
           OldProfiles[n] # None /\ OldProfiles[n].secret[f] # None =>
               OldProfiles[n].secret[f].key = 1
    /\ OldConfig # None /\ OldConfig.secret[Smtp] # None => OldConfig.secret[Smtp].key = 1
    /\ MaxRequests \in Nat /\ MaxKeys \in Nat \ {0}

VARIABLES
    up,         \* the process runs
    keyFile, key, keys, \* .secret_master, the key in memory, keys made so far
    rows, config,       \* the tables; None: no row
    layout,     \* the file of one controller: None, "empty", "torn" (not JSON), or
                \* what was saved
    pc, form,   \* each thread: its place, the request it serves
    saw,        \* and what it has read
    left,       \* requests still to come
    given,      \* history: the secrets last typed for each profile
    posted,     \* history: the configuration last posted
    laid,       \* history: what a GET may answer, as far as the answers of saves and
                \* resets tell
    alone,      \* history: who writes a layout nobody else has written or reset since
    lost        \* history: tables where a commit may have undone another

key_    == <<keyFile, key, keys>>
table   == <<rows, config>>
thread  == <<pc, form, saw>>
history == <<given, posted, laid, alone, lost>>
vars == <<up, key_, table, layout, thread, left, history>>

Place == {"idle", "save", "delete", "store", "draw", "adrift"}

Blank == [f \in Fields \cup {Smtp} |-> None]

NoForm == [name |-> None, value |-> Default, secret |-> Blank]

TypeOK ==
    /\ up \in BOOLEAN
    /\ keyFile \in Keys /\ key \in Keys /\ keys \in Keys
    /\ rows \in [Names -> ProfileRows \cup {None}]
    /\ config \in Configs \cup {None}
    /\ layout \in Values \cup {None, "empty", "torn"}
    /\ pc \in [Threads -> Place]
    /\ form \in [Threads -> Forms]
    /\ saw \in [Threads -> ProfileRows \cup Configs \cup {None}]
    /\ left \in 0..MaxRequests
    /\ given \in [Names -> [Fields -> Secrets \cup {None}]]
    /\ posted \in [shown : Values, hidden : Values, password : Secrets \cup {None}]
    /\ laid \subseteq Values \cup {None} /\ alone \subseteq Threads
    /\ lost \subseteq {"profiles", "config"}

\* The text of a ciphertext, whichever key it was made with.
TextOf(c) == IF c = None THEN None ELSE c.text

Nothing == [f \in Fields |-> None]

GivenBy(row) == [f \in Fields |-> IF row = None THEN None ELSE TextOf(row.secret[f])]

Init ==
    /\ up = FALSE
    /\ keyFile = 1 /\ key = 1 /\ keys = 1
    /\ rows = [n \in Names |-> None] /\ config = None
    /\ layout = None /\ laid = {None} /\ alone = {}
    /\ pc = [t \in Threads |-> "idle"]
    /\ form = [t \in Threads |-> NoForm]
    /\ saw = [t \in Threads |-> None]
    /\ left = MaxRequests
    /\ given = [n \in Names |-> Nothing]
    /\ posted = [shown |-> Default, hidden |-> Default, password |-> None]
    /\ lost = {}

-----------------------------------------------------------------------------
\* SecretsManager: a key file that can be read is used; otherwise a new key is
\* made, and kept in memory even if it cannot be written.
LoadKey ==
    \/ key' = keyFile /\ UNCHANGED <<keyFile, keys>>
    \/ /\ keys < MaxKeys
       /\ keys' = keys + 1 /\ key' = keys + 1
       /\ keyFile' \in {keyFile, keys + 1}

Encrypt(s) == IF s = None THEN None ELSE [key |-> key, text |-> s]

Decrypt(c) == IF c = None \/ c.key # key THEN None ELSE c.text

\* resolve_secret and smtp_password.
Resolve(n, f) == IF rows[n] = None THEN None ELSE Decrypt(rows[n].secret[f])

SmtpPassword == IF config = None THEN None ELSE Decrypt(config.secret[Smtp])

\* import_profiles acts on a tenant without profiles, import_notification_config
\* on one without a row; either may fail without stopping the boot.
ImportProfiles_Anyway ==
    /\ rows' = [n \in Names |-> IF OldProfiles[n] # None THEN OldProfiles[n] ELSE rows[n]]
    /\ given' = [n \in Names |-> GivenBy(rows'[n])]

ImportProfiles ==
    IF \A n \in Names : rows[n] = None
    THEN \/ /\ rows' = OldProfiles
            /\ given' = [n \in Names |-> GivenBy(OldProfiles[n])]
         \/ UNCHANGED <<rows, given>>
    ELSE UNCHANGED <<rows, given>>

ImportConfig ==
    IF config = None /\ OldConfig # None
    THEN \/ /\ config' = OldConfig
            /\ posted' = [shown |-> OldConfig.shown, hidden |-> OldConfig.hidden,
                          password |-> TextOf(OldConfig.secret[Smtp])]
         \/ UNCHANGED <<config, posted>>
    ELSE UNCHANGED <<config, posted>>

Boot ==
    /\ ~up
    /\ up' = TRUE
    /\ LoadKey
    /\ ImportProfiles
    /\ ImportConfig
    /\ UNCHANGED <<layout, thread, left, laid, alone, lost>>

\* Who has the file open to write it.
Drawing == {t \in Threads : pc[t] = "draw"}

\* The process stops: a commit or a replaced key file is whole, of a layout that
\* is being written there may be a part.
Crash ==
    /\ up
    /\ up' = FALSE
    /\ pc' = [t \in Threads |-> "idle"]
    /\ form' = [t \in Threads |-> NoForm]
    /\ saw' = [t \in Threads |-> None]
    /\ layout' \in {layout} \cup (IF Drawing = {} THEN {} ELSE {"torn"})
    /\ alone' = {}
    /\ UNCHANGED <<key_, table, left, given, posted, laid, lost>>

-----------------------------------------------------------------------------
Goto(t, place, request, read) ==
    /\ pc' = [pc EXCEPT ![t] = place]
    /\ form' = [form EXCEPT ![t] = request]
    /\ saw' = [saw EXCEPT ![t] = read]

Done(t) == Goto(t, "idle", NoForm, None)

Accept(t) == up /\ pc[t] = "idle" /\ left > 0 /\ left' = left - 1

\* The first half of ProfileStore.save and delete: the row is looked up.
FindProfile(t, place, f) ==
    /\ Accept(t)
    /\ Goto(t, place, f, rows[f.name])
    /\ UNCHANGED <<up, key_, table, layout, history>>

Typed(t) == {f \in Fields : form[t].secret[f] # None}

\* The secrets the form leaves alone are those that were read.
NewSecrets(t) ==
    [f \in Fields |-> IF f \in Typed(t) THEN Encrypt(form[t].secret[f])
                      ELSE IF saw[t] = None THEN None ELSE saw[t].secret[f]]

\* Whether the commit replaces a secret somebody has committed since the read,
\* which takes two forms that type different fields: the column holds both.
Undoes(t, n) ==
    \E f \in Fields \ Typed(t) : Typed(t) # {} /\ rows[n].secret[f] # saw[t].secret[f]

\* The UPDATE: a column is written if it differs from what was read.
UpdateRow_WritesAll(t, n) == [plain |-> form[t].value, secret |-> NewSecrets(t)]

UpdateRow(t, n) ==
    [plain  |-> IF form[t].value # saw[t].plain THEN form[t].value ELSE rows[n].plain,
     secret |-> IF Typed(t) # {} THEN NewSecrets(t) ELSE rows[n].secret]

\* The second half: an INSERT is refused if the name is taken by now, an UPDATE
\* of a row that is gone finds nothing.  Either is an error of the request.  A row
\* made anew meanwhile is found: SQLite gives it the id of the last one deleted.
SaveProfile(t) ==
    LET n == form[t].name
        old == IF saw[t] = None THEN Nothing ELSE given[n] IN
    /\ pc[t] = "save"
    /\ IF (saw[t] = None) # (rows[n] = None)
       THEN UNCHANGED <<rows, given, lost>>
       ELSE /\ rows' = [rows EXCEPT ![n] =
                           IF saw[t] = None
                           THEN [plain |-> form[t].value, secret |-> NewSecrets(t)]
                           ELSE UpdateRow(t, n)]
            /\ given' = [given EXCEPT ![n] =
                            [f \in Fields |->
                                IF f \in Typed(t) THEN form[t].secret[f] ELSE old[f]]]
            /\ lost' = IF saw[t] # None /\ Undoes(t, n) THEN lost \cup {"profiles"} ELSE lost
    /\ Done(t)
    /\ UNCHANGED <<up, key_, config, layout, left, posted, laid, alone>>

DeleteProfile(t) ==
    /\ pc[t] = "delete"
    /\ rows' = IF saw[t] = None THEN rows ELSE [rows EXCEPT ![form[t].name] = None]
    /\ Done(t)
    /\ UNCHANGED <<up, key_, config, layout, left, history>>

-----------------------------------------------------------------------------
\* NotificationConfigStore.save_config reads the row in one transaction and
\* writes all of it in another.

Merged(c) ==
    IF c = None THEN [shown |-> Default, hidden |-> Default, secret |-> [f \in {Smtp} |-> None]]
    ELSE c

PostConfig(t, f) ==
    /\ Accept(t)
    /\ Goto(t, "store", f, config)
    /\ UNCHANGED <<up, key_, table, layout, history>>

\* _merge_incoming: what the page does not show is kept, and so is the password
\* unless a new one is typed.
MergeIncoming_TakesMask(t) ==
    [shown |-> form[t].value, hidden |-> Merged(saw[t]).hidden,
     secret |-> [f \in {Smtp} |-> Encrypt(form[t].secret[f])]]

MergeIncoming(t) ==
    [shown |-> form[t].value, hidden |-> Merged(saw[t]).hidden,
     secret |-> [f \in {Smtp} |-> IF form[t].secret[f] # None THEN Encrypt(form[t].secret[f])
                                  ELSE Merged(saw[t]).secret[f]]]

\* The second transaction overwrites whatever row it finds.
StoreConfig(t) ==
    /\ pc[t] = "store"
    /\ config' = MergeIncoming(t)
    /\ posted' = [posted EXCEPT
                     !.shown = form[t].value,
                     !.password = IF form[t].secret[Smtp] # None THEN form[t].secret[Smtp] ELSE @]
    /\ lost' = IF config # saw[t] THEN lost \cup {"config"} ELSE lost
    /\ Done(t)
    /\ UNCHANGED <<up, key_, rows, layout, left, given, laid, alone>>

-----------------------------------------------------------------------------
\* The layout is a file.  save_layout truncates it as it opens it, then writes the
\* whole text; either may fail, which is an error of the request.

OpenLayout_Over(t, f) ==
    /\ Accept(t)
    /\ Goto(t, "draw", f, None)
    /\ layout' = IF layout = None THEN "empty" ELSE layout
    /\ laid' = laid \cup {None}
    /\ alone' = IF Drawing = {} THEN {t} ELSE {}
    /\ UNCHANGED <<up, key_, table, given, posted, lost>>

OpenLayout(t, f) ==
    /\ Accept(t)
    /\ \/ /\ Goto(t, "draw", f, None)
          /\ layout' = "empty"
          /\ laid' = laid \cup {None}
          /\ alone' = IF Drawing = {} THEN {t} ELSE {}
       \/ UNCHANGED <<thread, layout, laid, alone>>
    /\ UNCHANGED <<up, key_, table, given, posted, lost>>

\* What somebody else wrote meanwhile may stick out behind the text; a file that
\* was unlinked meanwhile takes the text with it.
WriteLayout(t) ==
    /\ \/ pc[t] = "draw" /\ layout = "empty" /\ layout' = form[t].value
       \/ pc[t] = "draw" /\ layout # "empty" /\ layout' \in {form[t].value, "torn"}
       \/ pc[t] = "adrift" /\ UNCHANGED layout
    /\ laid' = IF t \in alone THEN {form[t].value} ELSE laid \cup {form[t].value}
    /\ alone' = alone \ {t}
    /\ Done(t)
    /\ UNCHANGED <<up, key_, table, left, given, posted, lost>>

FailLayout(t) ==
    /\ \/ pc[t] = "draw" /\ layout' \in {layout, "torn"}
       \/ pc[t] = "adrift" /\ UNCHANGED layout
    /\ alone' = alone \ {t}
    /\ Done(t)
    /\ UNCHANGED <<up, key_, table, left, given, posted, laid, lost>>

\* The file is unlinked.  An error of that is passed over: the answer is the same,
\* the file is kept.
ResetLayout(t) ==
    /\ Accept(t)
    /\ \/ /\ layout' = None
          /\ pc' = [u \in Threads |-> IF pc[u] = "draw" THEN "adrift" ELSE pc[u]]
          /\ alone' = {}
       \/ UNCHANGED <<layout, pc, alone>>
    /\ laid' = laid \cup {None}
    /\ UNCHANGED <<up, key_, table, form, saw, given, posted, lost>>

\* get_layout: a file that does not parse is an empty layout.
GetLayout == IF layout \in Values THEN layout ELSE None

-----------------------------------------------------------------------------
ProfileForms == {f \in Forms : f.name # None /\ f.secret[Smtp] = None}
DeleteForms == {f \in ProfileForms : f.value = Default /\ f.secret = Blank}
ConfigForms == {f \in Forms : f.name = None /\ \A x \in Fields : f.secret[x] = None}
LayoutForms == {f \in ConfigForms : f.secret = Blank}

Request(t) ==
    \/ \E f \in ProfileForms : FindProfile(t, "save", f)
    \/ \E f \in DeleteForms : FindProfile(t, "delete", f)
    \/ \E f \in ConfigForms : PostConfig(t, f)
    \/ \E f \in LayoutForms : OpenLayout(t, f)
    \/ ResetLayout(t)

Next ==
    \/ Boot \/ Crash
    \/ \E t \in Threads :
           \/ Request(t)
           \/ SaveProfile(t) \/ DeleteProfile(t)
           \/ StoreConfig(t)
           \/ WriteLayout(t) \/ FailLayout(t)

Spec == Init /\ [][Next]_vars

-----------------------------------------------------------------------------
(***************************************************************************)
(* Properties                                                              *)
(***************************************************************************)

\* A profile resolves to the secret last typed for it, whoever saved, deleted or
\* imported it in between and however their requests interleave: a form that
\* leaves the field blank never brings an older secret back.  Excepted are two
\* overlapping forms that type different secrets of one profile (they share a
\* column), and a key file that could not be read.
SecretKept ==
    up /\ keys = 1 /\ "profiles" \notin lost =>
        \A n \in Names : rows[n] # None => \A f \in Fields : Resolve(n, f) = given[n][f]

\* Without overlapping saves the configuration is the one last posted, with the
\* password last typed: posting the mask keeps it, and a save reads what the
\* save before it has written.
ConfigKept ==
    up /\ keys = 1 /\ "config" \notin lost /\ config # None =>
        /\ config.shown = posted.shown /\ config.hidden = posted.hidden
        /\ SmtpPassword = posted.password

\* A save that had the file to itself and was answered is what is served from then
\* on, through crashes, failures and whatever was in the file before, until
\* another save opens the file or a reset comes.  After those, answered or not, a
\* GET gives nothing, or that layout, or one that was saved since: none older ever
\* comes back, and a torn file is put right by the next save.
LayoutKept == GetLayout \in laid

\* A boot changes no row that is there: the import of the older files never
\* overwrites what was saved since.
BootKeepsRows ==
    [][~up =>
        /\ \A n \in Names : rows[n] # None => rows'[n] = rows[n]
        /\ config # None => config' = config]_vars
=============================================================================
