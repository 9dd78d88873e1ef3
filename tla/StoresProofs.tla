---------------------------- MODULE StoresProofs ----------------------------
(***************************************************************************)
(* Theorems about the operators' stores, for any number of profiles,       *)
(* secret fields, request threads and requests.                            *)
(***************************************************************************)
EXTENDS Stores, TLAPS

\* What a thread that works on a profile or on the configuration has read.
Reads == \A t \in Threads :
    /\ pc[t] \in {"save", "delete"} => form[t].name \in Names /\ saw[t] \in ProfileRows \cup {None}
    /\ pc[t] = "store" => saw[t] \in Configs \cup {None}

\* Made with the first key.
First(c) == c # None => c.key = 1

\* No second key: none in memory, in the file, in a table or in what was read.
OneKey ==
    keys = 1 =>
        /\ key = 1 /\ keyFile = 1
        /\ \A n \in Names, f \in Fields : rows[n] # None => First(rows[n].secret[f])
        /\ config # None => First(config.secret[Smtp])
        /\ \A t \in Threads, f \in Fields :
               pc[t] = "save" /\ saw[t] # None => First(saw[t].secret[f])
        /\ \A t \in Threads : pc[t] = "store" /\ saw[t] # None => First(saw[t].secret[Smtp])

\* Whatever key they were made with, the ciphertexts are those of the secrets
\* last typed.
TextsKept ==
    "profiles" \notin lost =>
        \A n \in Names : rows[n] # None => \A f \in Fields : TextOf(rows[n].secret[f]) = given[n][f]

ConfigTextKept ==
    "config" \notin lost =>
        LET c == Merged(config) IN
        /\ c.shown = posted.shown /\ c.hidden = posted.hidden
        /\ TextOf(c.secret[Smtp]) = posted.password

\* Who is alone is the only one with the file open and finds it empty; while the
\* file is open, cut short or gone, a GET may have been answered with nothing.
LayoutAlone ==
    /\ GetLayout \in laid
    /\ \A t \in alone : t \in Drawing /\ layout = "empty" /\ \A u \in Drawing : u = t
    /\ Drawing # {} => None \in laid

\* A process that is down serves nothing.
DownIdle == up \/ \A t \in Threads : pc[t] = "idle"

\* The inductive invariant.
StoresInv ==
    TypeOK /\ DownIdle /\ Reads /\ OneKey /\ TextsKept /\ ConfigTextKept /\ LayoutAlone

-----------------------------------------------------------------------------
LEMMA TextType ==
    ASSUME NEW c \in Ciphers
    PROVE  TextOf(c) \in Secrets \cup {None}
BY DEF Ciphers, TextOf

LEMMA GivenByType ==
    ASSUME NEW r \in ProfileRows \cup {None}
    PROVE  GivenBy(r) \in [Fields -> Secrets \cup {None}]
BY TextType DEF GivenBy, ProfileRows

\* What is encrypted can be decrypted with the same key.
LEMMA EncryptType ==
    ASSUME TypeOK, NEW s \in Secrets \cup {None}
    PROVE  /\ Encrypt(s) \in Ciphers
           /\ TextOf(Encrypt(s)) = s
           /\ key = 1 => First(Encrypt(s))
BY StoresAssumption DEF TypeOK, Encrypt, Ciphers, TextOf, First

\* The secrets of a saved profile are the typed ones and those that were read.
LEMMA NewSecretsType ==
    ASSUME TypeOK, NEW t \in Threads, saw[t] \in ProfileRows \cup {None}
    PROVE  /\ NewSecrets(t) \in [Fields -> Ciphers]
           /\ \A f \in Fields :
                  /\ f \in Typed(t) => TextOf(NewSecrets(t)[f]) = form[t].secret[f]
                  /\ f \notin Typed(t) =>
                         NewSecrets(t)[f] = IF saw[t] = None THEN None ELSE saw[t].secret[f]
                  /\ key = 1 /\ (saw[t] # None => First(saw[t].secret[f])) =>
                         First(NewSecrets(t)[f])
<1>1. \A f \in Fields : form[t].secret[f] \in Secrets \cup {None}
  BY DEF TypeOK, Forms
<1>2. \A f \in Fields : saw[t] # None => saw[t].secret[f] \in Ciphers
  BY DEF ProfileRows
<1>3. \A f \in Fields :
          /\ Encrypt(form[t].secret[f]) \in Ciphers
          /\ TextOf(Encrypt(form[t].secret[f])) = form[t].secret[f]
          /\ key = 1 => First(Encrypt(form[t].secret[f]))
  BY <1>1, EncryptType
<1>4. NewSecrets(t) \in [Fields -> Ciphers]
  BY <1>2, <1>3 DEF NewSecrets, Ciphers
<1> QED
  BY <1>3, <1>4 DEF NewSecrets, First

LEMMA UpdateRowType ==
    ASSUME TypeOK, NEW t \in Threads, NEW n \in Names, rows[n] # None, saw[t] \in ProfileRows
    PROVE  UpdateRow(t, n) \in ProfileRows
<1>1. rows[n] \in ProfileRows /\ form[t].value \in Values
  BY DEF TypeOK, Forms
<1>2. NewSecrets(t) \in [Fields -> Ciphers]
  BY NewSecretsType
<1> QED
  BY <1>1, <1>2 DEF UpdateRow, ProfileRows

\* A merged configuration holds what was posted over what was read.
LEMMA MergeType ==
    ASSUME TypeOK, NEW t \in Threads, saw[t] \in Configs \cup {None}
    PROVE  LET m == MergeIncoming(t) IN
           /\ m \in Configs
           /\ m.shown = form[t].value /\ m.hidden = Merged(saw[t]).hidden
           /\ form[t].secret[Smtp] # None => TextOf(m.secret[Smtp]) = form[t].secret[Smtp]
           /\ form[t].secret[Smtp] = None => m.secret[Smtp] = Merged(saw[t]).secret[Smtp]
           /\ key = 1 /\ (saw[t] # None => First(saw[t].secret[Smtp])) => First(m.secret[Smtp])
<1>1. form[t].value \in Values /\ form[t].secret[Smtp] \in Secrets \cup {None}
  BY DEF TypeOK, Forms
<1>2. Merged(saw[t]) \in Configs
  BY StoresAssumption DEF Merged, Configs, Ciphers
<1>3. /\ Encrypt(form[t].secret[Smtp]) \in Ciphers
      /\ TextOf(Encrypt(form[t].secret[Smtp])) = form[t].secret[Smtp]
      /\ key = 1 => First(Encrypt(form[t].secret[Smtp]))
  BY <1>1, EncryptType
<1>4. (saw[t] # None => First(saw[t].secret[Smtp])) => First(Merged(saw[t]).secret[Smtp])
  BY DEF Merged, First
<1> QED
  BY <1>1, <1>2, <1>3, <1>4 DEF MergeIncoming, Configs

-----------------------------------------------------------------------------
LEMMA BootStep ==
    ASSUME StoresInv, Boot
    PROVE  StoresInv'
<1> USE StoresAssumption DEF StoresInv, key_, table, thread, history
<1>1. TypeOK'
  <2>1. keyFile' \in Keys /\ key' \in Keys /\ keys' \in Keys
    BY DEF Boot, LoadKey, TypeOK, Keys
  <2>2. rows' \in [Names -> ProfileRows \cup {None}]
    BY DEF Boot, ImportProfiles, TypeOK
  <2>3. \A n \in Names : GivenBy(OldProfiles[n]) \in [Fields -> Secrets \cup {None}]
    BY GivenByType
  <2>4. given' \in [Names -> [Fields -> Secrets \cup {None}]]
    BY <2>3 DEF Boot, ImportProfiles, TypeOK
  <2>5. config' \in Configs \cup {None}
    BY DEF Boot, ImportConfig, TypeOK
  <2>6. OldConfig # None =>
            OldConfig.shown \in Values /\ OldConfig.hidden \in Values
            /\ TextOf(OldConfig.secret[Smtp]) \in Secrets \cup {None}
    BY TextType DEF Configs
  <2>7. posted' \in [shown : Values, hidden : Values, password : Secrets \cup {None}]
    BY <2>6 DEF Boot, ImportConfig, TypeOK
  <2> QED
    BY <2>1, <2>2, <2>4, <2>5, <2>7 DEF Boot, TypeOK
<1>2. DownIdle'
  BY <1>1 DEF Boot, LoadKey, ImportProfiles, ImportConfig, DownIdle, TypeOK
<1>3. Reads'
  BY <1>1 DEF Boot, LoadKey, ImportProfiles, ImportConfig, Reads, TypeOK
<1>4. OneKey'
  <2> SUFFICES ASSUME keys' = 1 PROVE OneKey'
    BY DEF OneKey
  <2>1. keys = 1 /\ key' = 1 /\ keyFile' = 1
    BY DEF Boot, LoadKey, TypeOK, Keys, OneKey
  <2>2. \A n \in Names, f \in Fields : rows'[n] # None => First(rows'[n].secret[f])
    BY <2>1 DEF Boot, ImportProfiles, OneKey, First
  <2>3. config' # None => First(config'.secret[Smtp])
    BY <2>1 DEF Boot, ImportConfig, OneKey, First
  <2> QED
    BY <2>1, <2>2, <2>3 DEF Boot, OneKey
<1>5. TextsKept'
  <2>1. CASE rows' = OldProfiles /\ given' = [n \in Names |-> GivenBy(OldProfiles[n])]
    BY <2>1 DEF TextsKept, GivenBy
  <2>2. CASE UNCHANGED <<rows, given>>
    BY <2>2 DEF Boot, TextsKept
  <2> QED
    BY <2>1, <2>2 DEF Boot, ImportProfiles
<1>6. ConfigTextKept'
  BY <1>1 DEF Boot, LoadKey, ImportProfiles, ImportConfig, ConfigTextKept, Merged, TextOf
<1>7. LayoutAlone'
  BY <1>1 DEF Boot, LoadKey, ImportProfiles, ImportConfig, LayoutAlone, GetLayout, Drawing, TypeOK
<1> QED
  BY <1>1, <1>2, <1>3, <1>4, <1>5, <1>6, <1>7

LEMMA CrashStep ==
    ASSUME StoresInv, Crash
    PROVE  StoresInv'
<1> USE StoresAssumption DEF StoresInv, key_, table, thread, history
<1>1. TypeOK'
  BY DEF Crash, TypeOK, Place, Keys, NoForm, Forms, Blank
<1>2. DownIdle'
  BY <1>1 DEF Crash, DownIdle, TypeOK
<1>3. Reads'
  BY <1>1 DEF Crash, Reads, TypeOK
<1>4. OneKey'
  BY <1>1 DEF Crash, OneKey, First, TypeOK, Keys
<1>5. TextsKept'
  BY <1>1 DEF Crash, TextsKept, TypeOK
<1>6. ConfigTextKept'
  BY <1>1 DEF Crash, ConfigTextKept, Merged, TextOf
<1>7. LayoutAlone'
  BY <1>1 DEF Crash, LayoutAlone, GetLayout, Drawing, TypeOK
<1> QED
  BY <1>1, <1>2, <1>3, <1>4, <1>5, <1>6, <1>7

LEMMA FindProfileStep ==
    ASSUME StoresInv, NEW t \in Threads, NEW f \in ProfileForms, NEW place \in {"save", "delete"}, FindProfile(t, place, f)
    PROVE  StoresInv'
<1> USE StoresAssumption DEF StoresInv, key_, table, thread, history
<1>1. TypeOK'
  <2>1. f \in Forms /\ rows[f.name] \in ProfileRows \cup {None}
    BY DEF ProfileForms, Forms, TypeOK
  <2>2. saw' \in [Threads -> ProfileRows \cup Configs \cup {None}]
    BY <2>1 DEF FindProfile, Goto, TypeOK
  <2> QED
    BY <2>1, <2>2 DEF FindProfile, Accept, Goto, TypeOK, Place
<1>2. DownIdle'
  BY <1>1 DEF FindProfile, Accept, Goto, DownIdle, TypeOK
<1>3. Reads'
  BY <1>1 DEF FindProfile, Accept, Goto, Reads, TypeOK, ProfileForms, Forms
<1>4. OneKey'
  <2> SUFFICES ASSUME keys = 1 PROVE OneKey'
    BY DEF OneKey, FindProfile
  <2>1. f.name \in Names /\ saw'[t] = rows[f.name] /\ pc'[t] # "store"
    BY DEF FindProfile, Goto, ProfileForms, Forms, TypeOK
  <2>2. \A x \in Fields : saw'[t] # None => First(saw'[t].secret[x])
    BY <2>1 DEF OneKey
  <2> QED
    BY <2>1, <2>2 DEF FindProfile, Goto, OneKey, TypeOK
<1>5. TextsKept'
  BY <1>1 DEF FindProfile, Accept, Goto, TextsKept, TypeOK
<1>6. ConfigTextKept'
  BY <1>1 DEF FindProfile, Accept, Goto, ConfigTextKept, Merged, TextOf
<1>7. LayoutAlone'
  BY <1>1 DEF FindProfile, Accept, Goto, LayoutAlone, GetLayout, Drawing, TypeOK
<1> QED
  BY <1>1, <1>2, <1>3, <1>4, <1>5, <1>6, <1>7

LEMMA SaveProfileStep ==
    ASSUME StoresInv, NEW t \in Threads, SaveProfile(t)
    PROVE  StoresInv'
<1> USE StoresAssumption DEF StoresInv, key_, table, thread, history
<1>1. TypeOK'
  <2> DEFINE n == form[t].name
  <2>1. n \in Names /\ saw[t] \in ProfileRows \cup {None} /\ form[t] \in Forms
    BY DEF SaveProfile, Reads, TypeOK
  <2>2. [plain |-> form[t].value, secret |-> NewSecrets(t)] \in ProfileRows
    BY <2>1, NewSecretsType DEF ProfileRows, Forms
  <2>3. saw[t] # None /\ rows[n] # None => UpdateRow(t, n) \in ProfileRows
    BY <2>1, UpdateRowType
  <2>4. rows' \in [Names -> ProfileRows \cup {None}]
    BY <2>1, <2>2, <2>3 DEF SaveProfile, TypeOK
  <2>5. \A f \in Fields : form[t].secret[f] \in Secrets \cup {None}
    BY <2>1 DEF Forms
  <2>6. given' \in [Names -> [Fields -> Secrets \cup {None}]]
    <3>1. Nothing \in [Fields -> Secrets \cup {None}] /\ given[n] \in [Fields -> Secrets \cup {None}]
      BY <2>1 DEF TypeOK, Nothing
    <3> DEFINE old == IF saw[t] = None THEN Nothing ELSE given[n]
               new == [f \in Fields |-> IF f \in Typed(t) THEN form[t].secret[f] ELSE old[f]]
    <3>2. new \in [Fields -> Secrets \cup {None}]
      BY <3>1, <2>5
    <3>3. given' = given \/ given' = [given EXCEPT ![n] = new]
      BY DEF SaveProfile
    <3> QED
      BY <3>2, <3>3, <2>1 DEF TypeOK
  <2>7. lost' \subseteq {"profiles", "config"}
    BY DEF SaveProfile, TypeOK
  <2>8. NoForm \in Forms
    BY DEF NoForm, Forms, Blank
  <2> QED
    BY <2>4, <2>6, <2>7, <2>8 DEF SaveProfile, Done, Goto, TypeOK, Place
<1>2. DownIdle'
  BY <1>1 DEF SaveProfile, Done, Goto, DownIdle, TypeOK
<1>3. Reads'
  BY <1>1 DEF SaveProfile, Done, Goto, Reads, TypeOK
<1>4. OneKey'
  <2> DEFINE n == form[t].name
  <2> SUFFICES ASSUME keys = 1 PROVE OneKey'
    BY DEF OneKey, SaveProfile
  <2>1. n \in Names /\ saw[t] \in ProfileRows \cup {None} /\ key = 1
    BY DEF SaveProfile, Reads, OneKey
  <2>2. \A f \in Fields : First(NewSecrets(t)[f])
    BY <2>1, NewSecretsType DEF SaveProfile, OneKey
  <2>3. \/ rows' = rows
        \/ \E r : /\ rows' = [rows EXCEPT ![n] = r]
                  /\ r.secret = NewSecrets(t) \/ (rows[n] # None /\ r.secret = rows[n].secret)
    BY <2>1 DEF SaveProfile, UpdateRow
  <2>4. \A m \in Names, f \in Fields : rows[m] # None => First(rows[m].secret[f])
    BY DEF OneKey, SaveProfile
  <2>5. \A m \in Names, f \in Fields : rows'[m] # None => First(rows'[m].secret[f])
    BY <2>1, <2>2, <2>3, <2>4 DEF TypeOK
  <2> QED
    BY <2>5 DEF SaveProfile, Done, Goto, OneKey, TypeOK
<1>5. TextsKept'
  <2> DEFINE n == form[t].name
  <2> SUFFICES ASSUME "profiles" \notin lost', NEW m \in Names, rows'[m] # None, NEW f \in Fields
               PROVE  TextOf(rows'[m].secret[f]) = given'[m][f]
    BY DEF TextsKept
  <2>1. n \in Names /\ saw[t] \in ProfileRows \cup {None} /\ "profiles" \notin lost
    BY DEF SaveProfile, Reads
  <2>2. CASE m # n \/ (saw[t] = None) # (rows[n] = None)
    BY <2>1, <2>2 DEF SaveProfile, TypeOK, TextsKept
  <2>3. CASE m = n /\ saw[t] = None /\ rows[n] = None
    <3>1. rows'[m].secret = NewSecrets(t)
      BY <2>1, <2>3 DEF SaveProfile, TypeOK
    <3>2. given'[m][f] = IF f \in Typed(t) THEN form[t].secret[f] ELSE None
      BY <2>1, <2>3 DEF SaveProfile, TypeOK, Nothing
    <3> QED
      BY <2>1, <2>3, <3>1, <3>2, NewSecretsType DEF TextOf
  <2>4. CASE m = n /\ saw[t] # None /\ rows[n] # None
    <3>1. rows'[m].secret = IF Typed(t) # {} THEN NewSecrets(t) ELSE rows[n].secret
      BY <2>1, <2>4 DEF SaveProfile, TypeOK, UpdateRow
    <3>2. given'[m][f] = IF f \in Typed(t) THEN form[t].secret[f] ELSE given[n][f]
      BY <2>1, <2>4 DEF SaveProfile, TypeOK
    <3>3. f \notin Typed(t) => TextOf(rows[n].secret[f]) = given[n][f]
      BY <2>1, <2>4 DEF TextsKept
    <3>4. ~Undoes(t, n)
      BY <2>4 DEF SaveProfile
    <3>5. f \notin Typed(t) /\ Typed(t) # {} => NewSecrets(t)[f] = rows[n].secret[f]
      BY <2>1, <2>4, <3>4, NewSecretsType DEF Undoes
    <3> QED
      BY <2>1, <3>1, <3>2, <3>3, <3>5, NewSecretsType
  <2> QED
    BY <2>2, <2>3, <2>4
<1>6. ConfigTextKept'
  BY <1>1 DEF SaveProfile, Done, Goto, ConfigTextKept, Merged, TextOf
<1>7. LayoutAlone'
  BY <1>1 DEF SaveProfile, Done, Goto, LayoutAlone, GetLayout, Drawing, TypeOK
<1> QED
  BY <1>1, <1>2, <1>3, <1>4, <1>5, <1>6, <1>7

LEMMA DeleteProfileStep ==
    ASSUME StoresInv, NEW t \in Threads, DeleteProfile(t)
    PROVE  StoresInv'
<1> USE StoresAssumption DEF StoresInv, key_, table, thread, history
<1>1. TypeOK'
  BY DEF DeleteProfile, Done, Goto, TypeOK, Place, Keys, NoForm, Forms, Blank
<1>2. DownIdle'
  BY <1>1 DEF DeleteProfile, Done, Goto, DownIdle, TypeOK
<1>3. Reads'
  BY <1>1 DEF DeleteProfile, Done, Goto, Reads, TypeOK
<1>4. OneKey'
  BY <1>1 DEF DeleteProfile, Done, Goto, OneKey, First, TypeOK, Keys
<1>5. TextsKept'
  BY <1>1 DEF DeleteProfile, Done, Goto, TextsKept, TypeOK
<1>6. ConfigTextKept'
  BY <1>1 DEF DeleteProfile, Done, Goto, ConfigTextKept, Merged, TextOf
<1>7. LayoutAlone'
  BY <1>1 DEF DeleteProfile, Done, Goto, LayoutAlone, GetLayout, Drawing, TypeOK
<1> QED
  BY <1>1, <1>2, <1>3, <1>4, <1>5, <1>6, <1>7

LEMMA PostConfigStep ==
    ASSUME StoresInv, NEW t \in Threads, NEW f \in ConfigForms, PostConfig(t, f)
    PROVE  StoresInv'
<1> USE StoresAssumption DEF StoresInv, key_, table, thread, history
<1>1. TypeOK'
  BY DEF PostConfig, Accept, Goto, TypeOK, Place, Keys, ConfigForms, LayoutForms
<1>2. DownIdle'
  BY <1>1 DEF PostConfig, Accept, Goto, DownIdle, TypeOK
<1>3. Reads'
  BY <1>1 DEF PostConfig, Accept, Goto, Reads, TypeOK
<1>4. OneKey'
  BY <1>1 DEF PostConfig, Accept, Goto, OneKey, First, TypeOK, Keys
<1>5. TextsKept'
  BY <1>1 DEF PostConfig, Accept, Goto, TextsKept, TypeOK
<1>6. ConfigTextKept'
  BY <1>1 DEF PostConfig, Accept, Goto, ConfigTextKept, Merged, TextOf
<1>7. LayoutAlone'
  BY <1>1 DEF PostConfig, Accept, Goto, LayoutAlone, GetLayout, Drawing, TypeOK
<1> QED
  BY <1>1, <1>2, <1>3, <1>4, <1>5, <1>6, <1>7

LEMMA StoreConfigStep ==
    ASSUME StoresInv, NEW t \in Threads, StoreConfig(t)
    PROVE  StoresInv'
<1> USE StoresAssumption DEF StoresInv, key_, table, thread, history
<1>1. TypeOK'
  <2>1. saw[t] \in Configs \cup {None} /\ form[t] \in Forms
    BY DEF StoreConfig, Reads, TypeOK
  <2>2. config' \in Configs
    BY <2>1, MergeType DEF StoreConfig
  <2>3. form[t].value \in Values /\ form[t].secret[Smtp] \in Secrets \cup {None}
    BY <2>1 DEF Forms
  <2>4. posted' \in [shown : Values, hidden : Values, password : Secrets \cup {None}]
    BY <2>3 DEF StoreConfig, TypeOK
  <2>5. NoForm \in Forms
    BY DEF NoForm, Forms, Blank
  <2> QED
    BY <2>2, <2>4, <2>5 DEF StoreConfig, Done, Goto, TypeOK, Place
<1>2. DownIdle'
  BY <1>1 DEF StoreConfig, Done, Goto, DownIdle, TypeOK
<1>3. Reads'
  BY <1>1 DEF StoreConfig, Done, Goto, Reads, TypeOK
<1>4. OneKey'
  <2> SUFFICES ASSUME keys = 1 PROVE OneKey'
    BY DEF OneKey, StoreConfig
  <2>1. saw[t] \in Configs \cup {None} /\ key = 1
    BY DEF StoreConfig, Reads, OneKey
  <2>2. First(config'.secret[Smtp])
    BY <2>1, MergeType DEF StoreConfig, OneKey
  <2> QED
    BY <2>2 DEF StoreConfig, Done, Goto, OneKey, TypeOK
<1>5. TextsKept'
  BY <1>1 DEF StoreConfig, Done, Goto, TextsKept, TypeOK
<1>6. ConfigTextKept'
  <2> SUFFICES ASSUME "config" \notin lost' PROVE ConfigTextKept'
    BY DEF ConfigTextKept
  <2>1. saw[t] = config /\ "config" \notin lost /\ saw[t] \in Configs \cup {None}
    BY DEF StoreConfig, Reads
  <2>2. config' # None /\ config' = MergeIncoming(t)
    BY <2>1, MergeType DEF StoreConfig
  <2>3. Merged(config)' = MergeIncoming(t)
    BY <2>2 DEF Merged
  <2>4. /\ posted'.shown = form[t].value /\ posted'.hidden = posted.hidden
        /\ posted'.password = IF form[t].secret[Smtp] # None THEN form[t].secret[Smtp]
                              ELSE posted.password
    BY DEF StoreConfig, TypeOK
  <2>5. /\ MergeIncoming(t).shown = form[t].value
        /\ MergeIncoming(t).hidden = posted.hidden
        /\ TextOf(MergeIncoming(t).secret[Smtp]) = posted'.password
    BY <2>1, <2>4, MergeType DEF ConfigTextKept
  <2> QED
    BY <2>3, <2>4, <2>5 DEF ConfigTextKept
<1>7. LayoutAlone'
  BY <1>1 DEF StoreConfig, Done, Goto, LayoutAlone, GetLayout, Drawing, TypeOK
<1> QED
  BY <1>1, <1>2, <1>3, <1>4, <1>5, <1>6, <1>7

LEMMA OpenLayoutStep ==
    ASSUME StoresInv, NEW t \in Threads, NEW f \in LayoutForms, OpenLayout(t, f)
    PROVE  StoresInv'
<1> USE StoresAssumption DEF StoresInv, key_, table, thread, history
<1>1. TypeOK'
  <2>1. f \in Forms
    BY DEF LayoutForms, ConfigForms
  <2>2. Goto(t, "draw", f, None) \/ UNCHANGED <<pc, form, saw>>
    BY DEF OpenLayout
  <2>3. pc' \in [Threads -> Place]
    BY <2>2 DEF Goto, TypeOK, Place
  <2>4. form' \in [Threads -> Forms]
    BY <2>1, <2>2 DEF Goto, TypeOK
  <2>5. saw' \in [Threads -> ProfileRows \cup Configs \cup {None}]
    BY <2>2 DEF Goto, TypeOK
  <2>6. /\ layout' \in Values \cup {None, "empty", "torn"}
        /\ laid' \subseteq Values \cup {None} /\ alone' \subseteq Threads
    BY DEF OpenLayout, TypeOK
  <2>7. left' \in 0..MaxRequests
    BY DEF OpenLayout, Accept, TypeOK
  <2> QED
    BY <2>3, <2>4, <2>5, <2>6, <2>7 DEF OpenLayout, TypeOK
<1>2. DownIdle'
  BY <1>1 DEF OpenLayout, Accept, Goto, DownIdle, TypeOK
<1>3. Reads'
  BY <1>1 DEF OpenLayout, Accept, Goto, Reads, TypeOK
<1>4. OneKey'
  BY <1>1 DEF OpenLayout, Accept, Goto, OneKey, First, TypeOK, Keys
<1>5. TextsKept'
  BY <1>1 DEF OpenLayout, Accept, Goto, TextsKept, TypeOK
<1>6. ConfigTextKept'
  BY <1>1 DEF OpenLayout, Accept, Goto, ConfigTextKept, Merged, TextOf
<1>7. LayoutAlone'
  BY <1>1 DEF OpenLayout, Accept, Goto, LayoutAlone, GetLayout, Drawing, TypeOK
<1> QED
  BY <1>1, <1>2, <1>3, <1>4, <1>5, <1>6, <1>7

LEMMA WriteLayoutStep ==
    ASSUME StoresInv, NEW t \in Threads, WriteLayout(t)
    PROVE  StoresInv'
<1> USE StoresAssumption DEF StoresInv, key_, table, thread, history
<1>1. TypeOK'
  BY DEF WriteLayout, Done, Goto, TypeOK, Place, Keys, NoForm, Forms, Blank
<1>2. DownIdle'
  BY <1>1 DEF WriteLayout, Done, Goto, DownIdle, TypeOK
<1>3. Reads'
  BY <1>1 DEF WriteLayout, Done, Goto, Reads, TypeOK
<1>4. OneKey'
  BY <1>1 DEF WriteLayout, Done, Goto, OneKey, First, TypeOK, Keys
<1>5. TextsKept'
  BY <1>1 DEF WriteLayout, Done, Goto, TextsKept, TypeOK
<1>6. ConfigTextKept'
  BY <1>1 DEF WriteLayout, Done, Goto, ConfigTextKept, Merged, TextOf
<1>7. LayoutAlone'
  BY <1>1 DEF WriteLayout, Done, Goto, LayoutAlone, GetLayout, Drawing, TypeOK, Forms
<1> QED
  BY <1>1, <1>2, <1>3, <1>4, <1>5, <1>6, <1>7

LEMMA FailLayoutStep ==
    ASSUME StoresInv, NEW t \in Threads, FailLayout(t)
    PROVE  StoresInv'
<1> USE StoresAssumption DEF StoresInv, key_, table, thread, history
<1>1. TypeOK'
  BY DEF FailLayout, Done, Goto, TypeOK, Place, Keys, NoForm, Forms, Blank
<1>2. DownIdle'
  BY <1>1 DEF FailLayout, Done, Goto, DownIdle, TypeOK
<1>3. Reads'
  BY <1>1 DEF FailLayout, Done, Goto, Reads, TypeOK
<1>4. OneKey'
  BY <1>1 DEF FailLayout, Done, Goto, OneKey, First, TypeOK, Keys
<1>5. TextsKept'
  BY <1>1 DEF FailLayout, Done, Goto, TextsKept, TypeOK
<1>6. ConfigTextKept'
  BY <1>1 DEF FailLayout, Done, Goto, ConfigTextKept, Merged, TextOf
<1>7. LayoutAlone'
  BY <1>1 DEF FailLayout, Done, Goto, LayoutAlone, GetLayout, Drawing, TypeOK, Forms
<1> QED
  BY <1>1, <1>2, <1>3, <1>4, <1>5, <1>6, <1>7

LEMMA ResetLayoutStep ==
    ASSUME StoresInv, NEW t \in Threads, ResetLayout(t)
    PROVE  StoresInv'
<1> USE StoresAssumption DEF StoresInv, key_, table, thread, history
<1>1. TypeOK'
  BY DEF ResetLayout, Accept, TypeOK, Place, Keys
<1>2. DownIdle'
  BY <1>1 DEF ResetLayout, Accept, DownIdle, TypeOK
<1>3. Reads'
  BY <1>1 DEF ResetLayout, Accept, Reads, TypeOK
<1>4. OneKey'
  BY <1>1 DEF ResetLayout, Accept, OneKey, First, TypeOK, Keys
<1>5. TextsKept'
  BY <1>1 DEF ResetLayout, Accept, TextsKept, TypeOK
<1>6. ConfigTextKept'
  BY <1>1 DEF ResetLayout, Accept, ConfigTextKept, Merged, TextOf
<1>7. LayoutAlone'
  BY <1>1 DEF ResetLayout, Accept, LayoutAlone, GetLayout, Drawing, TypeOK
<1> QED
  BY <1>1, <1>2, <1>3, <1>4, <1>5, <1>6, <1>7

LEMMA InvInit == Init => StoresInv
<1> SUFFICES ASSUME Init PROVE StoresInv
  OBVIOUS
<1> USE StoresAssumption DEF Init
<1>1. TypeOK
  <2>1. 1 \in Keys /\ 1 \in Nat
    BY DEF Keys
  <2>2. NoForm \in Forms
    BY DEF NoForm, Forms, Blank
  <2>3. given \in [Names -> [Fields -> Secrets \cup {None}]]
    BY DEF Nothing
  <2>4. form \in [Threads -> Forms] /\ saw \in [Threads -> ProfileRows \cup Configs \cup {None}]
    BY <2>2
  <2>5. posted \in [shown : Values, hidden : Values, password : Secrets \cup {None}]
    OBVIOUS
  <2>6. keyFile \in Keys /\ key \in Keys /\ keys \in Keys
    BY <2>1
  <2>7. rows \in [Names -> ProfileRows \cup {None}] /\ config \in Configs \cup {None}
    OBVIOUS
  <2>8. up \in BOOLEAN /\ left \in 0..MaxRequests /\ lost \subseteq {"profiles", "config"}
    <3>1. up = FALSE /\ left = MaxRequests /\ lost = {} /\ MaxRequests \in Nat
      OBVIOUS
    <3> HIDE StoresAssumption DEF Init
    <3>2. left \in 0..MaxRequests
      BY <3>1
    <3>3. up \in BOOLEAN /\ lost \subseteq {"profiles", "config"}
      BY <3>1, Zenon
    <3> QED
      BY <3>2, <3>3
  <2>9. pc \in [Threads -> Place] /\ layout \in Values \cup {None, "empty", "torn"}
    BY DEF Place
  <2>10. laid \subseteq Values \cup {None} /\ alone \subseteq Threads
    OBVIOUS
  <2> HIDE DEF Init
  <2> QED
    BY <2>10, <2>3, <2>4, <2>5, <2>6, <2>7, <2>8, <2>9 DEF TypeOK
<1>2. DownIdle /\ Reads /\ OneKey /\ TextsKept /\ LayoutAlone
  BY DEF DownIdle, Reads, OneKey, TextsKept, LayoutAlone, GetLayout, Drawing
<1>3. ConfigTextKept
  BY DEF ConfigTextKept, Merged, TextOf
<1> QED
  BY <1>1, <1>2, <1>3 DEF StoresInv

LEMMA InvStep == StoresInv /\ [Next]_vars => StoresInv'
<1> SUFFICES ASSUME StoresInv, [Next]_vars PROVE StoresInv'
  OBVIOUS
<1>1. ASSUME Boot
      PROVE  StoresInv'
  BY <1>1, BootStep
<1>2. ASSUME Crash
      PROVE  StoresInv'
  BY <1>2, CrashStep
<1>3. ASSUME NEW t \in Threads, NEW f \in ProfileForms, NEW place \in {"save", "delete"}, FindProfile(t, place, f)
      PROVE  StoresInv'
  BY <1>3, FindProfileStep
<1>4. ASSUME NEW t \in Threads, SaveProfile(t)
      PROVE  StoresInv'
  BY <1>4, SaveProfileStep
<1>5. ASSUME NEW t \in Threads, DeleteProfile(t)
      PROVE  StoresInv'
  BY <1>5, DeleteProfileStep
<1>6. ASSUME NEW t \in Threads, NEW f \in ConfigForms, PostConfig(t, f)
      PROVE  StoresInv'
  BY <1>6, PostConfigStep
<1>7. ASSUME NEW t \in Threads, StoreConfig(t)
      PROVE  StoresInv'
  BY <1>7, StoreConfigStep
<1>8. ASSUME NEW t \in Threads, NEW f \in LayoutForms, OpenLayout(t, f)
      PROVE  StoresInv'
  BY <1>8, OpenLayoutStep
<1>9. ASSUME NEW t \in Threads, WriteLayout(t)
      PROVE  StoresInv'
  BY <1>9, WriteLayoutStep
<1>10. ASSUME NEW t \in Threads, ResetLayout(t)
      PROVE  StoresInv'
  BY <1>10, ResetLayoutStep
<1>11. ASSUME NEW t \in Threads, FailLayout(t)
      PROVE  StoresInv'
  BY <1>11, FailLayoutStep
<1>12. CASE UNCHANGED vars
  BY <1>12 DEF vars, key_, table, thread, history, StoresInv, TypeOK, DownIdle, Reads, OneKey, TextsKept,
     ConfigTextKept, LayoutAlone, GetLayout, Drawing, Merged
<1>13. \A f : f \in DeleteForms => f \in ProfileForms
  BY DEF DeleteForms
<1> QED
  BY <1>1, <1>2, <1>3, <1>4, <1>5, <1>6, <1>7, <1>8, <1>9, <1>10, <1>11, <1>12, <1>13 DEF Next, Request

LEMMA Invariance == Spec => []StoresInv
BY InvInit, InvStep, PTL DEF Spec

-----------------------------------------------------------------------------
\* Every variable keeps its type.
THEOREM TypeCorrect == Spec => []TypeOK
<1>1. StoresInv => TypeOK
  BY DEF StoresInv
<1> QED
  BY <1>1, Invariance, PTL

\* A profile resolves to the secret last typed for it, however saves, deletions
\* and restarts interleave.
THEOREM SecretsAreKept == Spec => []SecretKept
<1>1. StoresInv => SecretKept
  <2> SUFFICES ASSUME StoresInv, keys = 1, "profiles" \notin lost,
                      NEW n \in Names, rows[n] # None, NEW f \in Fields
               PROVE  Resolve(n, f) = given[n][f]
    BY DEF SecretKept
  <2>1. TextOf(rows[n].secret[f]) = given[n][f]
    BY DEF StoresInv, TextsKept
  <2>2. key = 1 /\ (rows[n].secret[f] # None => rows[n].secret[f].key = 1)
    BY DEF StoresInv, OneKey, First
  <2> QED
    BY <2>1, <2>2 DEF Resolve, Decrypt, TextOf
<1> QED
  BY <1>1, Invariance, PTL

\* Without overlapping saves the configuration is the one last posted.
THEOREM ConfigIsKept == Spec => []ConfigKept
<1>1. StoresInv => ConfigKept
  <2> SUFFICES ASSUME StoresInv, keys = 1, "config" \notin lost, config # None
               PROVE  /\ config.shown = posted.shown /\ config.hidden = posted.hidden
                      /\ SmtpPassword = posted.password
    BY DEF ConfigKept
  <2>1. key = 1 /\ (config.secret[Smtp] # None => config.secret[Smtp].key = 1)
    BY DEF StoresInv, OneKey, First
  <2> QED
    BY <2>1 DEF StoresInv, ConfigTextKept, Merged, SmtpPassword, Decrypt, TextOf
<1> QED
  BY <1>1, Invariance, PTL

\* An answered save that had the file to itself is served from then on; after
\* another save or reset a GET gives nothing, it, or what was saved since.
THEOREM LayoutIsKept == Spec => []LayoutKept
<1>1. StoresInv => LayoutKept
  BY DEF StoresInv, LayoutAlone, LayoutKept
<1> QED
  BY <1>1, Invariance, PTL

\* A boot changes no row that is there.
THEOREM RowsSurviveBoot == Spec => BootKeepsRows
<1> DEFINE Kept == ~up => /\ \A n \in Names : rows[n] # None => rows'[n] = rows[n]
                          /\ config # None => config' = config
<1>1. StoresInv /\ [Next]_vars => [Kept]_vars
  <2> SUFFICES ASSUME StoresInv, Next, ~up PROVE Kept
    OBVIOUS
  <2>1. CASE Boot
    BY <2>1 DEF Boot, ImportProfiles, ImportConfig
  <2>2. CASE Crash
    BY <2>2 DEF Crash
  <2>3. ASSUME NEW t \in Threads, Request(t)
        PROVE  FALSE
    BY <2>3 DEF Request, FindProfile, PostConfig, OpenLayout, ResetLayout, Accept
  <2>4. ASSUME NEW t \in Threads,
               \/ SaveProfile(t) \/ DeleteProfile(t) \/ StoreConfig(t)
               \/ WriteLayout(t) \/ FailLayout(t)
        PROVE  FALSE
    BY <2>4 DEF StoresInv, DownIdle, SaveProfile, DeleteProfile, StoreConfig, WriteLayout,
                  FailLayout
  <2> QED
    BY <2>1, <2>2, <2>3, <2>4 DEF Next
<1>2. BootKeepsRows <=> [][Kept]_vars
  BY PTL DEF BootKeepsRows, Kept
<1> QED
  BY <1>1, <1>2, Invariance, PTL DEF Spec
=============================================================================
