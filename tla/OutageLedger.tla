---------------------------- MODULE OutageLedger ----------------------------
(***************************************************************************)
(* What outage alerting promises, without ticks, windows, files or         *)
(* connections: a ledger holds one committed state per device, an alert is *)
(* created by the very step that flips the committed state and by no       *)
(* other, leaves in one mail with the others of its step, and is never     *)
(* created again for the same flip, whatever happens to the mail.          *)
(***************************************************************************)
CONSTANT Devices

VARIABLES committed,    \* the recorded state of each device
          outbox        \* alerts recorded and not yet handed to the mailer

ledgerVars == <<committed, outbox>>

States == {"untracked", "online", "offline"}

Init ==
    /\ committed = [d \in Devices |-> "untracked"]
    /\ outbox = {}

FlipsTo(s, old, new) ==
    {[key |-> d, kind |-> s] :
        d \in {x \in Devices : /\ old[x] # "untracked"
                               /\ old[x] # s
                               /\ new[x] = s}}

\* A tracked device stays tracked.  The outages of a step are announced all
\* together or not at all (the batch may be too small), and so are recoveries.
Record(new) ==
    /\ outbox = {}
    /\ \A d \in Devices : committed[d] # "untracked" => new[d] # "untracked"
    /\ committed' = new
    /\ \E out \in {{}, FlipsTo("offline", committed, new)},
          back \in {{}, FlipsTo("online", committed, new)} :
              outbox' = out \cup back

\* Handed to the mailer, or lost with the process: either way not kept.
Empty ==
    /\ outbox' = {}
    /\ UNCHANGED committed

Next == Empty \/ \E new \in [Devices -> States] : Record(new)

Spec == Init /\ [][Next]_ledgerVars
=============================================================================
