------------------------------ MODULE MCOutage ------------------------------
(***************************************************************************)
(* One tenant, one controller, an access point and a switch: the outage    *)
(* path of the daemon, with crashes, reconnects and failing fetches.       *)
(***************************************************************************)
EXTENDS NotifyScheduler

CONSTANTS ap1, sw1, c1, t1

MCKindOf == [d \in {ap1, sw1} |-> IF d = ap1 THEN "ap" ELSE "switch"]
MCDevicesOf == [c \in {c1} |-> {ap1, sw1}]

\* A debounced configuration with recoveries, and one without debounce that
\* mails outages only in pairs.
MCConfigs ==
    {[alerts |-> TRUE, check |-> 1, debounce |-> 2, recovery |-> TRUE,
      threshold |-> 1, report |-> FALSE],
     [alerts |-> TRUE, check |-> 1, debounce |-> 0, recovery |-> FALSE,
      threshold |-> 2, report |-> FALSE]}
\* Where nothing is debounced there are no windows to go wrong.
MCDebounced == {c \in MCConfigs : c.debounce > 0}
=============================================================================
