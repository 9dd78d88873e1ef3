------------------------------ MODULE MCDaily -------------------------------
(***************************************************************************)
(* Two tenants of one controller with one switch: the daily report, and    *)
(* what happens to a tick when the connection changes hands under it.      *)
(***************************************************************************)
EXTENDS NotifyScheduler

CONSTANTS sw1, c1, t1, t2

MCKindOf == [d \in {sw1} |-> "switch"]
MCDevicesOf == [c \in {c1} |-> {sw1}]

MCConfigs ==
    {[alerts |-> TRUE, check |-> 1, debounce |-> 2, recovery |-> TRUE,
      threshold |-> 1, report |-> TRUE]}
=============================================================================
