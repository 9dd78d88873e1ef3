----------------------------- MODULE MCDashboard -----------------------------
(* The list of clients: two with a poor signal, one of them without a signal  *)
(* and an AP, and a good one.  The table has room for two, the grid for one.  *)
EXTENDS Dashboard, TLC

CONSTANTS poor, good, ap1

MCContents == {{1, 2, 3}, {3}}
MCGone == {{3}}
MCRow ==
    <<[quality |-> poor, ap |-> ap1, signal |-> -80],
      [quality |-> poor, ap |-> Empty, signal |-> Empty],
      [quality |-> good, ap |-> ap1, signal |-> -60]>>
MCValue(r, k) == MCRow[r][k]
MCClicks(t) == IF t = "poor_signal" THEN "quality" :> poor ELSE <<>>
MCOrder(r) == r
MCCap(v) == IF v = "table" THEN 2 ELSE 1
MCBounds == {-75}
MCPoor == <<"quality", poor>>
=============================================================================
