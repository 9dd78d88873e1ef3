------------------------------- MODULE MCFetch -------------------------------
EXTENDS ControllerFetch

CONSTANTS z1, z2, z3, g1, g2

MCJobs == {"zones", "aps", "clients", "wlans", "firmware", "alarms", "switches",
           "stack", "vlans", "rogues", "security", "controller", "switch", "traffic",
           "inventory", "operational", "topology"}

\* Two zones, one AP in none; every class of status word; two SSIDs; a
\* client that names no site; a stack of three
\* units and one of two switches, of which one is in a group; a VLAN on two.
MCRow(list, i) ==
    CASE list = "rkszones" ->
            [id |-> i, catalog |-> <<[version |-> 2, supported |-> TRUE],
                                     [version |-> 3, supported |-> i = z1]>>]
      [] list = "ap" ->
            [id |-> i, zone |-> <<z1, z2, z1, None>>[i],
             raw |-> <<"offline", "disconnect", "online", "odd">>[i]]
      [] list = "client" ->
            [id |-> i, ap |-> <<1, 1, 2, None>>[i], rssi |-> <<-60, -81, 0, 14>>[i],
             zone |-> <<z1, None, None, z2>>[i], ssid |-> <<"s1", "s2", "s3", "s1">>[i]]
      [] list = "wlan" ->
            [id |-> i, zone |-> <<z1, z2, None, z1>>[i],
             ssid |-> <<"s1", "s2", "s2", "s1">>[i], clients |-> <<0, 3, 0, 0>>[i]]
      [] list = "switch" ->
            [id |-> i, group |-> <<g1, g1, None, g2>>[i], stack |-> <<None, None, 1, 1>>[i],
             raw |-> <<"approved", "offline", "flagged", "online">>[i],
             units |-> <<1, 3, 1, 1>>[i], fw |-> i,
             watts |-> 4, free |-> <<0, 6, 3, 4>>[i]]
      [] list = "rogue" -> [class |-> <<"known", "odd", "rogue", "malicious">>[i]]
      [] list = "traffic" -> [id |-> i]
      [] list = "vlan" ->
            [vlan |-> <<1, 1, 2, 1>>[i], group |-> <<g1, None, g1, g2>>[i],
             ports |-> <<2, 0, 1, 4>>[i]]
      [] list = "alarm" ->
            [source |-> i, severity |-> <<"major", "odd", "critical", "minor">>[i],
             count |-> <<1, 3, 1, 2>>[i]]

\* No page, a full one, and one that is not full behind it.  Lists that are
\* read one beside the other begin empty or longer than a page.
MCInitial(list) ==
    CASE list = "rkszones" -> {<<>>, <<z1, z2, z3>>}
      [] list \in {"ap", "client", "wlan", "alarm"} -> {<<>>, <<3, 1, 4>>}
      [] OTHER -> {<<>>, <<1, 2>>, <<3, 1, 4>>}
=============================================================================
