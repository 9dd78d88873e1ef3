---------------------------- MODULE SingleFlight ----------------------------
(***************************************************************************)
(* What deduplication promises, without slots, events or locks: callers of *)
(* a key board a flight, the flight lands once and hands one result to all *)
(* who are aboard at that moment, and nobody boards it afterwards.         *)
(***************************************************************************)
CONSTANTS Threads, Keys, None

VARIABLE seat   \* for each caller None, or its key and what it has been told

Results == {"ok", "error"}

Seat == [key : Keys, told : Results \cup {"pending"}]

Init == seat = [t \in Threads |-> None]

Aboard(k) == {t \in Threads : seat[t] = [key |-> k, told |-> "pending"]}

Board(t, k) ==
    /\ seat[t] = None
    /\ seat' = [seat EXCEPT ![t] = [key |-> k, told |-> "pending"]]

Land(k, r) ==
    /\ Aboard(k) # {}
    /\ seat' = [t \in Threads |->
                   IF t \in Aboard(k) THEN [key |-> k, told |-> r] ELSE seat[t]]

Return(t) ==
    /\ \E k \in Keys, r \in Results : seat[t] = [key |-> k, told |-> r]
    /\ seat' = [seat EXCEPT ![t] = None]

Next ==
    \/ \E t \in Threads : Return(t) \/ \E k \in Keys : Board(t, k)
    \/ \E k \in Keys, r \in Results : Land(k, r)

flightVars == <<seat>>

Spec == Init /\ [][Next]_flightVars
=============================================================================
