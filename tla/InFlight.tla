------------------------------ MODULE InFlight ------------------------------
(***************************************************************************)
(* InFlightDeduper of infra/inflight.py: threads that call run(key, fn)    *)
(* while a call of the same key is under way wait on its slot and share    *)
(* its result.  A slot is a Python object: it lives while some thread or   *)
(* _inflight refers to it, so any slot without references may be the one a *)
(* thread creates next.                                                    *)
(***************************************************************************)
EXTENDS FiniteSets

CONSTANTS Threads, Keys, Slots, None

\* None is no slot, no key and no record.
ASSUME InFlightAssumption ==
    /\ None \notin Slots /\ None \notin Keys
    /\ None \notin [key : Keys, told : {"pending", "ok", "error"}]

VARIABLES
    inflight,   \* _inflight: the slot registered under each key, or None
    result,     \* what a slot holds: nothing yet, a value, an exception
    event,      \* the event of a slot is set
    pc,         \* where each thread is in run()
    key, slot,  \* its locals
    \* History variable, read by properties only.
    delivered   \* slots whose result some call already returned

vars == <<inflight, result, event, pc, key, slot, delivered>>

-----------------------------------------------------------------------------
Init ==
    /\ inflight = [k \in Keys |-> None]
    /\ result = [s \in Slots |-> "none"]
    /\ event = [s \in Slots |-> FALSE]
    /\ pc = [t \in Threads |-> "idle"]
    /\ key = [t \in Threads |-> None]
    /\ slot = [t \in Threads |-> None]
    /\ delivered = {}

Free == {s \in Slots : \A t \in Threads : slot[t] # s}

Lookup_Misses(k) == None
Lookup(k) == inflight[k]

\* Both halves of the locked section: join the call under way ...
Join(t, k) ==
    /\ pc[t] = "idle"
    /\ Lookup(k) # None
    /\ pc' = [pc EXCEPT ![t] = "wait"]
    /\ key' = [key EXCEPT ![t] = k]
    /\ slot' = [slot EXCEPT ![t] = inflight[k]]
    /\ UNCHANGED <<inflight, result, event, delivered>>

\* ... or become the owner of a new one.
Own(t, k) ==
    /\ pc[t] = "idle"
    /\ Lookup(k) = None
    /\ \E s \in Free :
          /\ inflight' = [inflight EXCEPT ![k] = s]
          /\ slot' = [slot EXCEPT ![t] = s]
          /\ result' = [result EXCEPT ![s] = "none"]
          /\ event' = [event EXCEPT ![s] = FALSE]
          /\ delivered' = delivered \ {s}
    /\ pc' = [pc EXCEPT ![t] = "fn"]
    /\ key' = [key EXCEPT ![t] = k]

FnEnds_SetsEvent(t) ==
    /\ pc[t] = "fn"
    /\ \E r \in {"ok", "error"} : result' = [result EXCEPT ![slot[t]] = r]
    /\ event' = [event EXCEPT ![slot[t]] = TRUE]
    /\ pc' = [pc EXCEPT ![t] = "pop"]
    /\ UNCHANGED <<inflight, key, slot, delivered>>

\* fn returns or raises, and the slot keeps which.
FnEnds(t) ==
    /\ pc[t] = "fn"
    /\ \E r \in {"ok", "error"} : result' = [result EXCEPT ![slot[t]] = r]
    /\ pc' = [pc EXCEPT ![t] = "pop"]
    /\ UNCHANGED <<inflight, event, key, slot, delivered>>

Pop_OnSuccess(t) ==
    /\ pc[t] = "pop"
    /\ inflight' = IF result[slot[t]] = "ok"
                     THEN [inflight EXCEPT ![key[t]] = None] ELSE inflight
    /\ pc' = [pc EXCEPT ![t] = "set"]
    /\ UNCHANGED <<result, event, key, slot, delivered>>

Pop(t) ==
    /\ pc[t] = "pop"
    /\ inflight' = [inflight EXCEPT ![key[t]] = None]
    /\ pc' = [pc EXCEPT ![t] = "set"]
    /\ UNCHANGED <<result, event, key, slot, delivered>>

SetEvent_OnSuccess(t) ==
    /\ pc[t] = "set"
    /\ event' = [event EXCEPT ![slot[t]] = (result[slot[t]] = "ok")]
    /\ pc' = [pc EXCEPT ![t] = "return"]
    /\ UNCHANGED <<inflight, result, key, slot, delivered>>

SetEvent(t) ==
    /\ pc[t] = "set"
    /\ event' = [event EXCEPT ![slot[t]] = TRUE]
    /\ pc' = [pc EXCEPT ![t] = "return"]
    /\ UNCHANGED <<inflight, result, key, slot, delivered>>

\* A waiter passes the event.
Awake(t) ==
    /\ pc[t] = "wait"
    /\ event[slot[t]]
    /\ pc' = [pc EXCEPT ![t] = "return"]
    /\ UNCHANGED <<inflight, result, event, key, slot, delivered>>

\* Owner and waiters alike return the value of the slot or raise its exception.
Return(t) ==
    /\ pc[t] = "return"
    /\ delivered' = delivered \cup {slot[t]}
    /\ pc' = [pc EXCEPT ![t] = "idle"]
    /\ key' = [key EXCEPT ![t] = None]
    /\ slot' = [slot EXCEPT ![t] = None]
    /\ UNCHANGED <<inflight, result, event>>

Proceed(t) == Pop(t) \/ SetEvent(t) \/ Awake(t) \/ Return(t)

Next ==
    \E t \in Threads :
        \/ \E k \in Keys : Join(t, k) \/ Own(t, k)
        \/ FnEnds(t)
        \/ Proceed(t)

\* A thread that can go on does.  No call has to be made, and no fn to end.
Spec == Init /\ [][Next]_vars /\ \A t \in Threads : WF_vars(Proceed(t))

-----------------------------------------------------------------------------
(* Properties *)

TypeOK ==
    /\ inflight \in [Keys -> Slots \cup {None}]
    /\ result \in [Slots -> {"none", "ok", "error"}]
    /\ event \in [Slots -> BOOLEAN]
    /\ pc \in [Threads -> {"idle", "fn", "pop", "set", "wait", "return"}]
    /\ key \in [Threads -> Keys \cup {None}]
    /\ slot \in [Threads -> Slots \cup {None}]
    /\ delivered \subseteq Slots
    /\ \A t \in Threads : IF pc[t] = "idle"
                            THEN key[t] = None /\ slot[t] = None
                            ELSE key[t] # None /\ slot[t] # None

\* Two threads never run the fn of the same key at the same time.
OneFlight ==
    \A t, u \in Threads :
        pc[t] = "fn" /\ pc[u] = "fn" /\ key[t] = key[u] => t = u

\* A call that starts after another one returned never gets the result the
\* other one got: the registration is cleared before anybody is told.
LateCallsRunAfresh ==
    \A k \in Keys : inflight[k] \notin delivered

\* Seen by its callers, the deduper is single flight: a caller is told the
\* moment the registration of its slot is cleared.
Told(t) == IF inflight[key[t]] = slot[t] THEN "pending" ELSE result[slot[t]]

Flights == INSTANCE SingleFlight WITH
    seat <- [t \in Threads |->
                IF pc[t] = "idle" THEN None
                ELSE [key |-> key[t], told |-> Told(t)]]

IsSingleFlight == Flights!Spec

\* Once the fn of its slot has ended, every call returns, whether fn returned
\* or raised and however many calls of the key follow.
AnsweredCallsReturn ==
    \A t \in Threads :
        (pc[t] # "idle" /\ result[slot[t]] # "none") ~> (pc[t] = "idle")
=============================================================================
