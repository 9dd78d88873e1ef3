--------------------------- MODULE InFlightProofs ---------------------------
(***************************************************************************)
(* Theorems about the deduper, for any threads, keys and slots.            *)
(***************************************************************************)
EXTENDS InFlight, TLAPS

\* A thread owns its slot from the section that created it until it has told
\* the waiters; the slot is registered as long as the thread is in Owning.
Owning == {"fn", "pop"}

\* Every registered slot has an owner, who will clear the registration.
HasOwner ==
    \A k \in Keys : inflight[k] # None =>
        \E t \in Threads :
            pc[t] \in Owning /\ key[t] = k /\ slot[t] = inflight[k]

\* Of the threads that share a slot one at most owns it, all have its key.
Shared ==
    \A t, u \in Threads :
        pc[t] # "idle" /\ pc[u] # "idle" /\ slot[t] = slot[u] =>
            /\ key[t] = key[u]
            /\ pc[t] \in Owning \cup {"set"} /\ pc[u] \in Owning \cup {"set"}
                   => t = u

Unregistered(s) == \A k \in Keys : inflight[k] # s

\* What each place in run() says of the slot the thread holds there.
Place(t) ==
    /\ pc[t] \in Owning => inflight[key[t]] = slot[t]
    /\ pc[t] = "fn" => result[slot[t]] = "none"
    /\ pc[t] \in {"pop", "set", "return"} => result[slot[t]] # "none"
    /\ pc[t] \in {"set", "return"} => Unregistered(slot[t])
    /\ pc[t] = "wait" => \/ inflight[key[t]] = slot[t]
                         \/ result[slot[t]] # "none"
    /\ pc[t] # "idle" /\ event[slot[t]] =>
           Unregistered(slot[t]) /\ result[slot[t]] # "none"

Places == \A t \in Threads : Place(t)

FlightInv ==
    /\ TypeOK
    /\ HasOwner
    /\ Shared
    /\ Places
    /\ LateCallsRunAfresh

-----------------------------------------------------------------------------
(* The invariant *)

LEMMA FlightInvInit == Init => FlightInv
  BY InFlightAssumption
  DEF Init, FlightInv, TypeOK, HasOwner, Shared, Places, Place,
      LateCallsRunAfresh, Owning

LEMMA TypeStep == TypeOK /\ [Next]_vars => TypeOK'
<1> SUFFICES ASSUME TypeOK, [Next]_vars PROVE TypeOK'
  OBVIOUS
<1>1. ASSUME NEW t \in Threads, NEW k \in Keys, Join(t, k) PROVE TypeOK'
  BY <1>1, InFlightAssumption DEF TypeOK, Join, Lookup
<1>2. ASSUME NEW t \in Threads, NEW k \in Keys, Own(t, k) PROVE TypeOK'
  <2>1. PICK s \in Slots :
            /\ inflight' = [inflight EXCEPT ![k] = s]
            /\ slot' = [slot EXCEPT ![t] = s]
            /\ result' = [result EXCEPT ![s] = "none"]
            /\ event' = [event EXCEPT ![s] = FALSE]
            /\ delivered' = delivered \ {s}
    BY <1>2 DEF Own, Free
  <2>2. inflight' \in [Keys -> Slots \cup {None}] /\ slot' \in [Threads -> Slots \cup {None}]
    BY <2>1 DEF TypeOK
  <2>3. pc' = [pc EXCEPT ![t] = "fn"] /\ key' = [key EXCEPT ![t] = k]
    BY <1>2 DEF Own
  <2>4. result' \in [Slots -> {"none", "ok", "error"}] /\ event' \in [Slots -> BOOLEAN]
    BY <2>1 DEF TypeOK
  <2>5. \A u \in Threads : IF pc'[u] = "idle" THEN key'[u] = None /\ slot'[u] = None
                                              ELSE key'[u] # None /\ slot'[u] # None
    BY <2>1, <2>3, InFlightAssumption DEF TypeOK
  <2> QED
    BY <2>1, <2>2, <2>3, <2>4, <2>5 DEF TypeOK
<1>3. ASSUME NEW t \in Threads, FnEnds(t) PROVE TypeOK'
  <2>1. /\ result' \in [Slots -> {"none", "ok", "error"}]
        /\ pc[t] = "fn" /\ pc' = [pc EXCEPT ![t] = "pop"]
        /\ UNCHANGED <<inflight, event, key, slot, delivered>>
    BY <1>3 DEF TypeOK, FnEnds
  <2> QED
    BY <2>1 DEF TypeOK
<1>4. ASSUME NEW t \in Threads, Pop(t) \/ SetEvent(t) \/ Awake(t) PROVE TypeOK'
  <2>1. /\ inflight' \in [Keys -> Slots \cup {None}]
        /\ event' \in [Slots -> BOOLEAN]
    BY <1>4 DEF TypeOK, Pop, SetEvent, Awake
  <2>2. /\ pc[t] # "idle"
        /\ \E to \in {"set", "return"} : pc' = [pc EXCEPT ![t] = to]
        /\ UNCHANGED <<result, key, slot, delivered>>
    BY <1>4 DEF Pop, SetEvent, Awake
  <2> QED
    BY <2>1, <2>2 DEF TypeOK
<1>5. ASSUME NEW t \in Threads, Return(t) PROVE TypeOK'
  BY <1>5 DEF TypeOK, Return
<1>6. CASE UNCHANGED vars
  BY <1>6 DEF TypeOK, vars
<1> QED
  BY <1>1, <1>2, <1>3, <1>4, <1>5, <1>6 DEF Next, Proceed

\* A slot nobody holds is not registered.
LEMMA FreeIsUnregistered ==
    ASSUME FlightInv, NEW s \in Free
    PROVE  Unregistered(s)
  BY InFlightAssumption DEF FlightInv, HasOwner, Free, Unregistered, TypeOK

LEMMA OwnStep ==
    ASSUME FlightInv, NEW t \in Threads, NEW k \in Keys, Own(t, k)
    PROVE  FlightInv'
<1>0. TypeOK /\ TypeOK'
  BY TypeStep DEF FlightInv, Next
<1>1. PICK s \in Free :
          /\ inflight' = [inflight EXCEPT ![k] = s]
          /\ slot' = [slot EXCEPT ![t] = s]
          /\ result' = [result EXCEPT ![s] = "none"]
          /\ event' = [event EXCEPT ![s] = FALSE]
          /\ delivered' = delivered \ {s}
  BY DEF Own
<1>2. /\ pc[t] = "idle" /\ inflight[k] = None
      /\ pc' = [pc EXCEPT ![t] = "fn"] /\ key' = [key EXCEPT ![t] = k]
  BY DEF Own, Lookup
<1>3. /\ Unregistered(s) /\ s \in Slots /\ s # None
      /\ \A u \in Threads : slot[u] # s
  BY FreeIsUnregistered, InFlightAssumption DEF Free
<1>4. \A u \in Threads \ {t} : slot'[u] = slot[u] /\ pc'[u] = pc[u]
                               /\ key'[u] = key[u] /\ slot[u] # s
  BY <1>0, <1>1, <1>2, <1>3 DEF TypeOK
<1>5. slot'[t] = s /\ pc'[t] = "fn" /\ key'[t] = k
  BY <1>0, <1>1, <1>2 DEF TypeOK
<1>6. inflight'[k] = s /\ \A j \in Keys \ {k} : inflight'[j] = inflight[j]
  BY <1>0, <1>1 DEF TypeOK
<1>7. HasOwner'
  <2> SUFFICES ASSUME NEW j \in Keys, inflight'[j] # None
               PROVE  \E u \in Threads : pc'[u] \in Owning /\ key'[u] = j
                                         /\ slot'[u] = inflight'[j]
    BY DEF HasOwner
  <2>1. CASE j = k
    BY <1>5, <1>6, <2>1 DEF Owning
  <2>2. CASE j # k
    <3>1. PICK u \in Threads : pc[u] \in Owning /\ key[u] = j
                               /\ slot[u] = inflight[j]
      BY <1>6, <2>2 DEF FlightInv, HasOwner
    <3>2. u # t
      BY <1>2, <3>1 DEF Owning
    <3> QED
      BY <1>4, <1>6, <2>2, <3>1, <3>2
  <2> QED
    BY <2>1, <2>2
<1>8. Shared'
  BY <1>4, <1>5 DEF FlightInv, Shared
<1>9. ASSUME NEW u \in Threads PROVE Place(u)'
  <2>1. CASE u = t
    BY <1>0, <1>1, <1>3, <1>5, <1>6, <2>1 DEF Place, Owning, TypeOK
  <2>2. CASE u # t
    <3>1. Place(u) /\ (pc[u] # "idle" => key[u] \in Keys /\ slot[u] \in Slots)
      BY <1>0 DEF FlightInv, Places, TypeOK
    <3>2. pc[u] # "idle" => result'[slot[u]] = result[slot[u]]
                            /\ event'[slot[u]] = event[slot[u]]
      BY <1>0, <1>1, <1>4, <2>2, <3>1 DEF TypeOK
    <3>3. Unregistered(slot[u]) => \A j \in Keys : inflight'[j] # slot[u]
      BY <1>4, <1>6, <2>2 DEF Unregistered
    <3>4. pc[u] # "idle" /\ inflight[key[u]] = slot[u] => key[u] # k
      BY <1>2, <3>1, InFlightAssumption
    <3> QED
      BY <1>4, <1>6, <2>2, <3>1, <3>2, <3>3, <3>4
      DEF Place, Unregistered, Owning
  <2> QED
    BY <2>1, <2>2
<1>10. LateCallsRunAfresh'
  BY <1>1, <1>3, <1>6 DEF FlightInv, LateCallsRunAfresh, Unregistered
<1> QED
  BY <1>0, <1>7, <1>8, <1>9, <1>10 DEF FlightInv, Places

LEMMA JoinStep ==
    ASSUME FlightInv, NEW t \in Threads, NEW k \in Keys, Join(t, k)
    PROVE  FlightInv'
<1>0. TypeOK /\ TypeOK'
  BY TypeStep DEF FlightInv, Next
<1>1. /\ pc[t] = "idle" /\ inflight[k] # None
      /\ slot'[t] = inflight[k] /\ key'[t] = k /\ pc'[t] = "wait"
      /\ UNCHANGED <<inflight, result, event, delivered>>
      /\ \A u \in Threads \ {t} : /\ slot'[u] = slot[u]
                                  /\ key'[u] = key[u] /\ pc'[u] = pc[u]
  BY <1>0 DEF Join, Lookup, TypeOK
<1>2. PICK o \in Threads : pc[o] \in Owning /\ key[o] = k
                           /\ slot[o] = inflight[k]
  BY <1>1 DEF FlightInv, HasOwner
<1>3. o # t /\ pc[o] # "idle"
  BY <1>1, <1>2 DEF Owning
<1>4. HasOwner'
  <2> SUFFICES ASSUME NEW j \in Keys, inflight[j] # None
               PROVE  \E u \in Threads : pc'[u] \in Owning /\ key'[u] = j
                                         /\ slot'[u] = inflight[j]
    BY <1>1 DEF HasOwner
  <2>1. PICK u \in Threads : pc[u] \in Owning /\ key[u] = j
                             /\ slot[u] = inflight[j]
    BY DEF FlightInv, HasOwner
  <2> QED
    BY <1>1, <2>1 DEF Owning
<1>5. Shared'
  BY <1>1, <1>2, <1>3 DEF FlightInv, Shared, Owning
<1>6. \A u \in Threads : Place(u)'
  <2>1. ~event[inflight[k]]
    BY <1>2, <1>3 DEF FlightInv, Places, Place, Unregistered
  <2> QED
    BY <1>1, <2>1 DEF FlightInv, Places, Place, Unregistered, Owning
<1> QED
  BY <1>0, <1>1, <1>4, <1>5, <1>6
  DEF FlightInv, Places, LateCallsRunAfresh

LEMMA FnEndsStep ==
    ASSUME FlightInv, NEW t \in Threads, FnEnds(t)
    PROVE  FlightInv'
<1>0. TypeOK /\ TypeOK'
  BY TypeStep DEF FlightInv, Next
<1>1. PICK r \in {"ok", "error"} : result' = [result EXCEPT ![slot[t]] = r]
  BY DEF FnEnds
<1>2. /\ pc[t] = "fn" /\ pc'[t] = "pop"
      /\ UNCHANGED <<inflight, event, key, slot, delivered>>
      /\ \A u \in Threads \ {t} : pc'[u] = pc[u]
  BY <1>0 DEF FnEnds, TypeOK
<1>3. slot[t] \in Slots /\ result'[slot[t]] = r
  BY <1>0, <1>1, <1>2 DEF TypeOK
<1>4. \A u \in Threads : slot[u] # slot[t] => result'[slot[u]] = result[slot[u]]
  BY <1>0, <1>1, <1>2 DEF TypeOK
<1>5. HasOwner' /\ Shared'
  BY <1>2 DEF FlightInv, HasOwner, Shared, Owning
<1>6. ASSUME NEW u \in Threads PROVE Place(u)'
  <2>1. Place(u) /\ Place(t)
    BY DEF FlightInv, Places
  <2>2. u # t /\ slot[u] = slot[t] => pc[u] # "fn"
    BY <1>2 DEF FlightInv, Shared, Owning
  <2>3. result'[slot[u]] = result[slot[u]]
        \/ (slot[u] = slot[t] /\ result'[slot[u]] \in {"ok", "error"})
    BY <1>3, <1>4
  <2> QED
    BY <1>2, <2>1, <2>2, <2>3, <1>3 DEF Place, Owning, Unregistered
<1> QED
  BY <1>0, <1>2, <1>5, <1>6 DEF FlightInv, Places, LateCallsRunAfresh

LEMMA PopStep ==
    ASSUME FlightInv, NEW t \in Threads, Pop(t)
    PROVE  FlightInv'
<1>0. TypeOK /\ TypeOK'
  BY TypeStep DEF FlightInv, Next, Proceed
<1>1. /\ pc[t] = "pop" /\ pc'[t] = "set"
      /\ inflight' = [inflight EXCEPT ![key[t]] = None]
      /\ UNCHANGED <<result, event, key, slot, delivered>>
      /\ \A u \in Threads \ {t} : pc'[u] = pc[u]
  BY <1>0 DEF Pop, TypeOK
<1>2. /\ key[t] \in Keys /\ slot[t] \in Slots /\ slot[t] # None
      /\ inflight'[key[t]] = None
      /\ \A k \in Keys \ {key[t]} : inflight'[k] = inflight[k]
  BY <1>0, <1>1, InFlightAssumption DEF TypeOK
<1>3. inflight[key[t]] = slot[t] /\ result[slot[t]] # "none"
  BY <1>1 DEF FlightInv, Places, Place, Owning
<1>4. \A u \in Threads : u # t /\ pc[u] \in Owning => slot[u] # slot[t]
  BY <1>1 DEF FlightInv, Shared, Owning
<1>5. Unregistered(slot[t])'
  <2> SUFFICES ASSUME NEW k \in Keys, k # key[t], inflight[k] = slot[t]
               PROVE  FALSE
    BY <1>1, <1>2 DEF Unregistered
  <2>1. PICK u \in Threads : pc[u] \in Owning /\ key[u] = k
                             /\ slot[u] = slot[t]
    BY <1>2 DEF FlightInv, HasOwner
  <2> QED
    BY <1>4, <2>1
<1>6. HasOwner'
  <2> SUFFICES ASSUME NEW k \in Keys, inflight'[k] # None
               PROVE  \E u \in Threads : pc'[u] \in Owning /\ key'[u] = k
                                         /\ slot'[u] = inflight'[k]
    BY DEF HasOwner
  <2>1. k # key[t] /\ inflight'[k] = inflight[k]
    BY <1>2
  <2>2. PICK u \in Threads : pc[u] \in Owning /\ key[u] = k
                             /\ slot[u] = inflight[k]
    BY <2>1 DEF FlightInv, HasOwner
  <2> QED
    BY <1>1, <2>1, <2>2
<1>7. Shared'
  BY <1>1 DEF FlightInv, Shared, Owning
<1>8. ASSUME NEW u \in Threads PROVE Place(u)'
  <2>1. CASE u = t
    BY <1>1, <1>3, <1>5, <2>1 DEF Place, Owning
  <2>2. CASE u # t
    <3>1. Place(u) /\ (pc[u] # "idle" => key[u] \in Keys /\ slot[u] \in Slots)
      BY <1>0 DEF FlightInv, Places, TypeOK
    <3>2. pc[u] # "idle" /\ slot[u] # slot[t] /\ inflight[key[u]] = slot[u]
              => inflight'[key[u]] = slot[u]
      BY <1>2, <1>3, <3>1
    <3>3. Unregistered(slot[u]) /\ pc[u] # "idle"
              => \A k \in Keys : inflight'[k] # slot[u]
      BY <1>2, <3>1, InFlightAssumption DEF Unregistered
    <3>4. slot[u] = slot[t] => /\ \A k \in Keys : inflight'[k] # slot[u]
                               /\ result[slot[u]] # "none"
                               /\ pc[u] \notin Owning
      BY <1>1, <1>3, <1>4, <1>5, <2>2 DEF Unregistered
    <3> QED
      BY <1>1, <2>2, <3>1, <3>2, <3>3, <3>4 DEF Place, Unregistered, Owning
  <2> QED
    BY <2>1, <2>2
<1>9. LateCallsRunAfresh'
  BY <1>0, <1>1, <1>2, InFlightAssumption
  DEF FlightInv, LateCallsRunAfresh, TypeOK
<1> QED
  BY <1>0, <1>6, <1>7, <1>8, <1>9 DEF FlightInv, Places

LEMMA WakeStep ==
    ASSUME FlightInv, NEW t \in Threads, SetEvent(t) \/ Awake(t)
    PROVE  FlightInv'
<1>0. TypeOK /\ TypeOK'
  BY TypeStep DEF FlightInv, Next, Proceed
<1>1. /\ pc[t] \in {"set", "wait"} /\ pc'[t] = "return"
      /\ UNCHANGED <<inflight, result, key, slot, delivered>>
      /\ \A u \in Threads \ {t} : pc'[u] = pc[u]
      /\ slot[t] \in Slots
  BY <1>0 DEF SetEvent, Awake, TypeOK
<1>2. Unregistered(slot[t]) /\ result[slot[t]] # "none"
  BY DEF FlightInv, Places, Place, SetEvent, Awake
<1>3. \A u \in Threads : pc[u] # "idle" /\ event'[slot[u]]
                            => event[slot[u]] \/ slot[u] = slot[t]
  BY <1>0, <1>1 DEF SetEvent, Awake, TypeOK
<1>4. HasOwner' /\ Shared'
  BY <1>1 DEF FlightInv, HasOwner, Shared, Owning
<1>5. ASSUME NEW u \in Threads PROVE Place(u)'
  <2>1. Place(u)
    BY DEF FlightInv, Places
  <2>2. pc[u] # "idle" /\ event'[slot[u]]
            => Unregistered(slot[u]) /\ result[slot[u]] # "none"
    BY <1>2, <1>3, <2>1 DEF Place
  <2> QED
    BY <1>1, <1>2, <2>1, <2>2 DEF Place, Unregistered, Owning
<1> QED
  BY <1>0, <1>1, <1>4, <1>5 DEF FlightInv, Places, LateCallsRunAfresh

LEMMA ReturnStep ==
    ASSUME FlightInv, NEW t \in Threads, Return(t)
    PROVE  FlightInv'
<1>0. TypeOK /\ TypeOK'
  BY TypeStep DEF FlightInv, Next, Proceed
<1>1. /\ pc[t] = "return" /\ pc'[t] = "idle"
      /\ UNCHANGED <<inflight, result, event>>
      /\ \A u \in Threads \ {t} : /\ slot'[u] = slot[u]
                                  /\ key'[u] = key[u] /\ pc'[u] = pc[u]
      /\ delivered' = delivered \cup {slot[t]}
  BY <1>0 DEF Return, TypeOK
<1>2. HasOwner'
  <2> SUFFICES ASSUME NEW k \in Keys, inflight[k] # None
               PROVE  \E u \in Threads : pc'[u] \in Owning /\ key'[u] = k
                                         /\ slot'[u] = inflight[k]
    BY <1>1 DEF HasOwner
  <2>1. PICK u \in Threads : pc[u] \in Owning /\ key[u] = k
                             /\ slot[u] = inflight[k]
    BY DEF FlightInv, HasOwner
  <2> QED
    BY <1>1, <2>1 DEF Owning
<1>3. Shared'
  BY <1>1 DEF FlightInv, Shared
<1>4. ASSUME NEW u \in Threads PROVE Place(u)'
  BY <1>1 DEF FlightInv, Places, Place, Unregistered, Owning
<1>5. LateCallsRunAfresh'
  BY <1>1 DEF FlightInv, Places, Place, Unregistered, LateCallsRunAfresh
<1> QED
  BY <1>0, <1>2, <1>3, <1>4, <1>5 DEF FlightInv, Places

LEMMA FlightInvStep == FlightInv /\ [Next]_vars => FlightInv'
<1>1. ASSUME FlightInv, UNCHANGED vars PROVE FlightInv'
  BY <1>1 DEF FlightInv, TypeOK, HasOwner, Shared, Places, Place, Unregistered,
              LateCallsRunAfresh, vars
<1> QED
  BY <1>1, JoinStep, OwnStep, FnEndsStep, PopStep, WakeStep, ReturnStep
  DEF Next, Proceed

-----------------------------------------------------------------------------
(* Safety *)

\* Nobody holds a slot outside of a call, and everybody inside of one does.
THEOREM TypeCorrect == Spec => []TypeOK
<1>1. FlightInv => TypeOK
  BY DEF FlightInv
<1> QED
  BY <1>1, FlightInvInit, FlightInvStep, PTL DEF Spec

\* The fn of a key never runs twice at the same time.
THEOREM FlightsAreSingle == Spec => []OneFlight
<1>1. FlightInv => OneFlight
  BY DEF FlightInv, OneFlight, Places, Place, Shared, Owning
<1> QED
  BY <1>1, FlightInvInit, FlightInvStep, PTL DEF Spec

\* No call joins a slot whose result somebody already has.
THEOREM LateCallsAreFresh == Spec => []LateCallsRunAfresh
<1>1. FlightInv => LateCallsRunAfresh
  BY DEF FlightInv
<1> QED
  BY <1>1, FlightInvInit, FlightInvStep, PTL DEF Spec

-----------------------------------------------------------------------------
(* Single flight *)

SeatOf(t) ==
    IF pc[t] = "idle" THEN None ELSE [key |-> key[t], told |-> Told(t)]

\* The section that clears a registration is the landing of the flight.
LEMMA PopLands ==
    ASSUME FlightInv, NEW t \in Threads, Pop(t)
    PROVE  Flights!Land(key[t], result[slot[t]])
<1>0. TypeOK
  BY DEF FlightInv
<1>1. /\ pc[t] = "pop" /\ pc' = [pc EXCEPT ![t] = "set"]
      /\ inflight' = [inflight EXCEPT ![key[t]] = None]
      /\ UNCHANGED <<result, key, slot>>
  BY DEF Pop
<1>2. /\ key[t] \in Keys /\ slot[t] \in Slots
      /\ inflight[key[t]] = slot[t]
      /\ result[slot[t]] \in {"ok", "error"}
  BY <1>0, <1>1 DEF FlightInv, Places, Place, Owning, TypeOK
<1>3. ASSUME NEW u \in Threads
      PROVE  SeatOf(u) = [key |-> key[t], told |-> "pending"]
               <=> pc[u] # "idle" /\ slot[u] = slot[t]
  <2>1. CASE pc[u] = "idle"
    BY <1>2, <2>1, InFlightAssumption DEF SeatOf
  <2>2. CASE pc[u] # "idle"
    <3>1. slot[u] \in Slots /\ result[slot[u]] # "pending"
      BY <1>0, <2>2 DEF TypeOK
    <3>2. slot[u] = slot[t] => key[u] = key[t]
      BY <1>1, <2>2 DEF FlightInv, Shared
    <3> QED
      BY <1>2, <2>2, <3>1, <3>2 DEF SeatOf, Told
  <2> QED
    BY <2>1, <2>2
<1>4. ASSUME NEW u \in Threads
      PROVE  SeatOf(u)' = IF pc[u] # "idle" /\ slot[u] = slot[t]
                            THEN [key |-> key[t], told |-> result[slot[t]]]
                            ELSE SeatOf(u)
  <2>1. CASE pc[u] = "idle"
    BY <1>0, <1>1, <2>1 DEF SeatOf, TypeOK
  <2>2. CASE pc[u] # "idle"
    <3>1. /\ pc'[u] # "idle" /\ key[u] \in Keys
          /\ slot[u] \in Slots /\ slot[u] # None
      BY <1>0, <1>1, <2>2, InFlightAssumption DEF TypeOK
    <3>2. inflight'[key[u]] = IF key[u] = key[t] THEN None ELSE inflight[key[u]]
      BY <1>0, <1>1, <3>1 DEF TypeOK
    <3>3. slot[u] = slot[t] => key[u] = key[t]
      BY <1>1, <2>2 DEF FlightInv, Shared
    <3> QED
      BY <1>1, <1>2, <2>2, <3>1, <3>2, <3>3 DEF SeatOf, Told
  <2> QED
    BY <2>1, <2>2
<1>5. Flights!Aboard(key[t]) = {u \in Threads : pc[u] # "idle" /\ slot[u] = slot[t]}
  BY <1>3 DEF Flights!Aboard, SeatOf
<1>6. t \in Flights!Aboard(key[t])
  BY <1>1, <1>5
<1> QED
  BY <1>4, <1>5, <1>6 DEF Flights!Land, SeatOf

\* The deduper implements single flight.
THEOREM DeduperIsSingleFlight == Spec => IsSingleFlight
<1> DEFINE seats == [t \in Threads |-> SeatOf(t)]
<1>1. Init => Flights!Init
  BY DEF Init, Flights!Init
<1>2. FlightInv /\ [Next]_vars => [Flights!Next]_(Flights!flightVars)
  <2> SUFFICES ASSUME FlightInv, [Next]_vars
               PROVE  Flights!Next \/ UNCHANGED seats
    BY DEF Flights!flightVars, SeatOf
  <2>0. TypeOK
    BY DEF FlightInv
  <2>1. ASSUME NEW t \in Threads, NEW k \in Keys, Join(t, k) \/ Own(t, k)
        PROVE  Flights!Board(t, k)
    <3>1. SeatOf(t) = None
      BY <2>1 DEF SeatOf, Join, Own
    <3>2. SeatOf(t)' = [key |-> k, told |-> "pending"]
      BY <2>0, <2>1 DEF SeatOf, Told, Join, Own, Lookup, Free, TypeOK
    <3>3. ASSUME NEW u \in Threads, u # t PROVE SeatOf(u)' = SeatOf(u)
      <4>1. CASE Join(t, k)
        BY <2>0, <3>3, <4>1 DEF SeatOf, Told, Join, TypeOK
      <4>2. CASE Own(t, k)
        <5>1. CASE pc[u] = "idle"
          BY <2>0, <3>3, <4>2, <5>1 DEF SeatOf, Own, TypeOK
        <5>2. CASE pc[u] # "idle"
          <6>1. slot[u] \in Slots /\ slot[u] # None /\ key[u] \in Keys
            BY <2>0, <5>2, InFlightAssumption DEF TypeOK
          <6>2. PICK s \in Free : /\ inflight' = [inflight EXCEPT ![k] = s]
                                  /\ result' = [result EXCEPT ![s] = "none"]
            BY <4>2 DEF Own
          <6>3. s # slot[u] /\ result'[slot[u]] = result[slot[u]]
            BY <2>0, <6>1, <6>2 DEF Free, TypeOK
          <6>4. inflight[k] = None
            BY <4>2 DEF Own, Lookup
          <6>5. inflight'[key[u]] = slot[u] <=> inflight[key[u]] = slot[u]
            BY <2>0, <6>1, <6>2, <6>3, <6>4 DEF TypeOK
          <6>6. pc'[u] = pc[u] /\ key'[u] = key[u] /\ slot'[u] = slot[u]
            BY <2>0, <3>3, <4>2 DEF Own, TypeOK
          <6> QED
            BY <5>2, <6>3, <6>5, <6>6 DEF SeatOf, Told
        <5> QED
          BY <5>1, <5>2
      <4> QED
        BY <2>1, <4>1, <4>2
    <3> QED
      BY <3>1, <3>2, <3>3 DEF Flights!Board, SeatOf
  <2>2. ASSUME NEW t \in Threads, FnEnds(t) PROVE UNCHANGED seats
    <3> SUFFICES ASSUME NEW u \in Threads PROVE SeatOf(u)' = SeatOf(u)
      OBVIOUS
    <3>1. /\ pc'[u] = "idle" <=> pc[u] = "idle"
          /\ UNCHANGED <<inflight, key, slot>>
          /\ pc[t] = "fn" /\ inflight[key[t]] = slot[t]
      BY <2>0, <2>2 DEF FnEnds, TypeOK, FlightInv, Places, Place, Owning
    <3>2. CASE pc[u] # "idle" /\ slot[u] = slot[t]
      BY <3>1, <3>2 DEF SeatOf, Told, FlightInv, Shared
    <3>3. CASE pc[u] # "idle" /\ slot[u] # slot[t]
      BY <2>0, <2>2, <3>1, <3>3 DEF SeatOf, Told, FnEnds, TypeOK
    <3>4. CASE pc[u] = "idle"
      BY <3>1, <3>4 DEF SeatOf
    <3> QED
      BY <3>2, <3>3, <3>4
  <2>3. ASSUME NEW t \in Threads, Pop(t) PROVE Flights!Next
    <3>1. key[t] \in Keys /\ result[slot[t]] \in Flights!Results
      BY <2>0, <2>3
      DEF Pop, FlightInv, Places, Place, TypeOK, Flights!Results
    <3>2. Flights!Land(key[t], result[slot[t]])
      BY <2>3, PopLands
    <3> QED
      BY <3>1, <3>2 DEF Flights!Next, Flights!Land
  <2>4. ASSUME NEW t \in Threads, SetEvent(t) \/ Awake(t) PROVE UNCHANGED seats
    BY <2>0, <2>4 DEF SeatOf, Told, SetEvent, Awake, TypeOK
  <2>5. ASSUME NEW t \in Threads, Return(t) PROVE Flights!Return(t)
    <3>1. SeatOf(t) = [key |-> key[t], told |-> result[slot[t]]]
      BY <2>0, <2>5
      DEF SeatOf, Told, Return, FlightInv, Places, Place, Unregistered, TypeOK
    <3>2. key[t] \in Keys /\ result[slot[t]] \in Flights!Results
      BY <2>0, <2>5
      DEF Return, FlightInv, Places, Place, TypeOK, Flights!Results
    <3>3. SeatOf(t)' = None
          /\ \A u \in Threads \ {t} : SeatOf(u)' = SeatOf(u)
      BY <2>0, <2>5 DEF SeatOf, Told, Return, TypeOK
    <3> QED
      BY <3>1, <3>2, <3>3 DEF Flights!Return, SeatOf
  <2>6. CASE UNCHANGED vars
    BY <2>6 DEF vars, SeatOf, Told
  <2> QED
    BY <2>1, <2>2, <2>3, <2>4, <2>5, <2>6 DEF Next, Proceed, Flights!Next
<1> QED
  BY <1>1, <1>2, FlightInvInit, FlightInvStep, PTL
  DEF Spec, IsSingleFlight, Flights!Spec
=============================================================================
