---------------------------- MODULE WarmupProofs ----------------------------
(***************************************************************************)
(* Theorems about the warmup, for any number of modules, streams and       *)
(* workers, whatever raises and whatever hangs.                            *)
(***************************************************************************)
EXTENDS Warmup, TLAPS

\* The outcome of a module is there, but for the fields of a _set under way.
Settled(s) == status[s] \in Terminal /\ (whole[s] \/ cur = s)

\* What each place in run() knows of the modules: each is waiting for its turn,
\* running, or settled, and only the first two may get another status.
Scheduling ==
    pc = "schedule" =>
        \A s \in Slugs :
            IF s \in todo THEN status[s] = "pending" /\ job[s] = "none"
            ELSE \/ job[s] = "none" /\ Settled(s)
                 \/ job[s] = "task" /\ status[s] = "running"

Fetching ==
    pc \in {"fetch", "shutdown"} =>
        /\ cur = None
        /\ \A s \in Slugs :
               \/ job[s] = "none" /\ Settled(s)
               \/ job[s] # "none" /\ status[s] = "running"
        /\ pc = "shutdown" =>
               \A s \in Slugs : result[s] = "none" <=> job[s] = "none"

Recording ==
    pc = "record" =>
        \A s \in Slugs :
            IF s \in todo THEN status[s] = "running" /\ result[s] # "none"
            ELSE Settled(s)

Ended ==
    /\ complete => cancelled \/ pc = "over"
    /\ pc = "over" => /\ cur = None
                      /\ cancelled \/ \A s \in Slugs : Settled(s)

WarmupInv ==
    /\ TypeOK
    /\ Scheduling
    /\ Fetching
    /\ Recording
    /\ Ended
    /\ AnnouncedStands

-----------------------------------------------------------------------------
LEMMA NoneIsNoSlug == None \notin Slugs
  BY WarmupAssumption DEF None, Slugs

LEMMA WarmupInvInit == Init => WarmupInv
<1> SUFFICES ASSUME Init PROVE WarmupInv
  OBVIOUS
<1>1. /\ status \in [Slugs -> Status] /\ whole \in [Slugs -> BOOLEAN]
      /\ seen \in [Streams -> [Slugs -> Terminal \cup {"none"}]]
      /\ sentWhole \in [Streams -> [Slugs -> BOOLEAN]]
  BY DEF Init, Status
<1>2. TypeOK
  BY <1>1 DEF Init, TypeOK
<1>3. AnnouncedStands
  BY DEF Init, AnnouncedStands
<1> QED
  BY <1>2, <1>3
  DEF Init, WarmupInv, Scheduling, Fetching, Recording, Ended

\* A step that changes no status and closes no phase keeps the invariant.
LEMMA QuietStep ==
    ASSUME WarmupInv, TypeOK', UNCHANGED <<status, whole, pc, todo, cur, result>>,
           \A s \in Slugs : job'[s] # job[s] =>
               job[s] \notin {"none", "task"} /\ job'[s] \notin {"none", "task"},
           complete' = complete \/ cancelled',
           cancelled => cancelled',
           AnnouncedStands'
    PROVE  WarmupInv'
<1>1. \A s \in Slugs : Settled(s)' <=> Settled(s)
  BY DEF Settled
<1>2. Scheduling'
  BY <1>1 DEF WarmupInv, Scheduling
<1>3. Fetching'
  BY <1>1 DEF WarmupInv, Fetching
<1>4. Recording'
  BY <1>1 DEF WarmupInv, Recording
<1>5. Ended'
  BY <1>1 DEF WarmupInv, Ended, TypeOK
<1> QED
  BY <1>2, <1>3, <1>4, <1>5 DEF WarmupInv

LEMMA TypeStep == WarmupInv /\ [Next]_vars => TypeOK'
<1> SUFFICES ASSUME WarmupInv, [Next]_vars PROVE TypeOK'
  OBVIOUS
<1>0. TypeOK
  BY DEF WarmupInv
<1>1. ASSUME NEW s \in Slugs, Schedule(s) PROVE TypeOK'
  <2>1. Scheduled(s) \in Status
    BY <1>0 DEF Scheduled, TypeOK, Verdict, Status, Terminal
  <2> QED
    BY <1>0, <1>1, <2>1
    DEF TypeOK, Schedule, streamVars
<1>2. ASSUME NEW s \in Slugs, Record(s) PROVE TypeOK'
  <2>1. result[s] \in {"ok", "error", "timed_out"}
    BY <1>0, <1>2 DEF TypeOK, WarmupInv, Recording, Record, NextResult
  <2>2. Recorded(result[s]) \in Status
    BY <2>1 DEF Recorded, Status, Terminal
  <2> QED
    BY <1>0, <1>2, <2>2 DEF TypeOK, Record, NextResult, poolVars, streamVars
<1>3. CASE \E s \in Slugs : SummaryRaises(s)
  BY <1>0, <1>3 DEF TypeOK, SummaryRaises, poolVars, streamVars
<1>4. CASE FinishSet \/ StopEarly \/ Finish
  BY <1>0, <1>4 DEF TypeOK, FinishSet, StopEarly, Finish, poolVars, streamVars
<1>5. CASE Submit \/ WaitReturns \/ Shutdown
  BY <1>0, <1>5
  DEF TypeOK, Submit, WaitReturns, Shutdown, ResultOf, Tasks, streamVars
<1>6. CASE \E s \in Slugs : StartJob(s) \/ EndJob(s)
  BY <1>0, <1>6 DEF TypeOK, StartJob, EndJob, threadVars, streamVars
<1>7. CASE Cancel
  BY <1>0, <1>7 DEF TypeOK, Cancel, poolVars, threadVars, streamVars
<1>8. ASSUME NEW c \in Streams, Open(c) \/ Leave(c) \/ Wait(c) \/ Wake(c)
      PROVE  TypeOK'
  <2>1. /\ UNCHANGED <<verdict, poolVars, threadVars, complete, cancelled>>
        /\ UNCHANGED <<seen, sentWhole>>
    BY <1>8 DEF Open, Leave, Wait, Wake
  <2>2. stream' \in [Streams -> {"new", "visit", "wait", "done", "closed"}]
    <3>1. \E to \in {"visit", "wait", "done"} : stream' = [stream EXCEPT ![c] = to]
      BY <1>8 DEF Open, Leave, Wait, Wake
    <3> QED
      BY <1>0, <3>1 DEF TypeOK
  <2>3. visiting' = visiting \/ visiting' = [visiting EXCEPT ![c] = Slugs]
    BY <1>8 DEF Open, Leave, Wait, Wake
  <2>4. visiting' \in [Streams -> SUBSET Slugs]
    <3>1. Slugs \in SUBSET Slugs /\ visiting \in [Streams -> SUBSET Slugs]
      BY <1>0 DEF TypeOK
    <3> QED
      BY <2>3, <3>1
  <2> QED
    BY <1>0, <2>1, <2>2, <2>4 DEF TypeOK, poolVars, threadVars
<1>9. ASSUME NEW c \in Streams, NEW s \in Slugs, Visit(c, s) PROVE TypeOK'
  <2>1. /\ UNCHANGED <<verdict, poolVars, threadVars, complete, cancelled>>
        /\ UNCHANGED stream
        /\ visiting' \in [Streams -> SUBSET Slugs]
    BY <1>0, <1>9 DEF TypeOK, Visit
  <2>2. CASE IsNews(c, s)
    <3>1. [seen[c] EXCEPT ![s] = status[s]] \in [Slugs -> Terminal \cup {"none"}]
      BY <1>0, <2>2 DEF TypeOK, IsNews
    <3>2. [sentWhole[c] EXCEPT ![s] = whole[s]] \in [Slugs -> BOOLEAN]
      BY <1>0 DEF TypeOK
    <3>3. /\ seen' = [seen EXCEPT ![c] = [seen[c] EXCEPT ![s] = status[s]]]
          /\ sentWhole' = [sentWhole EXCEPT ![c] =
                              [sentWhole[c] EXCEPT ![s] = whole[s]]]
      BY <1>9, <2>2 DEF Visit
    <3>4. /\ seen' \in [Streams -> [Slugs -> Terminal \cup {"none"}]]
          /\ sentWhole' \in [Streams -> [Slugs -> BOOLEAN]]
      BY <1>0, <3>1, <3>2, <3>3 DEF TypeOK
    <3> QED
      BY <1>0, <2>1, <3>4 DEF TypeOK, poolVars, threadVars
  <2>3. CASE ~IsNews(c, s)
    <3>1. UNCHANGED <<seen, sentWhole>>
      BY <1>9, <2>3 DEF Visit
    <3> QED
      BY <1>0, <2>1, <3>1 DEF TypeOK, poolVars, threadVars
  <2> QED
    BY <2>2, <2>3
<1>10. CASE \E c \in Streams, s \in Slugs : Disconnect(c, s)
  BY <1>0, <1>10 DEF TypeOK, Disconnect, poolVars, threadVars
<1>11. CASE UNCHANGED vars
  BY <1>0, <1>11 DEF TypeOK, vars, poolVars, threadVars, streamVars
<1> QED
  BY <1>1, <1>2, <1>3, <1>4, <1>5, <1>6, <1>7, <1>8, <1>9, <1>10, <1>11
  DEF Next, Run, Serve

\* A status that is not terminal has not been announced.
LEMMA UnsettledUnannounced ==
    ASSUME WarmupInv, NEW s \in Slugs, status[s] \notin Terminal
    PROVE  \A c \in Streams : seen[c][s] = "none"
<1> SUFFICES ASSUME NEW c \in Streams PROVE seen[c][s] = "none"
  OBVIOUS
<1>1. seen[c][s] \in Terminal \cup {"none"}
  <2>1. seen[c] \in [Slugs -> Terminal \cup {"none"}]
    BY DEF WarmupInv, TypeOK
  <2> QED
    BY <2>1
<1>2. seen[c][s] # "none" => seen[c][s] = status[s]
  BY DEF WarmupInv, AnnouncedStands
<1> QED
  BY <1>1, <1>2

\* So a status may be replaced before it is terminal.
LEMMA ScheduleStep ==
    ASSUME WarmupInv, TypeOK', NEW s \in Slugs, Schedule(s)
    PROVE  WarmupInv'
<1>0. TypeOK
  BY DEF WarmupInv
<1>1. /\ pc = "schedule" /\ pc' = pc /\ cur = None /\ s \in todo
      /\ todo' = todo \ {s}
      /\ status' = [status EXCEPT ![s] = Scheduled(s)]
      /\ UNCHANGED <<whole, result, complete, cancelled, streamVars>>
  BY DEF Schedule, IsFirst
<1>2. status[s] = "pending" /\ job[s] = "none"
  BY <1>1 DEF WarmupInv, Scheduling
<1>3. Scheduled(s) \in Terminal \cup {"running"}
  BY <1>0 DEF Scheduled, TypeOK, Verdict, Terminal
<1>4. IF Scheduled(s) = "running"
        THEN job' = [job EXCEPT ![s] = "task"] /\ cur' = cur
        ELSE cur' = s /\ job' = job
  BY DEF Schedule
<1>5. ASSUME NEW x \in Slugs, x # s
      PROVE  /\ status'[x] = status[x] /\ job'[x] = job[x]
             /\ Settled(x) => Settled(x)'
  BY <1>0, <1>1, <1>4, <1>5, NoneIsNoSlug DEF TypeOK, Settled
<1>6. \/ job'[s] = "none" /\ Settled(s)'
      \/ job'[s] = "task" /\ status'[s] = "running"
  BY <1>0, <1>1, <1>2, <1>3, <1>4 DEF TypeOK, Settled, Terminal
<1>7. Scheduling'
  BY <1>1, <1>5, <1>6 DEF WarmupInv, Scheduling
<1>8. AnnouncedStands'
  <2>1. \A c \in Streams : seen[c][s] = "none"
    BY <1>2, UnsettledUnannounced DEF Terminal
  <2> QED
    BY <1>1, <1>5, <2>1 DEF WarmupInv, AnnouncedStands, streamVars
<1>9. Fetching' /\ Recording' /\ Ended'
  BY <1>1 DEF WarmupInv, Fetching, Recording, Ended
<1> QED
  BY <1>7, <1>8, <1>9 DEF WarmupInv

LEMMA RecordStep ==
    ASSUME WarmupInv, TypeOK', NEW s \in Slugs, Record(s)
    PROVE  WarmupInv'
<1>0. TypeOK
  BY DEF WarmupInv
<1>1. /\ pc = "record" /\ pc' = pc /\ cur = None /\ cur' = s /\ s \in todo
      /\ todo' = todo \ {s}
      /\ status' = [status EXCEPT ![s] = Recorded(result[s])]
      /\ UNCHANGED <<whole, poolVars, complete, cancelled, streamVars>>
  BY DEF Record, NextResult
<1>2. status[s] = "running" /\ result[s] \in {"ok", "error", "timed_out"}
  BY <1>0, <1>1 DEF WarmupInv, Recording, TypeOK
<1>3. Settled(s)'
  BY <1>0, <1>1, <1>2 DEF Settled, Recorded, TypeOK, Terminal
<1>4. ASSUME NEW x \in Slugs, x # s
      PROVE  status'[x] = status[x] /\ (Settled(x) => Settled(x)')
  BY <1>0, <1>1, <1>4, NoneIsNoSlug DEF TypeOK, Settled
<1>5. Recording'
  BY <1>1, <1>3, <1>4 DEF WarmupInv, Recording, poolVars
<1>6. AnnouncedStands'
  <2>1. \A c \in Streams : seen[c][s] = "none"
    BY <1>2, UnsettledUnannounced DEF Terminal
  <2> QED
    BY <1>1, <1>4, <2>1 DEF WarmupInv, AnnouncedStands, streamVars
<1>7. Scheduling' /\ Fetching' /\ Ended'
  BY <1>1 DEF WarmupInv, Scheduling, Fetching, Ended
<1> QED
  BY <1>5, <1>6, <1>7 DEF WarmupInv

LEMMA FinishSetStep ==
    ASSUME WarmupInv, TypeOK', FinishSet
    PROVE  WarmupInv'
<1>0. TypeOK
  BY DEF WarmupInv
<1>1. /\ cur \in Slugs /\ cur # None /\ cur' = None
      /\ whole' = [whole EXCEPT ![cur] = TRUE]
      /\ UNCHANGED <<poolVars, status, pc, todo, complete, cancelled, streamVars>>
  BY <1>0 DEF FinishSet, TypeOK
<1>2. \A s \in Slugs : Settled(s) => Settled(s)'
  BY <1>0, <1>1, NoneIsNoSlug DEF Settled, TypeOK
<1>3. Scheduling' /\ Recording'
  BY <1>1, <1>2 DEF WarmupInv, Scheduling, Recording, poolVars
<1>4. Fetching' /\ Ended'
  BY <1>1 DEF WarmupInv, Fetching, Ended
<1>5. AnnouncedStands'
  BY <1>1 DEF WarmupInv, AnnouncedStands, streamVars
<1> QED
  BY <1>3, <1>4, <1>5 DEF WarmupInv

\* The steps between the loops of run().
LEMMA PhaseStep ==
    ASSUME WarmupInv, TypeOK',
           \/ StopEarly \/ Submit \/ WaitReturns \/ Shutdown \/ Finish
           \/ \E s \in Slugs : SummaryRaises(s)
    PROVE  WarmupInv'
<1>0. TypeOK
  BY DEF WarmupInv
<1>1. AnnouncedStands'
  BY DEF WarmupInv, AnnouncedStands, StopEarly, Submit, WaitReturns, Shutdown,
         Finish, SummaryRaises, streamVars
<1>2. CASE StopEarly
  <2>1. cancelled \/ \A s \in Slugs : job[s] = "none"
    BY <1>2 DEF StopEarly, Tasks
  <2> QED
    BY <1>1, <1>2, <2>1
    DEF StopEarly, WarmupInv, Scheduling, Fetching, Recording, Ended, Settled
<1>3. CASE Submit
  BY <1>1, <1>3
  DEF Submit, WarmupInv, Scheduling, Fetching, Recording, Ended, Settled, Tasks
<1>4. CASE WaitReturns
  BY <1>1, <1>4
  DEF WaitReturns, ResultOf, WarmupInv, Scheduling, Fetching, Recording, Ended,
      Settled
<1>5. CASE Shutdown
  BY <1>0, <1>1, <1>5
  DEF Shutdown, WarmupInv, Scheduling, Fetching, Recording, Ended, Settled
<1>6. CASE Finish
  BY <1>1, <1>6
  DEF Finish, WarmupInv, Scheduling, Fetching, Recording, Ended, Settled
<1>7. CASE \E s \in Slugs : SummaryRaises(s)
  BY <1>1, <1>7
  DEF SummaryRaises, NextResult, WarmupInv, Scheduling, Fetching, Recording,
      Ended
<1> QED
  BY <1>2, <1>3, <1>4, <1>5, <1>6, <1>7

LEMMA WarmupInvStep == WarmupInv /\ [Next]_vars => WarmupInv'
<1> SUFFICES ASSUME WarmupInv, [Next]_vars PROVE WarmupInv'
  OBVIOUS
<1>0. TypeOK /\ TypeOK'
  BY TypeStep DEF WarmupInv
<1>1. CASE Run
  BY <1>0, <1>1, ScheduleStep, RecordStep, FinishSetStep, PhaseStep DEF Run
<1>2. CASE \E s \in Slugs : StartJob(s) \/ EndJob(s)
  <2>1. \A s \in Slugs : job'[s] # job[s] =>
            job[s] \notin {"none", "task"} /\ job'[s] \notin {"none", "task"}
    BY <1>0, <1>2 DEF StartJob, EndJob, IsFirst, TypeOK
  <2>2. /\ UNCHANGED <<status, whole, pc, todo, cur, result>>
        /\ UNCHANGED <<complete, cancelled, streamVars>>
    BY <1>2 DEF StartJob, EndJob, threadVars
  <2>3. AnnouncedStands'
    BY <2>2 DEF WarmupInv, AnnouncedStands, streamVars
  <2> QED
    BY <1>0, <2>1, <2>2, <2>3, QuietStep
<1>3. CASE Cancel
  <2>1. UNCHANGED <<status, whole, pc, todo, cur, job, result, seen>> /\ cancelled'
    BY <1>3 DEF Cancel, poolVars, threadVars, streamVars
  <2>2. AnnouncedStands'
    BY <2>1 DEF WarmupInv, AnnouncedStands
  <2> QED
    BY <1>0, <2>1, <2>2, QuietStep
<1>4. CASE \E c \in Streams : Open(c) \/ Serve(c)
                              \/ \E s \in Slugs : Disconnect(c, s)
  <2>1. UNCHANGED <<status, whole, pc, todo, cur, job, result, complete, cancelled>>
    BY <1>4 DEF Open, Serve, Visit, Leave, Wait, Wake, Disconnect, poolVars,
                threadVars
  <2>2. \A c \in Streams, s \in Slugs :
            seen'[c][s] = seen[c][s] \/ seen'[c][s] = status[s]
    <3>1. CASE UNCHANGED seen
      BY <3>1
    <3>2. ASSUME NEW c \in Streams, NEW s \in Slugs, Visit(c, s)
          PROVE  UNCHANGED seen \/ seen' = [seen EXCEPT ![c][s] = status[s]]
      BY <3>2 DEF Visit
    <3>3. \/ UNCHANGED seen
          \/ \E c \in Streams, s \in Slugs :
                 seen' = [seen EXCEPT ![c][s] = status[s]]
      BY <1>4, <3>2 DEF Open, Serve, Leave, Wait, Wake, Disconnect
    <3>4. ASSUME NEW c \in Streams, NEW s \in Slugs,
                 seen' = [seen EXCEPT ![c][s] = status[s]],
                 NEW b \in Streams, NEW x \in Slugs
          PROVE  seen'[b][x] = seen[b][x] \/ seen'[b][x] = status[x]
      <4>1. seen \in [Streams -> [Slugs -> Terminal \cup {"none"}]]
        BY <1>0 DEF TypeOK
      <4>2. seen'[b] = IF b = c THEN [seen[c] EXCEPT ![s] = status[s]]
                                ELSE seen[b]
        BY <3>4, <4>1
      <4> QED
        BY <4>1, <4>2
    <3> QED
      BY <3>1, <3>3, <3>4
  <2>3. AnnouncedStands'
    BY <2>1, <2>2 DEF WarmupInv, AnnouncedStands
  <2> QED
    BY <1>0, <2>1, <2>3, QuietStep
<1>5. CASE UNCHANGED vars
  <2>1. /\ UNCHANGED <<status, whole, pc, todo, cur, job, result>>
        /\ UNCHANGED <<complete, cancelled, seen>>
    BY <1>5 DEF vars, poolVars, threadVars, streamVars
  <2>2. AnnouncedStands'
    BY <2>1 DEF WarmupInv, AnnouncedStands
  <2> QED
    BY <1>0, <2>1, <2>2, QuietStep
<1> QED
  BY <1>1, <1>2, <1>3, <1>4, <1>5 DEF Next

-----------------------------------------------------------------------------
\* Every variable keeps its type: only what has a result is recorded.
THEOREM TypeCorrect == Spec => []TypeOK
<1>1. WarmupInv => TypeOK
  BY DEF WarmupInv
<1> QED
  BY <1>1, WarmupInvInit, WarmupInvStep, PTL DEF Spec

\* A warmup that is complete without a cancel has every outcome.
THEOREM CompleteWarmupsAreFinal == Spec => []CompleteIsFinal
<1>1. WarmupInv => CompleteIsFinal
  BY NoneIsNoSlug DEF WarmupInv, Ended, Settled, CompleteIsFinal
<1> QED
  BY <1>1, WarmupInvInit, WarmupInvStep, PTL DEF Spec

\* No event a stream sent is ever contradicted.
THEOREM AnnouncementsStand == Spec => []AnnouncedStands
<1>1. WarmupInv => AnnouncedStands
  BY DEF WarmupInv
<1> QED
  BY <1>1, WarmupInvInit, WarmupInvStep, PTL DEF Spec
=============================================================================
