------------------------------- MODULE Warmup -------------------------------
(***************************************************************************)
(* The warmup of infra/warmup.py: after a connect one thread decides which *)
(* modules to fetch, hands them to the pool of infra/parallel_fetch.py,    *)
(* waits for the pool no longer than its timeout and records the outcome   *)
(* of every module, while event streams of routes/warmup.py follow the     *)
(* statuses and another request may cancel the whole.                      *)
(*                                                                         *)
(* WarmupStatus objects are shared: snapshot() copies the dict, not the    *)
(* objects, so a stream reads a status while _set is half way through      *)
(* writing it.  A listener only shortens a wait of at most two seconds, so *)
(* a stream may wake at any time and the listeners are left out.           *)
(***************************************************************************)
EXTENDS Integers, FiniteSets

CONSTANTS
    N,          \* the number of modules in the registry
    Streams,    \* clients of GET /api/warmup
    Workers,    \* max_workers of the pool
    Raises      \* modules whose summary_fn raises on what they fetched

\* The modules, numbered in the order of the registry dict, which every loop
\* over it follows.
Slugs == 1 .. N

None == 0

ASSUME WarmupAssumption ==
    /\ N \in Nat
    /\ Workers \in Nat \ {0}
    /\ Raises \subseteq Slugs

VARIABLES
    verdict,    \* what run() decides about a module from its ModuleSpec
    status,     \* WarmupStatus.status
    whole,      \* the fields _set writes after status are there too
    job,        \* the future of a module, from task to its end
    result,     \* the TaskResult of a module
    pc,         \* where the warmup thread is
    todo,       \* modules its loop has not visited yet
    cur,        \* the module whose _set is half way through
    complete, cancelled,
    stream,     \* where the generator of a stream is
    visiting,   \*   modules its loop has not visited yet
    seen,       \*   seen_states
    sentWhole   \*   the event of a module carried every field

poolVars   == <<job, result>>
threadVars == <<status, whole, pc, todo, cur>>
streamVars == <<stream, visiting, seen, sentWhole>>
vars == <<verdict, poolVars, threadVars, complete, cancelled, streamVars>>

-----------------------------------------------------------------------------
Terminal_WithRunning ==
    {"done", "failed", "disabled", "timed_out", "skipped", "running"}

\* The statuses a stream announces.
Terminal == {"done", "failed", "disabled", "timed_out", "skipped"}

Status == Terminal \cup {"pending", "running"}

IsFirst(s, S) == s \in S /\ \A x \in S : s <= x

Tasks == {s \in Slugs : job[s] # "none"}

\* spec.warmup, requires_platforms and requires_capabilities, in this order.
Verdict == {"run", "skip", "disable"}

Scheduled(s) ==
    IF cancelled THEN "skipped"
    ELSE CASE verdict[s] = "run"     -> "running"
           [] verdict[s] = "skip"    -> "skipped"
           [] verdict[s] = "disable" -> "disabled"

ResultOf_DoneOnly(j) == IF j \in {"ok", "error"} THEN j ELSE "none"

\* The TaskResult made of a future when the wait returns.
ResultOf(j) ==
    IF j \in {"ok", "error"} THEN j
    ELSE IF j = "none" THEN "none" ELSE "timed_out"

Recorded(r) ==
    CASE r = "ok"        -> "done"
      [] r = "error"     -> "failed"
      [] r = "timed_out" -> "timed_out"

-----------------------------------------------------------------------------
Init ==
    /\ verdict \in [Slugs -> Verdict]
    /\ status = [s \in Slugs |-> "pending"]
    /\ whole = [s \in Slugs |-> FALSE]
    /\ job = [s \in Slugs |-> "none"]
    /\ result = [s \in Slugs |-> "none"]
    /\ pc = "schedule" /\ todo = Slugs /\ cur = None
    /\ complete = FALSE /\ cancelled = FALSE
    /\ stream = [c \in Streams |-> "new"]
    /\ visiting = [c \in Streams |-> {}]
    /\ seen = [c \in Streams |-> [s \in Slugs |-> "none"]]
    /\ sentWhole = [c \in Streams |-> [s \in Slugs |-> FALSE]]

(* ---- the warmup thread ---- *)

\* "running" is written with a start time no stream looks at; the other
\* statuses are followed by an error message or the missing capabilities.
Schedule(s) ==
    /\ pc = "schedule" /\ cur = None /\ IsFirst(s, todo)
    /\ todo' = todo \ {s}
    /\ status' = [status EXCEPT ![s] = Scheduled(s)]
    /\ IF Scheduled(s) = "running"
         THEN job' = [job EXCEPT ![s] = "task"] /\ UNCHANGED cur
         ELSE cur' = s /\ UNCHANGED job
    /\ UNCHANGED <<verdict, whole, result, pc, complete, cancelled, streamVars>>

\* The rest of the fields of the _set under way.
FinishSet ==
    /\ cur # None
    /\ whole' = [whole EXCEPT ![cur] = TRUE]
    /\ cur' = None
    /\ UNCHANGED <<verdict, poolVars, status, pc, todo, complete, cancelled,
                   streamVars>>

\* Nothing to fetch, or cancelled meanwhile.
StopEarly ==
    /\ pc = "schedule" /\ todo = {} /\ cur = None
    /\ Tasks = {} \/ cancelled
    /\ complete' = TRUE
    /\ pc' = "over"
    /\ UNCHANGED <<verdict, poolVars, status, whole, todo, cur, cancelled,
                   streamVars>>

Submit ==
    /\ pc = "schedule" /\ todo = {} /\ cur = None
    /\ Tasks # {} /\ ~cancelled
    /\ job' = [s \in Slugs |-> IF s \in Tasks THEN "queued" ELSE "none"]
    /\ pc' = "fetch"
    /\ UNCHANGED <<verdict, result, status, whole, todo, cur, complete,
                   cancelled, streamVars>>

\* concurrent.futures.wait: every job ended, or the timeout passed, which may
\* be at any time.  It is one timeout for the whole pool.
WaitReturns ==
    /\ pc = "fetch"
    /\ result' = [s \in Slugs |-> ResultOf(job[s])]
    /\ pc' = "shutdown"
    /\ UNCHANGED <<verdict, job, status, whole, todo, cur, complete, cancelled,
                   streamVars>>

Shutdown_Joins ==
    /\ pc = "shutdown"
    /\ \A s \in Slugs : job[s] \in {"none", "ok", "error"}
    /\ todo' = {s \in Slugs : result[s] # "none"}
    /\ pc' = "record"
    /\ UNCHANGED <<verdict, poolVars, status, whole, cur, complete, cancelled,
                   streamVars>>

\* Jobs that did not start are cancelled; the stragglers are not waited for.
Shutdown ==
    /\ pc = "shutdown"
    /\ job' = [s \in Slugs |->
                  IF job[s] = "queued" THEN "cancelled" ELSE job[s]]
    /\ todo' = {s \in Slugs : result[s] # "none"}
    /\ pc' = "record"
    /\ UNCHANGED <<verdict, result, status, whole, cur, complete, cancelled,
                   streamVars>>

\* The results of the ended jobs come first, in any order.
NextResult(s) ==
    /\ pc = "record" /\ cur = None /\ s \in todo
    /\ result[s] = "timed_out" => \A x \in todo : result[x] = "timed_out"

Record(s) ==
    /\ NextResult(s)
    /\ ~(result[s] = "ok" /\ s \in Raises)
    /\ todo' = todo \ {s}
    /\ status' = [status EXCEPT ![s] = Recorded(result[s])]
    /\ cur' = s
    /\ UNCHANGED <<verdict, poolVars, whole, pc, complete, cancelled,
                   streamVars>>

\* Nothing catches what summary_fn raises: the thread ends there.
SummaryRaises(s) ==
    /\ NextResult(s)
    /\ result[s] = "ok" /\ s \in Raises
    /\ pc' = "dead"
    /\ UNCHANGED <<verdict, poolVars, status, whole, todo, cur, complete,
                   cancelled, streamVars>>

Finish ==
    /\ pc = "record" /\ todo = {} /\ cur = None
    /\ complete' = TRUE
    /\ pc' = "over"
    /\ UNCHANGED <<verdict, poolVars, status, whole, todo, cur, cancelled,
                   streamVars>>

Run ==
    \/ \E s \in Slugs : Schedule(s) \/ Record(s) \/ SummaryRaises(s)
    \/ FinishSet \/ StopEarly \/ Submit \/ WaitReturns \/ Shutdown \/ Finish

(* ---- the pool ---- *)

\* Workers take the jobs in the order they were submitted.
StartJob(s) ==
    /\ IsFirst(s, {x \in Slugs : job[x] = "queued"})
    /\ Cardinality({x \in Slugs : job[x] = "executing"}) < Workers
    /\ job' = [job EXCEPT ![s] = "executing"]
    /\ UNCHANGED <<verdict, result, threadVars, complete, cancelled, streamVars>>

\* A fetcher returns or raises, maybe long after the wait; it may also hang.
EndJob(s) ==
    /\ job[s] = "executing"
    /\ \E r \in {"ok", "error"} : job' = [job EXCEPT ![s] = r]
    /\ UNCHANGED <<verdict, result, threadVars, complete, cancelled, streamVars>>

(* ---- the requests ---- *)

\* The next connect or logout, of anybody: app.warmup_scheduler is shared.
Cancel ==
    /\ ~cancelled
    /\ cancelled' = TRUE
    /\ complete' = TRUE
    /\ UNCHANGED <<verdict, poolVars, threadVars, streamVars>>

Open(c) ==
    /\ stream[c] = "new"
    /\ stream' = [stream EXCEPT ![c] = "visit"]
    /\ visiting' = [visiting EXCEPT ![c] = Slugs]
    /\ UNCHANGED <<verdict, poolVars, threadVars, complete, cancelled, seen,
                   sentWhole>>

\* One module of the snapshot is announced if its status is news, and terminal.
IsNews(c, s) == seen[c][s] # status[s] /\ status[s] \in Terminal

Visit(c, s) ==
    /\ stream[c] = "visit" /\ IsFirst(s, visiting[c])
    /\ visiting' = [visiting EXCEPT ![c] = @ \ {s}]
    /\ IF IsNews(c, s)
         THEN /\ seen' = [seen EXCEPT ![c][s] = status[s]]
              /\ sentWhole' = [sentWhole EXCEPT ![c][s] = whole[s]]
         ELSE UNCHANGED <<seen, sentWhole>>
    /\ UNCHANGED <<verdict, poolVars, threadVars, complete, cancelled, stream>>

\* A client that went away is noticed when there is something to send to it.
Disconnect(c, s) ==
    /\ stream[c] = "visit" /\ IsFirst(s, visiting[c])
    /\ IsNews(c, s)
    /\ stream' = [stream EXCEPT ![c] = "closed"]
    /\ visiting' = [visiting EXCEPT ![c] = {}]
    /\ UNCHANGED <<verdict, poolVars, threadVars, complete, cancelled, seen,
                   sentWhole>>

Over_AllSeen(c) == \A s \in Slugs : seen[c][s] # "none"
Over(c) == complete

\* while not scheduler.is_complete(): the last event says "complete" ...
Leave(c) ==
    /\ stream[c] = "visit" /\ visiting[c] = {}
    /\ Over(c)
    /\ stream' = [stream EXCEPT ![c] = "done"]
    /\ UNCHANGED <<verdict, poolVars, threadVars, complete, cancelled, visiting,
                   seen, sentWhole>>

\* ... or the stream waits for the next change,
Wait(c) ==
    /\ stream[c] = "visit" /\ visiting[c] = {}
    /\ ~Over(c)
    /\ stream' = [stream EXCEPT ![c] = "wait"]
    /\ UNCHANGED <<verdict, poolVars, threadVars, complete, cancelled, visiting,
                   seen, sentWhole>>

\* or two seconds, and looks again.
Wake(c) ==
    /\ stream[c] = "wait"
    /\ stream' = [stream EXCEPT ![c] = "visit"]
    /\ visiting' = [visiting EXCEPT ![c] = Slugs]
    /\ UNCHANGED <<verdict, poolVars, threadVars, complete, cancelled, seen,
                   sentWhole>>

Serve(c) == (\E s \in Slugs : Visit(c, s)) \/ Leave(c) \/ Wait(c) \/ Wake(c)

Next ==
    \/ Run
    \/ \E s \in Slugs : StartJob(s) \/ EndJob(s)
    \/ Cancel
    \/ \E c \in Streams : Open(c) \/ Serve(c)
    \/ \E c \in Streams, s \in Slugs : Disconnect(c, s)

\* The thread and the generators keep running, and a wait with a timeout
\* returns.  Nothing says that a fetcher ever does.
Spec ==
    /\ Init /\ [][Next]_vars
    /\ WF_vars(Run)
    /\ \A c \in Streams : WF_vars(Serve(c))

-----------------------------------------------------------------------------
(* Properties *)

TypeOK ==
    /\ verdict \in [Slugs -> Verdict]
    /\ status \in [Slugs -> Status]
    /\ whole \in [Slugs -> BOOLEAN]
    /\ job \in [Slugs -> {"none", "task", "queued", "executing", "cancelled",
                          "ok", "error"}]
    /\ result \in [Slugs -> {"none", "ok", "error", "timed_out"}]
    /\ pc \in {"schedule", "fetch", "shutdown", "record", "over", "dead"}
    /\ todo \subseteq Slugs
    /\ cur \in Slugs \cup {None}
    /\ complete \in BOOLEAN /\ cancelled \in BOOLEAN
    /\ stream \in [Streams -> {"new", "visit", "wait", "done", "closed"}]
    /\ visiting \in [Streams -> SUBSET Slugs]
    /\ seen \in [Streams -> [Slugs -> Terminal \cup {"none"}]]
    /\ sentWhole \in [Streams -> [Slugs -> BOOLEAN]]

\* A warmup that says it is complete, and was not cancelled, has an outcome for
\* every module, with all its fields, the ones that timed out included.
CompleteIsFinal ==
    complete /\ ~cancelled =>
        \A s \in Slugs : status[s] \in Terminal /\ whole[s]

\* What a stream announced stays true: the late answer of a module that timed
\* out, a cancel or the end of the warmup never contradict an earlier event,
\* so no module is announced twice.
AnnouncedStands ==
    \A c \in Streams, s \in Slugs :
        seen[c][s] # "none" => seen[c][s] = status[s]

\* Hung fetchers do not keep the warmup from completing: only a summary_fn that
\* raises does.
Completes == <>(complete \/ pc = "dead")

\* Every stream ends, even one opened late or on a warmup that is cancelled
\* with modules still running.
StreamsEnd ==
    \A c \in Streams :
        stream[c] = "visit" ~> (stream[c] \in {"done", "closed"} \/ pc = "dead")

\* Three things the documents say and the code does not do; each fails.

\* A stream that says "complete" has announced every module: it tests for
\* completion after its last look at the statuses (routes/warmup.py:45).
AllAnnounced ==
    \A c \in Streams :
        stream[c] = "done" /\ ~cancelled =>
            \A s \in Slugs : seen[c][s] = status[s]

\* An event that says a module is done carries its summary: the stream may
\* read the status object between the writes of _set (infra/warmup.py:142).
DoneHasSummary ==
    \A c \in Streams, s \in Slugs : seen[c][s] = "done" => sentWhole[c][s]

\* The timeout is the module's own, so one that never started did not exceed
\* it: the wait has one timeout for the pool (infra/parallel_fetch.py:40).
TimedOutWasStarted ==
    \A s \in Slugs : status[s] = "timed_out" => job[s] # "cancelled"
=============================================================================
