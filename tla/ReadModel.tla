------------------------------- MODULE ReadModel -------------------------------
(***************************************************************************)
(* What the web application derives from the runs it reads: the last       *)
(* successful poll of a source (apps/web/lib/status.ts), the readiness of  *)
(* all sources (source-freshness.ts) and the execution figures of the last *)
(* thirty days (reliability.ts).  A run has a status, the time it started  *)
(* and the time it finished; a source its slug, `enabled' and its runs.    *)
(***************************************************************************)
EXTENDS Integers, FiniteSets

CONSTANTS
  MaxPollAge,    \* MAX_SOURCE_POLL_AGE_HOURS, in minutes (720)
  Tolerance,     \* minutes a poll may lie in the future (5)
  Window         \* minutes of history the reliability figures cover (43200)

ASSUME AgeAssumption == {MaxPollAge, Tolerance, Window} \subseteq Nat

Succeeded == {"SUCCESS", "NO_CHANGE"}

\* Wrong on purpose: the poll that was tried last, whatever came of it.
LastPollOfAny(source) ==
  LET at == {r.finished : r \in {q \in source.runs : q.status # "RUNNING"}}
  IN  {t \in at : \A u \in at : u <= t}

\* last_successful_ingestion: the latest finish of a successful run, if there is one.
LastPoll(source) ==
  LET at == {r.finished : r \in {q \in source.runs : q.status \in Succeeded}}
  IN  {t \in at : \A u \in at : u <= t}

PollState(source, now) ==
  IF ~source.enabled THEN "DISABLED"
  ELSE IF LastPoll(source) = {} THEN "NO_HISTORY"
  ELSE IF \E t \in LastPoll(source) : t - now > Tolerance THEN "INVALID_TIME"
  ELSE IF \E t \in LastPoll(source) : now - t > MaxPollAge THEN "STALE" ELSE "CURRENT"

\* evaluatePollReadiness, with the database at hand.
Readiness(sources, now) ==
  IF /\ \E s \in sources : s.enabled
     /\ \A s \in sources : s.enabled => PollState(s, now) = "CURRENT"
  THEN "healthy" ELSE "degraded"

\* The figures of `pipeline' in getReliability: a run belongs to the window it started in.
Recent(runs, now) == {r \in runs : now - r.started <= Window}

\* Wrong on purpose: what has not failed has succeeded.
ExecutionOptimistic(runs, now) ==
  LET failed == {r \in Recent(runs, now) : r.status \in {"FAILED", "PARTIAL"}}
  IN  [runs |-> Cardinality(Recent(runs, now)), failures |-> Cardinality(failed),
       successes |-> Cardinality(Recent(runs, now) \ failed)]

Execution(runs, now) ==
  LET count(statuses) == Cardinality({r \in Recent(runs, now) : r.status \in statuses})
  IN  [runs |-> Cardinality(Recent(runs, now)), failures |-> count({"FAILED", "PARTIAL"}),
       successes |-> count(Succeeded)]

WindowState(runs, now) == IF Recent(runs, now) = {} THEN "INSUFFICIENT_HISTORY" ELSE "MEASURED"
===============================================================================
