------------------------------ MODULE QualityRules ------------------------------
(***************************************************************************)
(* The deterministic quality rules (quality/rules/, quality/registry.py),  *)
(* the counts and the score of an evaluation (quality/engine.py,           *)
(* quality/scoring.py) and what the web application makes of them          *)
(* (apps/web/lib/quality.ts, reliability.ts), as pure operators.           *)
(*                                                                         *)
(* A context holds what quality_context reads: `now', `type', the          *)
(* `observations', each with its time `at' in minutes, its logical `key'   *)
(* and its `fields', and the ingestion `runs', latest first.  A field is   *)
(* <<n>>, or <<>> for NULL.  A rule has a `type' and a `config'.           *)
(***************************************************************************)
EXTENDS Integers, Sequences, FiniteSets, Ordering

CONSTANT MinimumRuns    \* minimum_baseline_runs, an odd number (5)

ASSUME RunsAssumption == MinimumRuns \in Nat /\ MinimumRuns % 2 = 1

Verdict(status, affected) == [status |-> status, affected |-> affected]
Skipped == Verdict("SKIPPED", 0)
Errored == Verdict("ERROR", 0)
Judged(affected) == Verdict(IF affected = 0 THEN "PASS" ELSE "FAIL", affected)

Largest(s) == CHOOSE x \in s : \A y \in s : y <= x
Least(s) == CHOOSE x \in s : \A y \in s : x <= y
Times(c) == {c.observations[i].at : i \in DOMAIN c.observations}
Where(seq, P(_)) == {i \in DOMAIN seq : P(seq[i])}

-------------------------------------------------------------------------------
\* Wrong on purpose: the first observation is taken for the latest.
FreshnessOfFirst(c, r) ==
  Judged(IF c.now - c.observations[1].at <= r.config["max_age_minutes"] THEN 0 ELSE 1)

\* The age of the newest observation; one in the future has age zero.
Freshness(c, r) ==
  LET age == Largest({0, c.now - Largest(Times(c))})
  IN  Judged(IF age <= r.config["max_age_minutes"] THEN 0 ELSE 1)

Nulls(c, column) == Cardinality(Where(c.observations, LAMBDA o : o.fields[column] = <<>>))

\* Nulls are reported as affected also where the rate, here in percent, allows them.
Completeness(c, r) ==
  LET nulls == Nulls(c, r.config["column"])
  IN  Verdict(IF 100 * nulls <= r.config["max_null_rate"] * Len(c.observations)
              THEN "PASS" ELSE "FAIL", nulls)

\* Wrong on purpose: the hour is not part of the key of a weather observation.
LogicalKeyUntimed(c, o) == <<o.key>>

LogicalKey(c, o) == IF c.type = "earthquake" THEN <<o.key>> ELSE <<o.key, o.at>>

Uniqueness(c, r) ==
  Judged(Len(c.observations)
           - Cardinality({LogicalKey(c, c.observations[i]) : i \in DOMAIN c.observations}))

\* Wrong on purpose: NULL is left to the completeness rule.
InRangeSkippingNull(c, r) ==
  Judged(Cardinality(Where(c.observations, LAMBDA o :
    LET field == o.fields[r.config["column"]] IN
    /\ field # <<>>
    /\ \/ "min" \in DOMAIN r.config /\ field[1] < r.config["min"]
       \/ "max" \in DOMAIN r.config /\ field[1] > r.config["max"])))

\* A column that is NULL is not a number, and invalid.
InRange(c, r) ==
  Judged(Cardinality(Where(c.observations, LAMBDA o :
    LET field == o.fields[r.config["column"]] IN
    \/ field = <<>>
    \/ "min" \in DOMAIN r.config /\ field[1] < r.config["min"]
    \/ "max" \in DOMAIN r.config /\ field[1] > r.config["max"])))

\* Wrong on purpose: a gap of exactly the allowed length is a violation.
TimestampGapStrict(c, r) ==
  LET at == Sorted([i \in DOMAIN c.observations |-> c.observations[i].at])
  IN  Judged(Cardinality({i \in 1..(Len(at) - 1) :
                            at[i + 1] - at[i] >= r.config["maximum_allowed_gap_minutes"]}))

TimestampGap(c, r) ==
  LET at == Sorted([i \in DOMAIN c.observations |-> c.observations[i].at])
  IN  Judged(Cardinality({i \in 1..(Len(at) - 1) :
                            at[i + 1] - at[i] > r.config["maximum_allowed_gap_minutes"]}))

\* Wrong on purpose: the run that was ingested last is judged, whatever became of it.
VolumesOfAll(runs) == [i \in DOMAIN runs |-> runs[i].received]

\* quality_context reads the volumes of successful runs only.
Volumes(runs) ==
  LET ok == InOrder({i \in DOMAIN runs : runs[i].status \in {"SUCCESS", "NO_CHANGE"}})
  IN  [k \in DOMAIN ok |-> runs[ok[k]].received]

\* Wrong on purpose: the volume that is judged is part of its own baseline.
BaselineMedianWithLatest(volumes) ==
  Sorted(SubSeq(volumes, 1, MinimumRuns))[(MinimumRuns + 1) \div 2]

BaselineMedian(volumes) ==
  Sorted(SubSeq(volumes, 2, MinimumRuns + 1))[(MinimumRuns + 1) \div 2]

\* The latest volume is between half and twice the median of the runs before it; with a
\* median of zero there is no ratio, and the rule fails.
Volume(c, r) ==
  LET volumes == Volumes(c.runs)
      median == BaselineMedian(volumes)
  IN  IF Len(volumes) < MinimumRuns + 1 THEN Skipped
      ELSE Judged(IF median # 0 /\ median <= 2 * volumes[1] /\ volumes[1] <= 2 * median
                  THEN 0 ELSE 1)

-------------------------------------------------------------------------------
\* RULE_EVALUATORS, with the parameters whose absence raises KeyError in the evaluator.
Required ==
  [freshness |-> {"max_age_minutes"}, completeness |-> {"column", "max_null_rate"},
   uniqueness |-> {}, range |-> {"column"}, volume |-> {},
   timestamp_gap |-> {"expected_interval_minutes", "maximum_allowed_gap_minutes"}]

\* The evaluator's first look at the context, before it looks at its configuration.
NotApplicable(c, r) ==
  \/ r.type # "volume" /\ c.observations = <<>>
  \/ r.type = "timestamp_gap" /\ (c.type # "weather" \/ Len(c.observations) < 2)

\* Wrong on purpose: a rule that cannot be evaluated counts as one that failed.
UnableIsFailure == Judged(1)

\* The result of a rule without evaluator, or whose evaluator raises.
Unable == Errored

\* One rule: an unknown type and an exception are an ERROR, and the next rule is evaluated.
Evaluate(c, r) ==
  IF r.type \notin DOMAIN Required THEN Unable
  ELSE IF NotApplicable(c, r) THEN Skipped
  ELSE IF ~Required[r.type] \subseteq DOMAIN r.config THEN Unable
  ELSE CASE r.type = "freshness" -> Freshness(c, r)
         [] r.type = "completeness" -> Completeness(c, r)
         [] r.type = "uniqueness" -> Uniqueness(c, r)
         [] r.type = "range" -> InRange(c, r)
         [] r.type = "timestamp_gap" -> TimestampGap(c, r)
         [] r.type = "volume" -> Volume(c, r)

FreshWithin(minutes) == [type |-> "freshness", config |-> [max_age_minutes |-> minutes]]
CompleteColumn(name) ==
  [type |-> "completeness", config |-> [column |-> name, max_null_rate |-> 0]]
AtLeast(name, low) == [type |-> "range", config |-> [column |-> name, min |-> low]]
Between(name, low, high) ==
  [type |-> "range", config |-> [column |-> name, min |-> low, max |-> high]]
Continuous ==
  [type |-> "timestamp_gap",
   config |-> [expected_interval_minutes |-> 60, maximum_allowed_gap_minutes |-> 90]]
UniqueKey == [type |-> "uniqueness", config |-> <<>>]
UsualVolume == [type |-> "volume", config |-> <<>>]

\* _DEFAULTS: the rules of a dataset, in their order.
DefaultRules ==
  [weather |-> <<FreshWithin(180), CompleteColumn("temperature_c"),
                 Between("temperature_c", -90, 60), Between("relative_humidity_pct", 0, 100),
                 AtLeast("precipitation_mm", 0), Continuous, UniqueKey, UsualVolume>>,
   earthquake |-> <<FreshWithin(1440), CompleteColumn("event_id"), UniqueKey,
                    Between("magnitude", -2, 10), Between("latitude", -90, 90),
                    Between("longitude", -180, 180), Between("depth_km", -10, 1000),
                    UsualVolume>>]

Count(statuses, wanted) == Cardinality(Where(statuses, LAMBDA s : s \in wanted))

\* Wrong on purpose: with nothing to score the score is zero.
ScoreOrZero(statuses) ==
  LET scored == Count(statuses, {"PASS", "WARN", "FAIL"})
  IN  [half |-> 2 * Count(statuses, {"PASS"}) + Count(statuses, {"WARN"}),
       scored |-> IF scored = 0 THEN 1 ELSE scored]

\* calculate_quality_score: half points and the number of results that count; the score is
\* 50 * half / scored, and null if none counts.
Score(statuses) ==
  [half |-> 2 * Count(statuses, {"PASS"}) + Count(statuses, {"WARN"}),
   scored |-> Count(statuses, {"PASS", "WARN", "FAIL"})]

HasScore(score) == score.scored # 0

\* The rules_ counts of a completed evaluation.
Counts(statuses) ==
  [evaluated |-> Len(statuses), passed |-> Count(statuses, {"PASS"}),
   warned |-> Count(statuses, {"WARN"}), failed |-> Count(statuses, {"FAIL"}),
   errored |-> Count(statuses, {"ERROR"}), skipped |-> Count(statuses, {"SKIPPED"})]

\* The status /api/quality shows of a dataset.
QualityStatusFromCounts(n) ==
  IF n.evaluated = 0 THEN "UNKNOWN"
  ELSE IF n.errored > 0 THEN "ERROR"
  ELSE IF n.failed > 0 THEN "FAIL"
  ELSE IF n.warned > 0 THEN "WARN"
  ELSE IF n.passed = 0 THEN "UNKNOWN" ELSE "PASS"

\* Wrong on purpose: warnings do not matter.
ReliabilityOfFailures(run) ==
  IF run.counts.errored > 0 THEN "FAILED"
  ELSE IF run.counts.failed > 0 THEN "PARTIAL" ELSE run.status

\* The state /api/reliability shows of the same evaluation: its own status where no result
\* speaks against it.
ReliabilityState(run) ==
  IF run.counts.errored > 0 THEN "FAILED"
  ELSE IF run.counts.failed > 0 \/ run.counts.warned > 0 THEN "PARTIAL" ELSE run.status
===============================================================================
