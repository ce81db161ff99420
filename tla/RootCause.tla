------------------------------- MODULE RootCause -------------------------------
(***************************************************************************)
(* The deterministic root cause analysis as pure operators: the signals it *)
(* takes from the evidence of an incident (rca/service.py) and the ranking *)
(* of the causes they speak for (rca/engine.py).                           *)
(*                                                                         *)
(* The evidence of an incident: the `family' its rule's slug tells, its    *)
(* `kind', the `quality' and `drift' results it cites ("none" if it cites  *)
(* none), the status of the latest `ingestion' run of its dataset, and     *)
(* whether the lineage knows an `upstream' source.                         *)
(***************************************************************************)
EXTENDS Integers, FiniteSets, Functions

\* The causes in alphabetical order.
Causes ==
  <<"DATABASE_OR_PIPELINE_ERROR", "DISTRIBUTION_SHIFT", "FRESHNESS_DELAY", "INVALID_VALUES",
    "SCHEMA_CHANGE", "TIMESTAMP_GAP", "UNKNOWN", "UPSTREAM_SOURCE_FAILURE", "VOLUME_CHANGE">>

Signal(cause, weight, reason) == [cause |-> cause, weight |-> weight, reason |-> reason]

\* _quality_signal: what the rule is about comes first; how the result ended is not asked.
QualitySignal(e) ==
  CASE e.family = "freshness" -> Signal("FRESHNESS_DELAY", 10, "freshness_rule_failed")
    [] e.family = "continuity" -> Signal("TIMESTAMP_GAP", 10, "timestamp_gap_rule_failed")
    [] e.family = "volume" -> Signal("VOLUME_CHANGE", 10, "volume_rule_failed")
    [] OTHER -> IF e.kind = "EVALUATION_ERROR"
                THEN Signal("DATABASE_OR_PIPELINE_ERROR", 12, "quality_evaluation_error")
                ELSE Signal("INVALID_VALUES", 10, "quality_contract_failed")

\* Wrong on purpose: a result that is cited speaks for drift, also if it is STABLE.
DriftSignalsOfAny(e) ==
  IF e.drift.status = "none" THEN {}
  ELSE IF e.drift.method = "SCHEMA_DIFF"
  THEN {Signal("SCHEMA_CHANGE", 12, "schema_difference_detected")}
  ELSE {Signal("DISTRIBUTION_SHIFT", 10, "psi_distribution_shift")}

DriftSignals(e) ==
  IF e.drift.status # "DRIFT" THEN {}
  ELSE IF e.drift.method = "SCHEMA_DIFF"
  THEN {Signal("SCHEMA_CHANGE", 12, "schema_difference_detected")}
  ELSE {Signal("DISTRIBUTION_SHIFT", 10, "psi_distribution_shift")}

IngestionSignals(e) ==
  IF e.ingestion # "FAILED" THEN {}
  ELSE {Signal("UPSTREAM_SOURCE_FAILURE", 12, "ingestion_failed")} \cup
       IF e.upstream THEN {Signal("UPSTREAM_SOURCE_FAILURE", 2, "upstream_source_in_lineage")}
       ELSE {}

\* _signals.
Signals(e) ==
  LET direct == (IF e.quality # "none" THEN {QualitySignal(e)} ELSE {}) \cup DriftSignals(e)
                  \cup IngestionSignals(e)
  IN  IF direct # {} THEN direct
      ELSE {Signal("UNKNOWN", 0, "no_persisted_supporting_evidence")}

-------------------------------------------------------------------------------
\* Wrong on purpose: the strongest signal of a cause is its score.
ScoreByStrongest(signals, cause) ==
  CHOOSE w \in {s.weight : s \in {t \in signals : t.cause = cause}} :
    \A s \in signals : s.cause = cause => s.weight <= w

ScoreOf(signals, cause) ==
  SumFunction([s \in {t \in signals : t.cause = cause} |-> s.weight])

Candidates(signals) == {i \in DOMAIN Causes : \E s \in signals : s.cause = Causes[i]}

\* Wrong on purpose: the confidence of the first does not look at the second.
ConfidenceAlone(score, runnerUp) ==
  IF score <= 0 THEN "UNKNOWN"
  ELSE IF score >= 10 THEN "HIGH" ELSE IF score >= 5 THEN "MEDIUM" ELSE "LOW"

\* _confidence; runnerUp holds the score of the next candidate, if there is one.
Confidence(score, runnerUp) ==
  IF score <= 0 THEN "UNKNOWN"
  ELSE IF score >= 10 /\ \A n \in runnerUp : score > n THEN "HIGH"
  ELSE IF score >= 5 THEN "MEDIUM" ELSE "LOW"

\* rank_root_causes: by falling score, and by name where scores are equal.
Precedes(signals, i, j) ==
  LET si == ScoreOf(signals, Causes[i])
      sj == ScoreOf(signals, Causes[j])
  IN  si > sj \/ (si = sj /\ i < j)

Rank(signals, i) == 1 + Cardinality({j \in Candidates(signals) : Precedes(signals, j, i)})

Ranked(signals) ==
  {[cause |-> Causes[i], score |-> ScoreOf(signals, Causes[i]), rank |-> Rank(signals, i),
    confidence |-> Confidence(ScoreOf(signals, Causes[i]),
                     {ScoreOf(signals, Causes[j]) :
                        j \in {k \in Candidates(signals) : Rank(signals, k) = Rank(signals, i) + 1}})] :
     i \in Candidates(signals)}

\* analyze_incident: the first candidate is the probable cause.
TopCause(e) == CHOOSE c \in Ranked(Signals(e)) : c.rank = 1
===============================================================================
