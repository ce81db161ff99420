------------------------------- MODULE Assessment -------------------------------
(***************************************************************************)
(* The parts of the program that decide without writing: the quality       *)
(* rules, the drift statistics, the ranking of causes, what the web        *)
(* application derives from the runs, and the two lineage traversals.      *)
(* A behaviour asks one question, with any of the inputs given, or walks   *)
(* one lineage graph; the invariants hold each answer against what it      *)
(* means, stated without the algorithm.                                    *)
(***************************************************************************)
EXTENDS QualityRules, DriftStatistics, RootCause, ReadModel, LineageTraversal

CONSTANTS
  Contexts,      \* quality contexts
  StoredRules,   \* rules an operator may have stored, some of them unusable
  StatusLists,   \* statuses of the results of an evaluation
  SourceSets,    \* sets of sources with their runs
  Now,           \* the time the web application is asked
  Evidences,     \* the evidence of an incident
  Samples,       \* samples of a column
  Schemas,       \* schemas of a dataset
  Graphs         \* lineage graphs: edges, the start, the nodes that are listed

\* Observations and runs are rows of the database, in some order.
ASSUME ContextAssumption ==
  \A c \in Contexts :
    /\ DOMAIN c = {"type", "now", "observations", "runs"}
    /\ c.type \in {"weather", "earthquake"} /\ c.now \in Int
    /\ c.observations \in Seq(Range(c.observations))
    /\ \A i \in DOMAIN c.observations : c.observations[i].at \in Int
    /\ c.runs \in Seq(Range(c.runs))
    /\ \A i \in DOMAIN c.runs : c.runs[i].received \in Nat
ASSUME StatusAssumption == StatusLists \subseteq Seq({"PASS", "WARN", "FAIL", "ERROR", "SKIPPED"})
ASSUME SourceAssumption ==
  /\ Now \in Int
  /\ \A sources \in SourceSets : IsFiniteSet(sources) /\ \A s \in sources :
       /\ s.enabled \in BOOLEAN /\ IsFiniteSet(s.runs)
       /\ \A r \in s.runs : r.status \in {"RUNNING", "FAILED", "PARTIAL"} \cup Succeeded
       /\ \A r \in s.runs : r.started \in Int /\ (r.status \in Succeeded => r.finished \in Int)

ASSUME SamplesAssumption ==
  \A s \in Samples : s \in Seq(Int) /\ 1..Len(s) \subseteq DOMAIN Ln
ASSUME SchemaAssumption ==
  \A s \in Schemas : s \in [DOMAIN s -> [type : STRING, nullable : BOOLEAN]]

ASSUME GraphAssumption ==
  \A g \in Graphs :
    /\ g.edges \subseteq Nat \X Nat /\ IsFiniteSet(g.edges)
    /\ g.start \in Nat \ {0} /\ g.listed \subseteq Nat

VARIABLE question

vars == <<question, walkVars>>

Asks(q) == question' = q /\ UNCHANGED walkVars

AskRules == \E c \in Contexts : Asks([kind |-> "rules", context |-> c])
\* The latest evaluation of a dataset.  Results are stored with the status SUCCESS, in one
\* transaction: one that runs or has FAILED has none, and counts of zero.
AskScore ==
  \/ \E s \in StatusLists : Asks([kind |-> "score", status |-> "SUCCESS", statuses |-> s])
  \/ \E status \in {"RUNNING", "FAILED"} :
       Asks([kind |-> "score", status |-> status, statuses |-> <<>>])
AskPolls == \E s \in SourceSets : Asks([kind |-> "polls", sources |-> s])
AskCause == \E e \in Evidences : Asks([kind |-> "cause", evidence |-> e])
AskDrift == \E b, c \in Samples : Asks([kind |-> "drift", baseline |-> b, current |-> c])
AskSchema == \E b, c \in Schemas : Asks([kind |-> "schema", baseline |-> b, current |-> c])
AskImpact == UNCHANGED question /\ \E g \in Graphs : Begin(g.edges, g.start, g.listed)

Unasked == question.kind = "none" /\ start = 0

Init == question = [kind |-> "none"] /\ WalkInit

Next ==
  \/ /\ Unasked
     /\ AskRules \/ AskScore \/ AskPolls \/ AskCause \/ AskDrift \/ AskSchema \/ AskImpact
  \/ Walk /\ UNCHANGED question

Spec == Init /\ [][Next]_vars

-------------------------------------------------------------------------------
Asked(kind) == question.kind = kind

(***************************************************************************)
(* Quality.                                                                *)
(***************************************************************************)
ResultsOf(type) ==
  LET rules == DefaultRules[question.context.type]
  IN  {[rule |-> rules[i], result |-> Evaluate(question.context, rules[i])] :
         i \in {j \in DOMAIN rules : rules[j].type = type}}

Observed == DOMAIN question.context.observations
At(i) == question.context.observations[i].at

\* A dataset is fresh exactly if something was observed within the allowed age, whatever
\* else has arrived late or carries a time in the future (rules/freshness.py).
FreshIffRecent ==
  Asked("rules") /\ Observed # {} =>
    \A f \in ResultsOf("freshness") :
      f.result.status = "PASS" <=>
        \E i \in Observed : At(i) >= question.context.now - f.rule.config["max_age_minutes"]

\* The duplicates reported are the observations that repeat an earlier one (rules/uniqueness.py).
DuplicatesAreRepeats ==
  Asked("rules") /\ Observed # {} =>
    \A u \in ResultsOf("uniqueness") :
      u.result.affected = Cardinality({i \in Observed : \E j \in Observed :
        /\ j < i
        /\ question.context.observations[i].key = question.context.observations[j].key
        /\ question.context.type = "weather" => At(i) = At(j)})

\* The gaps reported are the times after which nothing is observed for longer than allowed
\* although something follows, however observations arrived (rules/gap.py).
GapsAreHoles ==
  Asked("rules") =>
    \A g \in ResultsOf("timestamp_gap") :
      g.result.affected = Cardinality({t \in {At(i) : i \in Observed} :
        /\ \E i \in Observed : At(i) > t
        /\ \A i \in Observed :
             ~(At(i) > t /\ At(i) <= t + g.rule.config["maximum_allowed_gap_minutes"])})

\* One missing value fails two rules and so opens two incidents: NULL is incomplete and,
\* where the column has a range, out of it (rules/completeness.py, rules/range.py).
NullFailsTwice ==
  Asked("rules") =>
    \A c \in ResultsOf("completeness"), r \in ResultsOf("range") :
      (c.rule.config["column"] = r.rule.config["column"] /\ c.result.status = "FAIL")
        => r.result.status = "FAIL"

\* The volume rule passes exactly if most of the baseline runs lie within a factor of two
\* on each side of the latest one and are not empty: no single run decides (rules/volume.py).
VolumeIsMajority ==
  Asked("rules") =>
    \A v \in ResultsOf("volume") :
      LET volumes == Volumes(question.context.runs)
          most(P(_)) == 2 * Cardinality({i \in 2..(MinimumRuns + 1) : P(volumes[i])}) > MinimumRuns
      IN  Len(volumes) > MinimumRuns =>
            (v.result.status = "PASS" <=>
               /\ most(LAMBDA n : n <= 2 * volumes[1])
               /\ most(LAMBDA n : volumes[1] <= 2 * n)
               /\ most(LAMBDA n : n > 0))

\* After a run that failed or was partial, the volume verdict is the one of the run before:
\* an incident counts an occurrence without a new volume (quality_context).
OldVolumeIsJudgedAgain ==
  Asked("rules") =>
    LET runs == question.context.runs IN
    runs # <<>> /\ Head(runs).status \notin Succeeded =>
      \A v \in ResultsOf("volume") :
        v.result = Evaluate([question.context EXCEPT !.runs = Tail(runs)], v.rule)

\* A rule that cannot be evaluated neither passes nor fails: it resolves no incident, opens
\* none about the data, where an ERROR opens an EVALUATION_ERROR, and does not count in the
\* score (docs/data-quality.md; registry.py, engine.py).
UnusableNeverJudges ==
  Asked("rules") =>
    \A r \in StoredRules :
      (r.type \notin DOMAIN Required \/ ~Required[r.type] \subseteq DOMAIN r.config) =>
        Evaluate(question.context, r).status \in {"ERROR", "SKIPPED"}

\* The rules mean what they say, for every context: an incident is opened and resolved by a
\* verdict a reader of the observations would give.
RulesJudgeAsMeant ==
  /\ FreshIffRecent /\ DuplicatesAreRepeats /\ GapsAreHoles /\ NullFailsTwice
  /\ VolumeIsMajority /\ OldVolumeIsJudgedAgain /\ UnusableNeverJudges

ScoreAsked == Score(question.statuses)
StatusAsked == QualityStatusFromCounts(Counts(question.statuses))

\* The score and the status of an evaluation never contradict one another: a full score is
\* PASS unless something could not be evaluated, no score is UNKNOWN, and PASS, WARN and
\* FAIL have one (scoring.py, apps/web/lib/quality.ts).
ScoreFitsStatus ==
  Asked("score") =>
    /\ StatusAsked \in {"PASS", "WARN", "FAIL"} => HasScore(ScoreAsked)
    /\ StatusAsked = "UNKNOWN" => ~HasScore(ScoreAsked)
    /\ HasScore(ScoreAsked) /\ StatusAsked # "ERROR" =>
         (StatusAsked = "PASS" <=> ScoreAsked.half = 2 * ScoreAsked.scored)

StateAsked ==
  ReliabilityState([status |-> question.status, counts |-> Counts(question.statuses)])

\* How the two pages differ on one evaluation, and no further.  Both warn of the same
\* results, and what the quality page passes is SUCCESS on the reliability page.  FAILED says
\* there that a rule could not be evaluated, ERROR here, or that the evaluation itself
\* failed, of which the quality page only tells UNKNOWN; so it does of one that still runs,
\* and of one without a result that counts, which is SUCCESS (reliability.ts, quality.ts).
PagesDifferAsStated ==
  Asked("score") =>
    /\ StateAsked = "PARTIAL" <=> StatusAsked \in {"FAIL", "WARN"}
    /\ StateAsked = "FAILED" <=> StatusAsked = "ERROR" \/ question.status = "FAILED"
    /\ StateAsked = "SUCCESS" <=> \/ StatusAsked = "PASS"
                                  \/ StatusAsked = "UNKNOWN" /\ question.status = "SUCCESS"
    /\ question.status # "SUCCESS" =>
         StatusAsked = "UNKNOWN" /\ ~HasScore(ScoreAsked) /\ StateAsked = question.status

(***************************************************************************)
(* The read model.                                                         *)
(***************************************************************************)
\* Readiness tells that every enabled source, of at least one, had a successful poll in the
\* last twelve hours, and none that claims to come from the future (docs/source-poll-readiness.md).
ReadyMeansPolled ==
  Asked("polls") =>
    LET polls(s) == {r \in s.runs : r.status \in Succeeded}
        enabled == {s \in question.sources : s.enabled}
    IN  Readiness(question.sources, Now) = "healthy" <=>
          /\ enabled # {}
          /\ \A s \in enabled :
               /\ \E r \in polls(s) : r.finished >= Now - MaxPollAge
               /\ \A r \in polls(s) : r.finished <= Now + Tolerance

\* Successes and failures leave out exactly the runs of the window that have not ended, which
\* lower the success rate; the figures are measured as soon as there is a run (docs/slo.md).
FiguresAddUp ==
  Asked("polls") =>
    LET runs == UNION {s.runs : s \in question.sources}
        figures == Execution(runs, Now)
    IN  /\ figures.runs = figures.successes + figures.failures
             + Cardinality({r \in Recent(runs, Now) : r.status = "RUNNING"})
        /\ WindowState(runs, Now) = "MEASURED" <=> figures.runs > 0

\* What is shown of the same rows, an evaluation or the runs of the sources, on different
\* pages and as score and status: it fits the rows, and differs only as stated.
ReportsFitRows == ScoreFitsStatus /\ PagesDifferAsStated /\ ReadyMeansPolled /\ FiguresAddUp

(***************************************************************************)
(* Root causes.                                                            *)
(***************************************************************************)
\* The probable cause is called HIGH only if it leads every other candidate
\* (docs/root-cause-analysis.md; rca/engine.py compares with the next one only).
HighLeadsAll ==
  Asked("cause") =>
    LET top == TopCause(question.evidence) IN
    top.confidence = "HIGH" =>
      \A c \in Ranked(Signals(question.evidence)) : c.rank # 1 => c.score < top.score

\* With a failed ingestion and a source in the lineage, the source is the probable cause,
\* with confidence, whatever else there is to see (rca/service.py).
FailedSourceIsBlamed ==
  Asked("cause") =>
    LET e == question.evidence IN
    e.ingestion = "FAILED" /\ e.upstream =>
      TopCause(e).cause = "UPSTREAM_SOURCE_FAILURE" /\ TopCause(e).confidence = "HIGH"

\* UNKNOWN is said exactly if the incident cites no quality result, no DRIFT and no failed
\* ingestion.  A stable drift result names no cause, but a quality result does however it
\* ended, the PASS that resolved the incident included (_quality_signal, rca/service.py).
UnknownIffNothingCited ==
  Asked("cause") =>
    LET e == question.evidence IN
    TopCause(e).confidence = "UNKNOWN" <=>
      e.quality = "none" /\ e.drift.status # "DRIFT" /\ e.ingestion # "FAILED"

\* The confidence in the probable cause is earned against the other candidates, and UNKNOWN
\* is left for incidents that cite nothing.
CausesAreEarned == HighLeadsAll /\ FailedSourceIsBlamed /\ UnknownIffNothingCited

\* The claim of the guide: an incident that cites no result that failed or could not be
\* judged, no drift and no failed ingestion has no useful signal, and no cause is named
\* (docs/root-cause-analysis.md).
UnknownWithoutUsefulSignal ==
  Asked("cause") =>
    LET e == question.evidence IN
    e.quality \notin {"FAIL", "ERROR"} /\ e.drift.status # "DRIFT" /\ e.ingestion # "FAILED" =>
      TopCause(e).confidence = "UNKNOWN"

(***************************************************************************)
(* Drift.                                                                  *)
(***************************************************************************)
\* A stored baseline gives the result its observations would give: they need not be kept
\* (docs/drift.md; the two evaluations of drift/engine.py).
StoredBaselineSuffices ==
  Asked("drift") =>
    LET b == question.baseline
        c == question.current
    IN  EvaluateStored(BaselineSummary(b), c) = EvaluateSamples(b, c)

\* After a baseline of equal values, no increase is ever reported: all that is not below it
\* falls into one bin, as rain does after a dry window (_bin_edges, _distribution).
BlindAboveConstant ==
  Asked("drift") =>
    LET b == question.baseline
        c == question.current
    IN  /\ \A i \in DOMAIN b : b[i] = b[1]
        /\ \A i \in DOMAIN c : c[i] >= b[1]
        => EvaluateSamples(b, c).status \in {"STABLE", "SKIPPED"}

\* With no more than the required number of samples there is no small change: one value in
\* another bin is a WARN at least, and a result is STABLE only for equal distributions.
SmallSamplesNeverCalm ==
  Asked("drift") =>
    LET b == question.baseline
        c == question.current
        bins == BinEdges(b)
    IN  Len(b) = MinSamples /\ Len(c) = MinSamples =>
          (EvaluateSamples(b, c).status = "STABLE" <=> Distribution(b, bins) = Distribution(c, bins))

\* Schemas differ exactly where a difference is reported, and the way back reports the
\* opposite (compare_schema).
DifferencesMirror ==
  Asked("schema") =>
    LET b == question.baseline
        c == question.current
        opposite(k) == CASE k = "ADDED" -> "REMOVED" [] k = "REMOVED" -> "ADDED" [] OTHER -> k
    IN  /\ CompareSchema(b, c) = {} <=> b = c
        /\ CompareSchema(c, b) = {[d EXCEPT !.kind = opposite(d.kind)] : d \in CompareSchema(b, c)}

\* What the drift index sees, and what it cannot see.
DriftIsMeasured ==
  StoredBaselineSuffices /\ BlindAboveConstant /\ SmallSamplesNeverCalm /\ DifferencesMirror

(***************************************************************************)
(* Lineage.                                                                *)
(***************************************************************************)
\* The nodes at most n edges of the graph `pairs' below the node `from', for each n.
Below(pairs, from) ==
  LET within[n \in 0..MaxDepth] ==
        IF n = 0 THEN {from}
        ELSE within[n - 1] \cup {e[2] : e \in {f \in pairs : f[1] \in within[n - 1]}}
  IN  within

\* A path of the graph `pairs' from the start to the node of an entry, as long as it says.
IsPath(entry, pairs) ==
  /\ Len(entry.path) = entry.distance + 1
  /\ entry.path[1] = start /\ Last(entry.path) = entry.node
  /\ \A i \in 1..entry.distance : <<entry.path[i], entry.path[i + 1]>> \in pairs

\* found lists each node within the depth once, by the shortest path.
IsImpact(found, pairs) ==
  /\ {found[i].node : i \in DOMAIN found} = Below(pairs, start)[MaxDepth] \ {start}
  /\ \A i, j \in DOMAIN found : found[i].node = found[j].node => i = j
  /\ \A i \in DOMAIN found :
       /\ IsPath(found[i], pairs)
       /\ found[i].node \notin Below(pairs, start)[found[i].distance - 1]

\* The snapshot of an incident lists every affected node within the depth once, with its
\* shortest distance, also over cycles and second paths (docs/lineage.md, traversal.py).
ImpactIsShortest == Walks => IsImpact(impact.pipeline, edges)

\* The page shows the impact within the nodes it reads, never one that the snapshot does not
\* have or has further away, and the same list if it reads all of them (lineage.ts).
PageMatchesSnapshot ==
  Walks =>
    /\ IsImpact(impact.web, {e \in edges : {e[1], e[2]} \subseteq listed})
    /\ \A i \in DOMAIN impact.web : \E j \in DOMAIN impact.pipeline :
         /\ impact.pipeline[j].node = impact.web[i].node
         /\ impact.pipeline[j].distance <= impact.web[i].distance
    /\ Below(edges, start)[MaxDepth] \subseteq listed => impact.web = impact.pipeline

\* Both walks are right, and agree.
ImpactsAgree == ImpactIsShortest /\ PageMatchesSnapshot
===============================================================================
