----------------------------- MODULE DriftStatistics -----------------------------
(***************************************************************************)
(* The drift algorithms of drift/engine.py as pure operators: quantiles,   *)
(* the bins they make, the population stability index and its thresholds,  *)
(* computed from two samples or from a stored baseline, and the comparison *)
(* of schemas.  A sample is a sequence of integers; quantiles are in       *)
(* tenths and shares, logarithms and thresholds in thousandths.            *)
(***************************************************************************)
EXTENDS Integers, Sequences, FiniteSets, Functions, Ordering

CONSTANTS
  MinSamples,    \* minimum_samples of a feature
  Threshold,     \* its threshold in thousandths
  Ln             \* n -> the natural logarithm of n in thousandths

\* The numeric features of drift/config.py.
ASSUME SampleAssumption == MinSamples = 5 /\ Threshold \in {200, 300}
ASSUME LnAssumption ==
  /\ \A n \in DOMAIN Ln : n \in Nat \ {0} /\ Ln[n] \in Nat
  /\ 1..5 \subseteq DOMAIN Ln
  /\ Ln[1] = 0 /\ Ln[2] = 693 /\ Ln[3] = 1099 /\ Ln[4] = 1386 /\ Ln[5] = 1609

\* _quantile for the probability k / 10, times 10: between two neighbours by interpolation.
Quantile(sample, k) ==
  LET ordered == Sorted(sample)
      position == (Len(sample) - 1) * k
      lower == 1 + position \div 10
      upper == IF lower = Len(sample) THEN lower ELSE lower + 1
  IN  10 * ordered[lower] + (ordered[upper] - ordered[lower]) * (position % 10)

\* _bin_edges: equal deciles are one edge.
BinEdges(sample) == {Quantile(sample, k) : k \in 1..9}

\* Wrong on purpose: bisect_left, a value on an edge belongs to the bin below it.
BinBelow(edges, v) == Cardinality({e \in edges : e < 10 * v})

\* bisect_right: a value on an edge belongs to the bin above it.
Bin(edges, v) == Cardinality({e \in edges : e <= 10 * v})

\* _distribution as counts: bins 0..|edges|, and `total' for their sum.
Distribution(sample, edges) ==
  [counts |-> [b \in 0..Cardinality(edges) |->
                 Cardinality({i \in DOMAIN sample : Bin(edges, sample[i]) = b})],
   total |-> Len(sample)]

Epsilon == -13816    \* the logarithm of epsilon, which stands for an empty bin
LnShare(n, total) == IF n = 0 THEN Epsilon ELSE Ln[n] - Ln[total]

\* _psi, times 1000 and the product of the two totals.
Psi(expected, actual) ==
  SumFunction([b \in DOMAIN expected.counts |->
                 (actual.counts[b] * expected.total - expected.counts[b] * actual.total)
                   * (LnShare(actual.counts[b], actual.total)
                        - LnShare(expected.counts[b], expected.total))])

\* Wrong on purpose: there is no WARN.
StatusForDriftOnly(psi, totals) == IF psi >= Threshold * totals THEN "DRIFT" ELSE "STABLE"

\* DRIFT from the threshold on, WARN from half of it.
StatusFor(psi, totals) ==
  IF psi >= Threshold * totals THEN "DRIFT"
  ELSE IF 2 * psi >= Threshold * totals THEN "WARN" ELSE "STABLE"

NumericResult(status, reason) == [status |-> status, reason |-> reason]

Compared(expected, actual) ==
  NumericResult(StatusFor(Psi(expected, actual), expected.total * actual.total), "none")

\* evaluate_numeric_drift: both samples are at hand.
EvaluateSamples(baseline, current) ==
  LET edges == BinEdges(baseline)
  IN  IF Len(baseline) < MinSamples THEN NumericResult("SKIPPED", "INSUFFICIENT_BASELINE")
      ELSE IF Len(current) < MinSamples THEN NumericResult("SKIPPED", "INSUFFICIENT_CURRENT")
      ELSE Compared(Distribution(baseline, edges), Distribution(current, edges))

\* Wrong on purpose: the median is stored as the only edge.
BaselineSummaryMedian(sample) ==
  LET edges == {Quantile(sample, 5)}
  IN  [sample_count |-> Len(sample), bins |-> edges, distribution |-> Distribution(sample, edges)]

\* numeric_baseline_summary: what a baseline row keeps of a sample for the comparison.
BaselineSummary(sample) ==
  LET edges == BinEdges(sample)
  IN  [sample_count |-> Len(sample), bins |-> edges, distribution |-> Distribution(sample, edges)]

\* evaluate_numeric_distribution: of the baseline only the row is left.
EvaluateStored(row, current) ==
  IF row.sample_count < MinSamples THEN NumericResult("SKIPPED", "INSUFFICIENT_BASELINE")
  ELSE IF Len(current) < MinSamples THEN NumericResult("SKIPPED", "INSUFFICIENT_CURRENT")
  ELSE Compared(row.distribution, Distribution(current, row.bins))

-------------------------------------------------------------------------------
(***************************************************************************)
(* A schema maps fields to their `type' and whether they are `nullable'.   *)
(***************************************************************************)
Difference(field, kind) == [field |-> field, kind |-> kind]

\* Wrong on purpose: only the fields of the baseline are compared.
CompareSchemaOneWay(baseline, current) ==
  {Difference(f, IF f \notin DOMAIN current THEN "REMOVED" ELSE "TYPE_CHANGED") :
     f \in {g \in DOMAIN baseline : g \notin DOMAIN current \/ baseline[g] # current[g]}}

\* compare_schema.
CompareSchema(baseline, current) ==
  LET both == DOMAIN baseline \cap DOMAIN current IN
  UNION {{Difference(f, "ADDED") : f \in DOMAIN current \ DOMAIN baseline},
         {Difference(f, "REMOVED") : f \in DOMAIN baseline \ DOMAIN current},
         {Difference(f, "TYPE_CHANGED") : f \in {g \in both : baseline[g].type # current[g].type}},
         {Difference(f, "NULLABILITY_CHANGED") :
            f \in {g \in both : /\ baseline[g].type = current[g].type
                                /\ baseline[g].nullable # current[g].nullable}}}
===============================================================================
