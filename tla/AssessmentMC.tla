------------------------------ MODULE AssessmentMC ------------------------------
(***************************************************************************)
(* The inputs of Assessment for TLC: samples, observations and runs small  *)
(* enough to take all of them, with every case the code tells apart.       *)
(***************************************************************************)
EXTENDS Assessment

\* Sequences of at most n elements of s; those that are in order.
UpTo(s, n) == UNION {[1..k -> s] : k \in 0..n}
Ordered(seqs, le(_, _)) == {q \in seqs : \A i \in 1..(Len(q) - 1) : le(q[i], q[i + 1])}

\* Ln[n] = 1000 * ln(n), rounded.
MCLn == <<0, 693, 1099, 1386, 1609, 1792>>

MCSamples == Ordered([1..4 -> 0..3] \cup [1..5 -> 0..3], <=)

\* Minutes around the limits of freshness (180, 1440) and of gaps (90).
MCNow == 1500
Observation(at, key, t) ==
  [at |-> at, key |-> key,
   fields |-> [temperature_c |-> t, relative_humidity_pct |-> <<50>>, precipitation_mm |-> <<0>>,
               event_id |-> <<key>>, magnitude |-> t, latitude |-> <<0>>, longitude |-> <<0>>,
               depth_km |-> <<0>>]]
MCObservations ==
  {Observation(at, key, t) : at \in {60, 1320, 1410, 1500, 1560}, key \in {1, 2}, t \in {<<>>, <<-10>>, <<99>>}}

Context(type, observations, runs) ==
  [type |-> type, now |-> MCNow, observations |-> observations, runs |-> runs]
Run(status, received) == [status |-> status, received |-> received]

MCContexts ==
  {Context(type, o, <<>>) : type \in {"weather", "earthquake"},
     o \in Ordered(UpTo(MCObservations, 2), LAMBDA x, y : x.at <= y.at)} \cup
  {Context("weather", [i \in 1..3 |-> Observation(at[i], 1, <<0>>)], <<>>) :
     at \in [1..3 -> {1200, 1320, 1410, 1411, 1500}]} \cup
  {Context("earthquake", <<>>, runs) :
     runs \in UpTo({Run(s, n) : s \in {"SUCCESS", "PARTIAL"}, n \in 0..3}, 5)}

MCStoredRules ==
  {[type |-> "freshness", config |-> <<>>], [type |-> "schema", config |-> <<>>],
   [type |-> "timestamp_gap", config |-> [expected_interval_minutes |-> 60]],
   [type |-> "range", config |-> [min |-> 0]], AtLeast("magnitude", 0)}

MCStatusLists == UpTo({"PASS", "WARN", "FAIL", "ERROR", "SKIPPED"}, 4)

PollRuns ==
  {[id |-> 1, status |-> s, started |-> f - 1, finished |-> f] :
     s \in {"SUCCESS", "NO_CHANGE", "PARTIAL", "RUNNING"}, f \in {-50000, 779, 780, 1500}} \cup
  {[id |-> 2, status |-> s, started |-> 1500, finished |-> f] :
     s \in {"SUCCESS", "FAILED"}, f \in {1505, 1506}}
Source(slug, enabled, runs) == [slug |-> slug, enabled |-> enabled, runs |-> runs]
MCSourceSets ==
  {{Source("usgs", e, {r, s}), Source("open-meteo", f, t)} : e, f \in BOOLEAN,
     r, s \in PollRuns, t \in {{}} \cup {{[u EXCEPT !.id = 3]} : u \in PollRuns}}

MCEvidences ==
  [family : {"freshness", "continuity", "volume", "other"},
   kind : {"DATA_QUALITY", "EVALUATION_ERROR"}, quality : {"FAIL", "ERROR", "PASS"},
   drift : {[status |-> "none", method |-> "none"]},
   ingestion : {"none", "SUCCESS", "FAILED"}, upstream : BOOLEAN] \cup
  [family : {"other"}, kind : {"DATA_DRIFT"}, quality : {"none"},
   drift : [status : {"DRIFT", "STABLE"}, method : {"PSI", "SCHEMA_DIFF"}],
   ingestion : {"none", "SUCCESS", "FAILED"}, upstream : BOOLEAN]

MCSchemas ==
  UNION {[fields -> [type : {"number", "string"}, nullable : BOOLEAN]] : fields \in SUBSET {"place", "magnitude"}}

Pairs == {e \in (1..4) \X (1..4) : e[1] # e[2] /\ e[2] # 1} \cup {<<3, 1>>}
MCGraphs ==
  {[edges |-> es, start |-> 1, listed |-> {1} \cup l] : es \in SUBSET Pairs, l \in SUBSET (2..4)} \cup
  {SeededWeather, SeededEarthquakes}
===============================================================================
