----------------------------- MODULE DriftBaselines -----------------------------
(***************************************************************************)
(* `opendq drift baseline create' and `opendq drift evaluate' as processes *)
(* that run against one another on one dataset (drift/service.py,          *)
(* drift/repository.py, the tables of 004_drift_rca.sql).  Each command is *)
(* ONE transaction: its first SELECT opens it and nothing is visible to    *)
(* others until the connection closes without an exception.  Every         *)
(* statement reads what is committed when it starts (READ COMMITTED), and  *)
(* waits where PostgreSQL waits: for a row another transaction is          *)
(* updating, and for an uncommitted row with the same unique key.          *)
(*                                                                         *)
(* PSI is not computed here (see Assessment): a numeric check that has     *)
(* enough observations is MEASURED.                                        *)
(***************************************************************************)
EXTENDS Naturals, Sequences, FiniteSets, SequencesExt

CONSTANTS
  Columns,          \* numeric columns of the registry
  SchemaColumn,     \* the feature that compares schemas
  Registry,         \* the features of the dataset, in the order of DRIFT_FEATURES
  Creators,         \* processes that create baselines
  Evaluators,       \* processes that evaluate drift
  Observations,     \* identities of observations
  ObservedAt,       \* their times; two may have the same
  BaselineLimit,    \* observations a baseline is computed from (1000)
  CurrentLimit,     \* observations an evaluation compares with it (100)
  MinimumSamples,   \* observations either of them needs (5)
  MaxCommands,      \* bound on the commands run
  MaxReleases       \* bound on the versions of canonical_schema the code has had

Features == Columns \cup {SchemaColumn}
Processes == Creators \cup Evaluators

ASSUME RegistryAssumption ==
  /\ SchemaColumn \notin Columns
  /\ Registry \in Seq(Features) /\ ToSet(Registry) = Features /\ IsInjective(Registry)
ASSUME TimeAssumption == ObservedAt \in [Observations -> Nat]
ASSUME LimitAssumption ==
  {BaselineLimit, CurrentLimit, MinimumSamples, MaxCommands, MaxReleases} \subseteq Nat \ {0}
ASSUME ProcessAssumption == Creators \cap Evaluators = {}

VARIABLES
  observed,      \* raw_observations: column -> observations with a value in it
  release,       \* the version of the code that is installed
  schema,        \* dataset_versions: the release that wrote its row, 0 if there is none
  batches,       \* drift_baselines: the rows each committed creation inserted, in commit order
  active,        \* the committed rows that are active
  evaluations,   \* the committed drift evaluations
  commands,      \* commands started so far
  pc, done,      \* each process: its next statement, the features it is done with
  draft,         \* each creator: what its transaction has written and nobody else sees
  pick,          \* each creator: the baseline it is about to insert
  found,         \* each evaluator: the baseline it compares with
  results, had   \* each evaluator: its results, the features that had a baseline when it began

tables == <<observed, release, schema, batches, active>>
creatorVars == <<draft, pick>>
evaluatorVars == <<found, results, had>>
vars == <<tables, evaluations, commands, pc, done, creatorVars, evaluatorVars>>

\* A row.  A numeric baseline is computed from observations, a schema baseline holds the
\* stored schema; both are sets of numbers here.
Basis == SUBSET (Observations \cup 1..MaxReleases)
Row == [feature : Features, version : Nat \ {0}, basis : Basis]
Outcome == {"BASELINE_UNAVAILABLE", "INSUFFICIENT_CURRENT", "MEASURED", "STABLE", "DRIFT"}
Result == [feature : Features, version : Nat, outcome : Outcome, current : SUBSET Observations]

baselines == UNION ToSet(batches)
NoDraft == [new |-> {}, off |-> {}, schema |-> 0]
NoPick == [version |-> 0, basis |-> {}, target |-> {}]

TypeOK ==
  /\ observed \in [Columns -> SUBSET Observations]
  /\ release \in 1..MaxReleases /\ schema \in 0..MaxReleases
  /\ batches \in Seq(SUBSET Row) /\ active \subseteq baselines
  /\ evaluations \subseteq [status : {"SUCCESS", "PARTIAL", "NO_BASELINE"},
                            results : Seq(Result), had : SUBSET Features]
  /\ commands \in 0..MaxCommands
  /\ pc \in [Processes -> {"idle", "ensure", "sample", "version", "target", "deactivate",
                           "insert", "baseline", "compare"}]
  /\ done \in [Processes -> SUBSET Features]
  /\ draft \in [Creators -> [new : SUBSET Row, off : SUBSET baselines, schema : 0..MaxReleases]]
  /\ pick \in [Creators -> [version : Nat, basis : Basis, target : SUBSET baselines]]
  /\ found \in [Evaluators -> SUBSET baselines]
  /\ results \in [Evaluators -> Seq(Result)] /\ had \in [Evaluators -> SUBSET Features]

\* The dataset may have observations from before the release that stores schemas.
Init ==
  /\ observed \in [Columns -> {s \in SUBSET Observations : IsFiniteSet(s)}]
  /\ release = 1 /\ schema = 0
  /\ batches = <<>> /\ active = {} /\ evaluations = {} /\ commands = 0
  /\ pc = [p \in Processes |-> "idle"] /\ done = [p \in Processes |-> {}]
  /\ draft = [c \in Creators |-> NoDraft] /\ pick = [c \in Creators |-> NoPick]
  /\ found = [e \in Evaluators |-> {}]
  /\ results = [e \in Evaluators |-> <<>>] /\ had = [e \in Evaluators |-> {}]

-------------------------------------------------------------------------------
(***************************************************************************)
(* The surroundings: ingestion registers its dataset and then stores       *)
(* observations, in any order of time; a release changes canonical_schema. *)
(***************************************************************************)
\* ensure_source_dataset, first in every ingestion: ensure_schema_version stores the schema
\* unless one is stored, and waits for a creation that has inserted it.
Register ==
  /\ schema = 0 /\ \A c \in Creators : draft[c].schema = 0
  /\ schema' = release
  /\ UNCHANGED <<observed, release, batches, active, evaluations, commands, pc, done, creatorVars,
                 evaluatorVars>>

Ingest(o) ==
  /\ schema # 0 /\ \A c \in Columns : o \notin observed[c]
  /\ \E cs \in SUBSET Columns \ {{}} :
       observed' = [c \in Columns |-> IF c \in cs THEN observed[c] \cup {o} ELSE observed[c]]
  /\ UNCHANGED <<release, schema, batches, active, evaluations, commands, pc, done, creatorVars,
                 evaluatorVars>>

Release ==
  /\ release < MaxReleases
  /\ release' = release + 1
  /\ UNCHANGED <<observed, schema, batches, active, evaluations, commands, pc, done, creatorVars,
                 evaluatorVars>>

-------------------------------------------------------------------------------
(***************************************************************************)
(* What a process reads.                                                   *)
(***************************************************************************)
\* Wrong on purpose: the features of a dataset come out of a set, in no particular order.
UpcomingInAnyOrder(p) == Features \ done[p]

\* features_for_dataset: the next feature of the registry, if one is left.
Upcoming(p) == IF done[p] = Features THEN {} ELSE {Registry[Cardinality(done[p]) + 1]}

\* observations: n of the observations s in the order of their times, equal times in any order.
Leading(s, n, latest) ==
  LET Before(o, p) == IF latest THEN ObservedAt[o] > ObservedAt[p] ELSE ObservedAt[o] < ObservedAt[p]
  IN  {l \in SUBSET s : /\ Cardinality(l) = IF Cardinality(s) < n THEN Cardinality(s) ELSE n
                        /\ \A o \in l, p \in s \ l : ~Before(p, o)}

\* The sample of a baseline: ORDER BY observed_at ASC LIMIT 1000.
Oldest(c) == Leading(observed[c], BaselineLimit, FALSE)

WindowEnd(basis) == CHOOSE t \in {ObservedAt[o] : o \in basis} : \A o \in basis : ObservedAt[o] <= t

\* Wrong on purpose: the current sample ignores the window of the baseline.
LatestOfAll(c, basis) == Leading(observed[c], CurrentLimit, TRUE)

\* The current sample: observed_at > window_end, ORDER BY observed_at DESC LIMIT 100.
LatestAfter(c, basis) ==
  Leading({o \in observed[c] : ObservedAt[o] > WindowEnd(basis)}, CurrentLimit, TRUE)

RowsOf(f, rows) == {b \in rows : b.feature = f}

\* Wrong on purpose: any version may be found, not the active one.
AnyBaseline(f) == RowsOf(f, baselines)

\* active_baseline.
ActiveBaseline(f) == RowsOf(f, active)

-------------------------------------------------------------------------------
(***************************************************************************)
(* Creation: create_baselines.                                             *)
(***************************************************************************)
Collides(c, f, rows) ==
  \/ \E b \in rows : b.feature = f /\ b.version = pick[c].version
  \/ \E b \in RowsOf(f, active) : b \in rows /\ b \notin draft[c].off

\* Wrong on purpose: only the index on active rows is there, not the unique constraint.
ViolatesActiveOnly(c, f) == \E b \in RowsOf(f, active) : b \notin draft[c].off

\* The INSERT of c would break UNIQUE (.., baseline_version) or drift_baselines_active_idx.
Violates(c, f) == Collides(c, f, baselines)

\* A statement of c waits until the transaction of d ends.
WaitsFor(c, d) ==
  /\ c # d
  /\ \/ pc[c] = "ensure" /\ schema = 0 /\ draft[d].schema # 0
     \/ pc[c] = "deactivate" /\ pick[c].target \cap draft[d].off # {}
     \/ /\ pc[c] = "insert"
        /\ \E f \in Upcoming(c) : ~Violates(c, f) /\ RowsOf(f, draft[d].new) # {}

Runs(c) == \A d \in Creators : ~WaitsFor(c, d)

Begin(p, label) ==
  /\ pc[p] = "idle" /\ commands < MaxCommands
  /\ commands' = commands + 1
  /\ pc' = [pc EXCEPT ![p] = label]

BeginCreation(c) ==
  /\ Begin(c, "ensure")
  /\ UNCHANGED <<tables, evaluations, done, creatorVars, evaluatorVars>>

Goto(p, label) == pc' = [pc EXCEPT ![p] = label]

\* Wrong on purpose: the stored schema follows the code.
EnsureLatestSchema(c) ==
  /\ pc[c] = "ensure" /\ Runs(c)
  /\ draft' = [draft EXCEPT ![c].schema = release]
  /\ Goto(c, "sample")
  /\ UNCHANGED <<tables, evaluations, commands, done, pick, evaluatorVars>>

\* A creation calls ensure_schema_version when current_schema finds none: ON CONFLICT DO
\* NOTHING, and the version is always '1', so what another stored meanwhile stays.
EnsureSchemaVersion(c) ==
  /\ pc[c] = "ensure" /\ Runs(c)
  /\ draft' = [draft EXCEPT ![c].schema = IF schema = 0 THEN release ELSE 0]
  /\ Goto(c, "sample")
  /\ UNCHANGED <<tables, evaluations, commands, done, pick, evaluatorVars>>

\* current_schema, inside the transaction of c.
VisibleSchema(c) == IF draft[c].schema # 0 THEN draft[c].schema ELSE schema

\* observations, or current_schema: too few observations leave the feature as it is.
Sample(c) ==
  /\ pc[c] = "sample"
  /\ \E f \in Upcoming(c) :
       \E basis \in IF f = SchemaColumn THEN {{VisibleSchema(c)}} ELSE Oldest(f) :
         IF f # SchemaColumn /\ Cardinality(basis) < MinimumSamples
         THEN done' = [done EXCEPT ![c] = @ \cup {f}] /\ UNCHANGED <<pc, pick>>
         ELSE /\ pick' = [pick EXCEPT ![c].basis = basis]
              /\ Goto(c, "version")
              /\ UNCHANGED done
  /\ UNCHANGED <<tables, evaluations, commands, draft, evaluatorVars>>

\* SELECT COALESCE(MAX(baseline_version), 0) + 1.
ReadVersion(c) ==
  /\ pc[c] = "version"
  /\ \E f \in Upcoming(c) :
       pick' = [pick EXCEPT ![c].version = 1 +
                  (CHOOSE n \in {0} \cup {b.version : b \in RowsOf(f, baselines)} :
                     \A b \in RowsOf(f, baselines) : b.version <= n)]
  /\ Goto(c, "target")
  /\ UNCHANGED <<tables, evaluations, commands, done, draft, evaluatorVars>>

\* UPDATE .. SET active = FALSE starts: the row it sees as active.
FindActive(c) ==
  /\ pc[c] = "target"
  /\ \E f \in Upcoming(c) : pick' = [pick EXCEPT ![c].target = ActiveBaseline(f)]
  /\ Goto(c, "deactivate")
  /\ UNCHANGED <<tables, evaluations, commands, done, draft, evaluatorVars>>

\* .. and ends: once the row is free it is read again, and left alone if no longer active.
Deactivate(c) ==
  /\ pc[c] = "deactivate" /\ Runs(c)
  /\ draft' = [draft EXCEPT ![c].off = @ \cup (pick[c].target \cap active)]
  /\ Goto(c, "insert")
  /\ UNCHANGED <<tables, evaluations, commands, done, pick, evaluatorVars>>

\* INSERT .. active = TRUE; a unique violation ends the command, see Abort.
Insert(c) ==
  /\ pc[c] = "insert" /\ Runs(c)
  /\ \E f \in Upcoming(c) :
       /\ ~Violates(c, f)
       /\ draft' = [draft EXCEPT ![c].new = @ \cup
                      {[feature |-> f, version |-> pick[c].version, basis |-> pick[c].basis]}]
       /\ done' = [done EXCEPT ![c] = @ \cup {f}]
  /\ pick' = [pick EXCEPT ![c] = NoPick]
  /\ Goto(c, "sample")
  /\ UNCHANGED <<tables, evaluations, commands, evaluatorVars>>

Ends(p) == pc' = [pc EXCEPT ![p] = "idle"] /\ done' = [done EXCEPT ![p] = {}]
Forgets(c) == draft' = [draft EXCEPT ![c] = NoDraft] /\ pick' = [pick EXCEPT ![c] = NoPick]

\* Wrong on purpose: rows become active that are not inserted.
CommitWithoutRows(c) ==
  /\ pc[c] = "sample" /\ Upcoming(c) = {}
  /\ active' = (active \ draft[c].off) \cup draft[c].new
  /\ schema' = VisibleSchema(c)
  /\ Ends(c) /\ Forgets(c)
  /\ UNCHANGED <<observed, release, batches, evaluations, commands, evaluatorVars>>

\* The connection closes and commits.
Commit(c) ==
  /\ pc[c] = "sample" /\ Upcoming(c) = {}
  /\ batches' = Append(batches, draft[c].new)
  /\ active' = (active \ draft[c].off) \cup draft[c].new
  /\ schema' = VisibleSchema(c)
  /\ Ends(c) /\ Forgets(c)
  /\ UNCHANGED <<observed, release, evaluations, commands, evaluatorVars>>

\* Wrong on purpose: the locks of a transaction that fails stay behind.
KeepsLocks(c) == pick' = [pick EXCEPT ![c] = NoPick] /\ UNCHANGED draft

\* What is left of a transaction that fails: nothing.
RollsBack(c) == Forgets(c)

\* A unique violation: the exception leaves _drift, the connection rolls back.
Abort(c) ==
  /\ pc[c] = "insert" /\ \E f \in Upcoming(c) : Violates(c, f)
  /\ Ends(c) /\ RollsBack(c)
  /\ UNCHANGED <<tables, evaluations, commands, evaluatorVars>>

CrashCreator(c) ==
  /\ pc[c] # "idle"
  /\ Ends(c) /\ RollsBack(c)
  /\ UNCHANGED <<tables, evaluations, commands, evaluatorVars>>

-------------------------------------------------------------------------------
(***************************************************************************)
(* Evaluation: evaluate_dataset.                                           *)
(***************************************************************************)
BeginEvaluation(e) ==
  /\ Begin(e, "baseline")
  /\ had' = [had EXCEPT ![e] = {b.feature : b \in active}]
  /\ UNCHANGED <<tables, evaluations, done, creatorVars, found, results>>

Records(e, f, outcome, version, current) ==
  /\ results' = [results EXCEPT ![e] = Append(@,
       [feature |-> f, version |-> version, outcome |-> outcome, current |-> current])]
  /\ done' = [done EXCEPT ![e] = @ \cup {f}]

ReadBaseline(e) ==
  /\ pc[e] = "baseline"
  /\ \E f \in Upcoming(e) :
       \/ /\ ActiveBaseline(f) = {}
          /\ Records(e, f, "BASELINE_UNAVAILABLE", 0, {})
          /\ UNCHANGED <<pc, found>>
       \/ \E b \in ActiveBaseline(f) :
            /\ found' = [found EXCEPT ![e] = {b}]
            /\ Goto(e, "compare")
            /\ UNCHANGED <<results, done>>
  /\ UNCHANGED <<tables, evaluations, commands, creatorVars, had>>

CompareSchema(e) ==
  /\ pc[e] = "compare"
  /\ \E b \in found[e] :
       /\ b.feature = SchemaColumn
       /\ Records(e, SchemaColumn, IF b.basis = {schema} THEN "STABLE" ELSE "DRIFT", b.version, {})
  /\ found' = [found EXCEPT ![e] = {}]
  /\ Goto(e, "baseline")
  /\ UNCHANGED <<tables, evaluations, commands, creatorVars, had>>

CompareColumn(e) ==
  /\ pc[e] = "compare"
  /\ \E b \in found[e] :
       /\ b.feature \in Columns
       /\ \E current \in LatestAfter(b.feature, b.basis) :
            Records(e, b.feature,
                    IF Cardinality(current) < MinimumSamples THEN "INSUFFICIENT_CURRENT" ELSE "MEASURED",
                    b.version, current)
  /\ found' = [found EXCEPT ![e] = {}]
  /\ Goto(e, "baseline")
  /\ UNCHANGED <<tables, evaluations, commands, creatorVars, had>>

Skipped == {"BASELINE_UNAVAILABLE", "INSUFFICIENT_CURRENT"}

\* Wrong on purpose: one missing baseline is enough.
StatusByOneMissing(rs) ==
  IF \E i \in DOMAIN rs : rs[i].outcome = "BASELINE_UNAVAILABLE" THEN "NO_BASELINE"
  ELSE IF \E i \in DOMAIN rs : rs[i].outcome \in Skipped THEN "PARTIAL" ELSE "SUCCESS"

\* The status of an evaluation.
StatusOf(rs) ==
  IF \A i \in DOMAIN rs : rs[i].outcome = "BASELINE_UNAVAILABLE" THEN "NO_BASELINE"
  ELSE IF \E i \in DOMAIN rs : rs[i].outcome \in Skipped THEN "PARTIAL" ELSE "SUCCESS"

\* complete_evaluation, reconciliation (see IncidentLifecycle) and the commit.
FinishEvaluation(e) ==
  /\ pc[e] = "baseline" /\ Upcoming(e) = {}
  /\ evaluations' = evaluations \cup
       {[status |-> StatusOf(results[e]), results |-> results[e], had |-> had[e]]}
  /\ results' = [results EXCEPT ![e] = <<>>] /\ had' = [had EXCEPT ![e] = {}]
  /\ Ends(e)
  /\ UNCHANGED <<tables, commands, creatorVars, found>>

\* An exception or a crash: fail_evaluation is rolled back with everything else.
CrashEvaluator(e) ==
  /\ pc[e] # "idle"
  /\ found' = [found EXCEPT ![e] = {}]
  /\ results' = [results EXCEPT ![e] = <<>>] /\ had' = [had EXCEPT ![e] = {}]
  /\ Ends(e)
  /\ UNCHANGED <<tables, evaluations, commands, creatorVars>>

-------------------------------------------------------------------------------
Creates(c) ==
  \/ EnsureSchemaVersion(c) \/ Sample(c) \/ ReadVersion(c) \/ FindActive(c) \/ Deactivate(c)
  \/ Insert(c) \/ Commit(c) \/ Abort(c)

Evaluates(e) ==
  ReadBaseline(e) \/ CompareSchema(e) \/ CompareColumn(e) \/ FinishEvaluation(e)

Next ==
  \/ \E o \in Observations : Ingest(o)
  \/ Register \/ Release
  \/ \E c \in Creators : BeginCreation(c) \/ Creates(c) \/ CrashCreator(c)
  \/ \E e \in Evaluators : BeginEvaluation(e) \/ Evaluates(e) \/ CrashEvaluator(e)

Spec == Init /\ [][Next]_vars

\* A process that can run its next statement does: PostgreSQL wakes a transaction when the
\* one it waits for ends.
FairSpec ==
  /\ Spec
  /\ \A c \in Creators : WF_vars(Creates(c))
  /\ \A e \in Evaluators : WF_vars(Evaluates(e))

-------------------------------------------------------------------------------
(***************************************************************************)
(* Properties.                                                             *)
(***************************************************************************)
\* The committed baselines of each feature, and the versions of them that are active.
Generations ==
  [f \in Features |-> {[version |-> b.version, basis |-> b.basis] : b \in RowsOf(f, baselines)}]
ActiveVersions == [f \in Features |-> {b.version : b \in RowsOf(f, active)}]

History == INSTANCE BaselineHistory WITH generations <- Generations, current <- ActiveVersions

\* However creations interleave and crash, the table is a history of numbered generations of
\* which exactly the last is active, and never changes an old one.
ImplementsHistory == History!Spec

\* A result compares observations with the version it names, and every one of them is newer
\* than all that baseline was computed from, even if it is being replaced meanwhile.
CurrentIsLater ==
  \A e \in evaluations : \A i \in DOMAIN e.results :
    LET r == e.results[i] IN
    r.version # 0 =>
      \E b \in baselines :
        /\ b.feature = r.feature /\ b.version = r.version
        /\ b.feature \in Columns =>
             \A o \in r.current, s \in b.basis : ObservedAt[o] > ObservedAt[s]

\* An evaluation that has used a baseline of one creation never turns to a baseline that
\* creation had replaced.
ReadsNeverGoBack ==
  \A e \in evaluations : \A i, j \in DOMAIN e.results, k \in DOMAIN batches :
    LET used == e.results[i]
        next == e.results[j]
    IN  /\ i < j
        /\ \E b \in batches[k] : b.feature = used.feature /\ b.version = used.version
        => \A b \in batches[k] : b.feature = next.feature => b.version <= next.version

\* NO_BASELINE is only reported of a dataset that had none, SUCCESS only of one with a
\* baseline for every feature.
StatusIsTrue ==
  \A e \in evaluations :
    /\ e.status = "NO_BASELINE" => e.had = {}
    /\ e.status = "SUCCESS" => \A f \in Features : RowsOf(f, active) # {}

\* What an evaluation says is true of the baselines it names, whatever is activated meanwhile.
EvaluationsAreSound == CurrentIsLater /\ ReadsNeverGoBack /\ StatusIsTrue

\* The schema check compares the stored schema with itself: dataset_versions is written once,
\* so a release that changes canonical_schema is never reported.
SchemaComparedWithItself ==
  \A e \in evaluations : \A i \in DOMAIN e.results : e.results[i].outcome # "DRIFT"

\* Every command ends: a creation that has to wait gets its turn.  Two of them never wait for one
\* another in a circle, because both take the features in the order of the registry.
EveryCommandEnds == \A p \in Processes : pc[p] # "idle" ~> pc[p] = "idle"
===============================================================================
