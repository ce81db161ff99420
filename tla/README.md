# OpenDQ Observatory in TLA+

OpenDQ Observatory ingests two public feeds into PostgreSQL, evaluates data quality and drift,
keeps incidents for what it finds, ranks their probable causes, optionally explains them, and
shows all of it on a read-only web application. This directory models the parts whose
correctness depends on order, concurrency and failure, checks them with TLC and proves the
safety of all of them with TLAPS. The parts that only decide are pure operators, checked on every
small input and proved for every input. Paths below are relative to `src/`.

## The system

| Component | Code | State it keeps | Operations |
|---|---|---|---|
| Ingestion runner | `pipeline/opendq/ingestion`, `storage/repository.py` | `ingestion_runs`, `raw_observations` | run one source, run all |
| Sources | `sources/*.py`, `contracts` | none | fetch, normalize |
| Quality engine | `quality/*` | `quality_rules`, `quality_evaluation_runs`, `quality_results` | evaluate a dataset, complete or fail the run |
| Drift engine | `drift/*` | `drift_baselines`, `drift_evaluation_runs`, `drift_results` | create baselines, evaluate a dataset |
| Incidents | `incidents/*` | `incidents`, `incident_events`, `incident_impacts` | reconcile quality, reconcile drift, acknowledge |
| Root cause analysis | `rca/*` | `root_cause_analyses` and their evidence | analyze an incident, latest |
| AI copilot | `ai/*` | `ai_incident_analyses` | analyze an incident, analyze open incidents, latest |
| Lineage | `lineage/*` | `lineage_nodes`, `lineage_edges` | seed, blast radius |
| Migrations | `storage/migrations.py`, `storage/migration_preflight.py` | `schema_migrations` | apply, preflight |
| Read model | `apps/web` | none | statuses, scores, incidents, impact, as JSON and pages |

The command line starts one process per command and opens one connection for it. `ingest`
calls the runner; the runner calls the quality engine after a finished ingestion and the drift
engine after that; both call the incident reconciler with the results they have stored; the
reconciler takes a lineage traversal as the impact snapshot and calls the root cause analysis
for every incident it opens or observes. `ai analyze-open` is a separate process. The web
application reads the tables and writes nothing.

Three things make it hard.

- **What is durable when.** psycopg commits at the end of `with connection.transaction()` only on
  an idle connection. The first bare `SELECT` opens an implicit transaction, and from then on
  every such block is a savepoint and nothing is committed before the process leaves
  `with psycopg.connect(...)`. `connection.rollback()` in the reconcilers discards all of it.
- **Several processes.** The scheduled workflow serialises itself, but an operator's `incident
acknowledge`, `quality evaluate`, `drift evaluate`, `ai analyze-open` or `migrate` runs beside it. Row locks, one partial
  unique index and the order of results decide what happens.
- **Failure.** A source, a statement, an analysis or the process itself can fail at any point.

`PROJECT.json` lists every such hazard at its line, with the properties that cover it.

## Modules

`IncidentContract` — what readers of the incident tables are promised: per (dataset, rule) key a
history whose newest incident alone may be active, changed one event at a time. No
transactions, locks or processes.

`IncidentLifecycle` — the reconcilers and the repository under them.

| Model | Code |
|---|---|
| `committed[k]` | the key's rows as every other connection reads them, each with its events and impacts |
| `working[k]`, `owner[k]` | the rows as the transaction that holds the active row's lock reads them, and that transaction |
| `ruleOwner[k]` | who updated the drift rule's row in `ensure_drift_rule` |
| `stored`, `written[w]` | committed evaluation runs, and those in `w`'s transaction |
| `BeginStage` | an evaluation up to its stored results |
| `TakeResult`, `Insert`, `SelectActive`, `Observe`, `Resolve` | the reconcile loop: `ensure_drift_rule`, `INSERT ... ON CONFLICT DO NOTHING`, the snapshot of `SELECT ... FOR UPDATE`, and its lock with the `UPDATE` |
| `AnalyzeSucceeds`, `AnalyzeFails` | root cause analysis, and `connection.rollback()` when it raises |
| `Commit`, `Abort` | leaving `with psycopg.connect(...)` normally, or by a crash or an exception |
| `Acknowledge`, `SeedLineage` | the operator, and a changed lineage graph |

A statement that would wait for a lock is a disabled action. `FOR UPDATE` is two steps because
PostgreSQL picks the row by the statement's snapshot and re-reads it after waiting. An evaluation
run is its `evaluated_at`. `lost[w]` says that the run was rolled back under the loop, so every
later row that refers to it fails its foreign key, and that the connection is idle again, so
`ensure_drift_rule` commits at once and keeps no rule row locked.

`PipelineRun` — `opendq ingest`: `run_source`, `run_all`, the evaluation drivers, and the
connection's transaction status (`idle`, `open`, `error`). `db` holds the committed tables, `tx`
what the process reads; they are equal on an idle connection. Reconciliation is reduced to
incidents that cite the evaluation. Observations are identities. Quality and drift evaluations
are the same actions with a different `kind`.

`MigrationLedger` — what a migration promises of a database: its schema changes only by all the
pending files of one checkout at once, or by the adoption of that checkout's checksums.

`Migrations` — `opendq migrate` with its three options and the preflight script.

| Model | Code |
|---|---|
| `db` | the committed ledger (`table`, `checksums`, `applied`) and, beside it, the SQL that was really executed |
| `runner[r].tx`, `holder` | what `r`'s transaction reads, and who holds `pg_advisory_xact_lock` |
| `Start` | reading and hashing every file, before the connection exists |
| `Lock`, `Reject`, `Check`, `BeginBatch` | the lock, then the tests of the ledger in their order, and the adoption of checksums |
| `Execute`, `Refuse`, `Commit` | one file and its row, SQL that fails, the end of the transaction |
| `InspectColumns`, `InspectRows` | the preflight's two reads, each in a snapshot of its own |
| `Edit` | another checkout appears on disk while commands run |

A file is a content; the content of `001_initial.sql` is the one that creates the ledger. A content
that is not the next one of a fresh database cannot be executed.

`Copilot` — `analyze_incident` of `rca` and of `ai`, and the commands `ai analyze` and
`ai analyze-open`.

| Model | Code |
|---|---|
| `incident`, `rcas`, `ais` | the committed incidents, root cause analyses and explanations |
| `worker[w].rcas`, `worker[w].ais` | what the process has inserted and not committed |
| `Select` | `pending_incidents`: active incidents whose latest analysis has no explanation |
| `ReadIncident`, `ReadAnalysis`, `ReadTimeline` | `context`, in three statements between which another process may commit |
| `Analyze`, `InsertAnalysis` | the deterministic analysis made when there is none |
| `LookupHits`, `LookupMisses`, `Route`, `Persist` | the cache, the providers in turn, the fallback, `INSERT ... ON CONFLICT DO NOTHING` and reading the stored row back |
| `Reconcile`, `Resolve` | a reconciler that changes an incident and analyzes it |
| `BreakDeadlock` | PostgreSQL ends one of two processes that wait for each other's unique keys |

Evidence is the semantic content the analysis is fingerprinted from; an explanation's input is
its analysis with the incident's results and timeline, which are numbered by `turn`. A process is
one transaction, because its first statement is a bare `SELECT`. The severity is read beside the timeline.

`BaselineHistory` — what drift evaluation relies on: per feature, numbered generations of baselines
of which exactly the last is active, never changed once there.

`DriftBaselines` — `opendq drift baseline create` and `opendq drift evaluate` on one dataset.

| Model | Code |
|---|---|
| `observed`, `schema` | `raw_observations` per column, and the one row of `dataset_versions` |
| `batches`, `active` | the committed rows of `drift_baselines`, by the creation that inserted them, and the active ones |
| `draft[c]`, `pick[c]` | what a creation has written and nobody else sees, and the baseline it is about to insert |
| `EnsureSchemaVersion`, `Sample`, `ReadVersion`, `FindActive`, `Deactivate`, `Insert` | `create_baselines` and `create_baseline`, statement by statement |
| `Abort`, `Commit` | a unique violation, and leaving `with psycopg.connect(...)` |
| `ReadBaseline`, `CompareSchema`, `CompareColumn`, `FinishEvaluation` | `evaluate_dataset`, feature by feature |
| `Register`, `Ingest`, `Release` | an ingestion that registers its dataset and schema, observations that arrive in any order of their times, and another version of `canonical_schema` |

A creation waits (`WaitsFor`) for a row another one has deactivated and for an uncommitted row with
the same unique key. An evaluation reads what is committed when each statement starts.

Five modules of pure operators say how the program judges what it has stored:

| Module | Code | Inputs |
|---|---|---|
| `QualityRules` | `quality/rules/*`, the registry, the default rules, counts and score, the two statuses the web application derives | observations, ingestion runs, rules, result statuses |
| `DriftStatistics` | `drift/engine.py`: quantiles, bins, PSI and its thresholds, stored baselines, schema differences | samples of integers, schemas |
| `RootCause` | `rca/service.py` and `rca/engine.py`: signals, scores, ranks and confidence | the evidence of an incident |
| `ReadModel` | poll readiness and execution figures of the web application | sources and runs |
| `LineageTraversal` | `downstream_blast_radius` and `computeDownstreamImpact`, one loop turn a step; the seeded graph | graphs |

Three of them take the order of sets and sequences (`sort()`, `sorted()`, `median()`, `ORDER BY`) from
`Ordering`, which places a member by counting how many are below it.

Numbers that only order or compare are small integers. Ages are minutes, quantiles tenths, PSI
thousandths of the product of the sample sizes, with a table of logarithms; an empty bin counts as
the logarithm of epsilon alone. The rules' `KeyError` for a missing parameter is a set of required
parameters. `volume` has its default ratios, the only ones stored. Every lineage node is active,
because no code deactivates one, and edges of different types between two nodes are one pair.

`Assessment` puts the five together: a behaviour asks one question with one of the given inputs, or
walks one graph in the pipeline and then on the web, and each invariant holds the answer against what
it means, stated without the algorithm.

Operators commented "Wrong on purpose" are mutated forms of a definition next to them. Nothing
uses them; each marks a bug that the property named beside it in `PROJECT.json` must find.

## Runs

| Run | Checks | What it shows |
|---|---|---|
| `incident_race` | `TypeOK`, `OneActive`, `DriftFailureIsRecorded`, `LedgerMatchesRow`, `EvidencePersisted`, `ImplementsContract`, `EveryWorkerFinishes` | two processes over one quality rule and two drift features, three evaluations, operator, failing analyses, crashes: also that the rule row's lock keeps drift reconcilers from losing an incident between `INSERT` and `SELECT`, and that no cycle of waiting processes arises |
| `incident_serial` | `TimesInOrder`, `HistoryIsKept` | three evaluations of two quality rules and a drift feature one after the other, the lineage changing in between |
| `incident_lost_race` | `FailureIsRecorded`, violated | a quality FAIL is lost when its incident is resolved between `INSERT` and `SELECT` |
| `pipeline_runs` | `TypeOK`, `StoredOnce`, `CountsMatchRows`, `EvaluationFollowsRun`, `EvaluationsAreWhole`, `FirstReportIsTrue`, `CommittedIsKept`, `EveryProcessEnds` | two processes over one or two sources, a failure anywhere and everything that fails because of it |
| `pipeline_lost_report` | `ReportsAreTrue`, violated | the command prints SUCCESS for a run that was rolled back |
| `pipeline_quality_failure` | `QualityFailureIsRecorded`, violated | a failed reconciliation leaves its evaluation SUCCESS |
| `migrations` | `TypeOK`, `LedgerIsTrue`, `RunnersNeverCollide`, `PreflightAgrees`, `VerdictWasTrue`, `ImplementsLedger`, `EveryRunnerEnds` | runners in every mode and a preflight on fresh, legacy and damaged ledgers, while the files change |
| `copilot_runs` | `TypeOK`, `StoredOnce`, `GroundedInAnalysis`, `ReportsAreStored`, `ExplainedIsNotPending` | two copilot processes beside a reconciler: evidence changes and changes back, a process dies |
| `copilot_quota` | `CallsWithinQuota`, violated | a batch makes more provider calls than the documented quota, which counts incidents |
| `drift_baselines` | `TypeOK`, `EvaluationsAreSound`, `SchemaComparedWithItself`, `ImplementsHistory`, `EveryCommandEnds` | two creations and an evaluation run against one another while observations arrive out of order and a release changes the schema: no generation is mixed up or deactivated for nothing, a result compares its baseline with later observations (`CurrentIsLater`), an evaluation never turns back behind a creation it has used (`ReadsNeverGoBack`), and the status is that of the results (`StatusIsTrue`) |
| `assessments` | `RulesJudgeAsMeant`, `ReportsFitRows`, `CausesAreEarned`, `DriftIsMeasured`, `ImpactsAgree` | every rule, statistic, ranking, status and traversal over all its small inputs |
| `rca_recovered` | `UnknownWithoutUsefulSignal`, violated | a resolved incident is explained by the PASS that resolved it |

Deadlock checking is off: processes are bounded and the system really stops after the last one.
Waiting in a cycle is what `EveryWorkerFinishes`, `EveryRunnerEnds` and `EveryCommandEnds` exclude. Two
batches of the copilot do wait in a cycle; the model has PostgreSQL's answer (`BreakDeadlock`) as a step, and
`copilot_runs` checks what the survivor stores and prints, not that the answer comes.

Symmetry is used in `copilot_runs` only, which checks no liveness and whose symmetric constants the module
compares for equality only.

Two properties say less than their names might suggest. `TimesInOrder` is about one process at a time: with
two, an evaluation that began earlier resolves what a later one opened, and the times of a key go backwards.
`EvaluationFollowsRun` is about quality evaluations; the guard of the drift engine is not stated.

Five runs are expected to be violated; each is a finding in `PROJECT.json`, with the line it contradicts:

- `incident_lost_race`: a FAIL is recorded by no incident when another process resolves the active one
  between the conflicting `INSERT` and `SELECT ... FOR UPDATE`.
- `pipeline_lost_report`: `connection.rollback()` in a reconciler discards an ingestion that is then reported.
- `pipeline_quality_failure`: what fails after `complete_quality_evaluation` leaves the evaluation SUCCESS.
- `copilot_quota`: the quota counts incidents, and each can call several providers.
- `rca_recovered`: `_signals` asks a drift result whether it is DRIFT and a quality result nothing.
  `resolve_if_active` makes the PASS the result the incident cites, so `rca analyze` on a resolved freshness
  incident answers FRESHNESS_DELAY, HIGH, `freshness_rule_failed`. The guide says UNKNOWN means that there
  is no useful persisted signal (`docs/root-cause-analysis.md:23`).

Each invariant of `assessments` is a conjunction of answers to questions:

- `RulesJudgeAsMeant`: is a dataset fresh exactly if something recent was observed (`FreshIffRecent`), are
  the gaps and duplicates those a reader would count, however observations arrived (`GapsAreHoles`,
  `DuplicatesAreRepeats`), does a missing value fail two rules (`NullFailsTwice`), can one odd run
  turn the volume verdict (`VolumeIsMajority`), what is judged after a run that failed
  (`OldVolumeIsJudgedAgain`), can an unusable rule resolve an incident or open one about the data
  (`UnusableNeverJudges`; an ERROR opens an `EVALUATION_ERROR`, which is what it is for);
- `ReportsFitRows`: do score and status contradict one another (`ScoreFitsStatus`), how do the two pages
  differ on an evaluation, be it complete, failed or running (`PagesDifferAsStated`),
  what does readiness promise (`ReadyMeansPolled`), what is missing between successes
  and failures (`FiguresAddUp`);
- `CausesAreEarned`: does HIGH lead every other candidate (`HighLeadsAll`), is a failed source blamed
  (`FailedSourceIsBlamed`), when is nothing known (`UnknownIffNothingCited`);
- `DriftIsMeasured`: does a stored baseline do for its observations (`StoredBaselineSuffices`), what can the
  index not see (`BlindAboveConstant`) and where does it jump (`SmallSamplesNeverCalm`), is the schema
  comparison symmetric (`DifferencesMirror`);
- `ImpactsAgree`: are all nodes listed on a shortest path, once each (`ImpactIsShortest`), and does the page agree with the
  snapshot of the incident (`PageMatchesSnapshot`).

### Remarks

What some of these invariants say is true of the code and may surprise a reader:

- `SchemaComparedWithItself`: `ensure_schema_version` is called by every ingestion, and by a creation that
  finds no schema. It always inserts version `1` with `ON CONFLICT DO NOTHING`, so the first row stays and
  no release of this code ever reports a schema drift. Only a row
  inserted by other means, as the integration test does, is noticed.
- `BlindAboveConstant`: the deciles of a dry spell are all zero, hence one bin edge, and every later
  amount of rain falls into the bin the baseline is in.
- `SmallSamplesNeverCalm`: with five samples on each side, one value in another bin is already WARN.
- `PagesDifferAsStated`: an evaluation that failed has counts of zero. The reliability page shows it as
  FAILED, the quality page, which looks at the counts only, as UNKNOWN; the same holds of one that runs.
  A completed evaluation whose results were all skipped is SUCCESS on one page and UNKNOWN on the other,
  although `docs/slo.md:30` calls bounded skips PARTIAL.
- `UnknownIffNothingCited`: once an incident is about a rule, its cause is the rule's, whatever became of
  it since. `rca_recovered` shows where that departs from the guide.
- `OldVolumeIsJudgedAgain`: `quality evaluate` after a failed ingestion judges the last successful
  volume once more, and a failing one counts another occurrence.
- A baseline is computed from the OLDEST thousand observations. Once there are that many and none
  arrives late, a new generation repeats the previous one.
- `_confidence` compares a candidate with the next one only, so a later candidate may be called HIGH
  while the first, tied, is MEDIUM. `HighLeadsAll` is stated for the probable cause.

### Bounds

- `IncidentLifecycle`: two processes are enough for every conflict over a row, two drift features
  for a cycle of waiting processes, and the quality rule before them for a transaction that spans two
  stages; three evaluations let one process open, another resolve and a third reopen.
  `incident_serial` takes one process and two quality rules, so that a result follows a failed
  analysis in the same loop and a drift stage follows it in the same transaction.
- `PipelineRun`: two processes let a second one fetch again what a first one stored before it
  failed; two sources are what `ingest all` has, and the second one runs inside the transaction the
  first one's evaluation opened. One record identity is enough for "already stored". Two alarms
  let a failed analysis be followed by another result of the loop. Failures caused by an earlier
  rollback do not count against `MaxFaults`, so one fault already brings the chain of handlers
  that fail in turn.
- `Migrations`: two runners are what a lock must separate, and three commands let a runner, a
  second one of another checkout and a preflight overlap. The checkouts are a release, its
  successors with one and two more files, one with an edited file, one with a removed file and an
  empty one; the databases are fresh, legacy at either release, and one with a row without digest.
- `Copilot`: two processes and two incidents are enough for two orders of the same batch; two
  contents of evidence and two changes let an incident's evidence change and change back.
- `DriftBaselines`: one numeric column and the schema are two features, which a lock cycle and a mixed
  generation need; three observations, two of them at one time, fill a baseline of two and leave a
  later one or a late one; three commands let two creations race beside an evaluation. Limits 2, 1
  and 1 stand for 1000, 100 and 5.
- `Assessment`: all ordered samples of four and five values out of four, on both sides of a required
  minimum of five; up to two observations with every combination of five times around the limits, two
  keys and three values, and three for gaps; up to five runs around a baseline of three; all lists of
  up to four result statuses; two sources with up to two runs around every limit of time; all evidence
  of an incident; all schemas of two fields; and every graph of four nodes with edges back to the
  start and every set of listed nodes, walked to depth two, so that the limit cuts paths.

### Fairness

`IncidentLifecycle!FairSpec` is weak fairness of each started process: the operating system
runs it and PostgreSQL grants a lock once its holder has ended. Starting, crashing, failing
analyses and acknowledging are not fair. A process waits at most for one holder at a time, and
a holder commits as soon as it can, so weak fairness is enough. `PipelineRun!FairSpec`,
`Migrations!FairSpec` and `DriftBaselines!FairSpec` are weak fairness of the steps of each started
process. The migration lock is granted when it is free: no run starts commands for ever, so no
runner is overtaken for ever. No liveness is claimed of
`Copilot`: that its processes end would rest on PostgreSQL's deadlock detector alone.

## Proofs

The theorems hold for every value of the constants that satisfies the named assumptions: any number
of keys, processes, sources, files, incidents, observations and graph nodes, and any bound.

| Module | Theorems | Properties |
|---|---|---|
| `IncidentLifecycleProofs` | `TypeCorrect`, `OneActiveHolds`, `LedgerHolds`, `HistoryKept` | `TypeOK`, `OneActive`, `LedgerMatchesRow`, `HistoryIsKept` |
| `IncidentTransactionProofs` | `TransactionInvariant`, `EvidencePersistedHolds`, `DriftFailureIsRecordedHolds`, `ImplementsContractHolds`, `TimesInOrderHolds` | `EvidencePersisted`, `DriftFailureIsRecorded`, `ImplementsContract`, `TimesInOrder` |
| `PipelineRunProofs` | `TypeCorrect`, `StoredOnceHolds`, `CountsMatchRowsHolds`, `EvaluationFollowsRunHolds`, `EvaluationsAreWholeHolds`, `FirstReportIsTrueHolds`, `CommittedIsKeptHolds` | the properties of these names |
| `MigrationsProofs` | `TypeCorrect`, `LedgerIsTrueHolds`, `RunnersNeverCollideHolds`, `VerdictWasTrueHolds`, `PreflightAgreesHolds`, `ImplementsLedgerHolds` | the properties of these names |
| `CopilotProofs` | `TypeCorrect`, `StoredOnceHolds`, `GroundedInAnalysisHolds`, `ReportsAreStoredHolds`, `ExplainedIsNotPendingHolds` | the properties of these names |
| `DriftBaselinesProofs` | `TypeCorrect`, `EvaluationsAreSoundHolds`, `SchemaComparedWithItselfHolds`, `ImplementsHistoryHolds` | the properties of these names |
| `AssessmentProofs` | `RulesJudgeAsMeantHolds`, `ReportsFitRowsHolds`, `CausesAreEarnedHolds`, `DriftIsMeasuredHolds`, `ImpactsAgreeHolds` | the properties of these names |

`FiniteData` holds the lemmas that several of them need: finitely many things have a latest and an
earliest, what is true of zero and of each next number is true of all (`EveryNumber`), counting
(`SameSize`, `PartIsSmaller`, `PartsAddUp`), sets and lists in order (`InOrderLists`, `SortedPlaces`), and
finite sums (`TotalIsSum` to `TotalOfCounts`).

### The inductive invariants

Every invariant below was checked by TLC on a small instance before it was proved.

**Incidents.** `IInv` is `TypeOK` with `Synced` (a key nobody holds reads the same
everywhere), `Sound` (in both copies of a key every row replays from its events and only the
newest row can be active) and `Continued` (what a transaction wrote continues what is
committed). `OneActive` alone is not inductive: a commit publishes `working`, about which it
says nothing, and the unique index protects a key only because its writer reads the newest
copy, which is `Synced`. Each action is reduced to one of four lemmas: a transaction writes
(`WriteKeeps`), rolls back (`DiscardKeeps`), commits (`CommitKeeps`), or an operator acknowledges
(`AcknowledgeKeeps`); writing is reduced to appending a row when the index has no entry
(`AppendSound`) and updating the active row (`UpdateSound`).

`TInv` adds what a transaction adds up to: a worker meets a key once in a transaction (`Once`), its
evaluation run is among those it will commit unless it was rolled back (`Backed`), the rule's lock
serialises work on a drift key (`Serialised`), and what it wrote of a key rests on stored runs and is
one step of the contract ahead of what is committed (`Writes`). That last part is the refinement: a
commit, which publishes several keys, is one step of `IncidentContract` per key, and everything else
stutters. `TimesInOrder` needs one worker and is false for two; its theorem assumes
`Workers = {w}` and adds that the worker's current run is newer than everything stored (`Newest`).

**Pipeline.** `IInv` says of the committed tables and of those the process reads that both are
`Lawful`, that the second extend the first, and that they are equal on an idle connection
(`Database`); what is known of the current run and evaluation (`RunKnown`, `EvaluationKnown`); and
that until the first evaluation of a process each statement commits (`FirstSource`), which is why its
first report is true and a later one need not be. Each statement is a lemma about tables
(`RunStored`, `RowsStored`, `RunFinished`, ...), each action one about the process.

**Migrations.** The lock's holder alone looks and executes (`Holding`); so the committed database is
still the one it looked at, and its transaction has executed the files of its checkout in order,
leaving none out (`Batches`). At a commit this is either an adoption (`CommitAdopts`) or an upgrade
(`CommitUpgrades`). The preflight holds no lock: of its two reads the invariant says that the ledger
has grown in between and that the answers for the first read and for now are both possible
(`Inspecting`).

**Copilot.** A row is committed long after it was inserted, so uniqueness is stated of the rows of all
processes, committed or not (`OneRca`, `OneAi`), and each process knows an analysis of the
incident it explains, grounded in rows it sees (`Knows`).

**Baselines.** The committed rows of a feature are numbered from one and the last is active
(`Numbering`); a draft is the next number, replaces the active row, and no other transaction has one
for its feature (`Drafts`); features are done in the registry's order (`AsRegistered`); a basis never
becomes empty (`Samples`); the schema is written once (`SchemaOnce`). For evaluations, `NothingLater`
says of two results of one run that the creation the first one used had written nothing newer of
the second one's feature. The refinement follows from `CommitNumbers`.

**Lineage.** The walk's list with the root in front has every node once (`Listing`), says of each
how it is reached (`Truthful`), has rising distances that differ by at most one in the queue
(`Level`), and has all that is below the entries whose turn is over (`Expanded`). When the queue is
empty, every node within n edges is listed no further than n away (`WalkEndsComplete`), so the
paths are shortest. That the page's list equals the snapshot's when it reads all the snapshot reaches
needs both walks at once: `Births` gives the length of the list after each turn, which determines the
next turn, and the second walk repeats the first (`TurnRepeats`). Pages that read less list less,
and never nearer (`FewerEdgesFindLess`).

**Questions.** Of the other four invariants only `QuestionGiven` is needed as one: what is asked is an
input that was given. The rest is about the operators, one lemma per part.

*Statuses* are arithmetic of counts and finite sets. Results are stored with the status SUCCESS, so an
evaluation of any other status has none, and its counts are zero (`PagesDifferNow`).

*Rules.* A default rule is skipped or evaluated and never unable (`DefaultIsEvaluated`), so each
part speaks of one rule's verdict. Holes and jumps determine one another: a jump between neighbours in
order begins a hole (`JumpIsHole`), and a hole begins at the last place of its time (`HoleIsJump`).
Duplicates are counted by the first occurrences of their keys. The median of an odd number of volumes
has a majority on each side (`MedianMajority`), hence the volume verdict is a majority of the runs. A
failed run in front of the others leaves the list of volumes as it was (`VolumesOfTail`).

*Causes.* Score and place in the registry make one number, ten times the score less the place, which
orders the causes as the ranking does (`KeysRank`); so there is a first one, and the second
decides its confidence (`FirstAndSecond`). Weights of several signals add up, and of the causes named
directly only a failed source can have two (`DirectScores`).

*Drift.* The deciles of equal values are one edge, and all that is not below lies in one bin
(`ConstantHasOneEdge`, `DistributionAboveEdge`). If five values fall into other bins than five others,
one bin gains and one loses. No part of the index is negative (`PartIs`), and the two together already
reach half the threshold, where WARN begins (`TwoPartsShow`). A difference of schemas is one field
of the union (`DifferencesAre`), which the mirrored comparison finds from the other side.

### Assumptions

Each constant's assumption stands in the module that declares it, and TLC evaluates it in every run.
Those that say more than a type:

- `RecordAssumption`: a fetch returns finitely many records;
- `RegistryAssumption`: no feature is registered twice (`DRIFT_FEATURES`, `features_for_dataset`);
- `DatabaseAssumption`: a runner is started on a ledger whose rows are what was executed;
- `WorkerAssumption`, `ProcessAssumption`: `NoWorker` is not a worker, and a process runs one kind of command;
- `ContextAssumption`: observations and runs are rows in some order, with integer times and received
  counts that are not negative;
- `RunsAssumption`: the baseline of the volume rule has an odd number of runs;
- `SamplesAssumption`, `LnAssumption`: samples are integers, and the table of logarithms reaches as far as the
  longest sample, begins with those of one to five and has none below zero;
- `SampleAssumption`: a numeric feature needs five samples and has the threshold 0.20 or 0.30, as every
  one in `drift/config.py`. `SmallSamplesNeverCalm` is false of some other numbers;
- `SchemaAssumption`: a schema gives each field a type and whether it is nullable;
- `GraphAssumption`: a lineage graph has finitely many edges, and nodes are numbers from one, in the
  order of their keys; `SourceAssumption`: finitely many sources and runs, finished if successful.
  Neither says that a graph has no cycle or that a run ends in any time.

### How some steps are proved

The library's induction theorems take an operator as a parameter, which the provers cannot instantiate.
Two facts stand in for them: the numbers up to n that are missing from a set have a least
one (`EveryNumber`), and a descending chain of finite subsets ends (`LatestExists`). So the recursive
function `Below` exists because it does for zero and from n for n + 1. A sum is treated alike:
`SumFunction` unfolds into a function that is recursive over subsets, so sums of numbered terms
exist, agree however they are taken, and grow by each term (`SumExists`, `SumsAgree`, `SumSteps`).

Order is counting. The k-th of a set is the member that k are not above, which exists and is unique
because the number of members not above grows by one from each to the next (`InOrderPlaces`); the k-th
of a list is the value that fewer than k are below and at least k are not above (`PlaceIsTaken`). Medians,
quantiles, neighbours and first occurrences are then facts about cardinalities.

### What the proofs changed

- `CommittedIsKept` said less than was meant: an implication had taken in the conjunct after it. It is
  stated with its conjuncts apart now, and a mutant of `Upsert` breaks it.
- Several decisions were written as a `CASE` with overlapping guards, of which TLA+ leaves the choice
  open and TLC takes the first. They are `IF ... ELSE` now, in the order of the code.
- `Ordering` and `SumFunction` replace `SortSeq`, `SelectSeq` and `MapThenSumSet` in `QualityRules`,
  `DriftStatistics`, `RootCause` and `LineageTraversal`. Those take operators or choose a permutation, and no
  proof can look into them; the values are the same.
- The inputs of `Assessment` were whatever a configuration gave. What a context, a sample and a schema are
  is an assumption with a name now, which TLC evaluates.
- `SampleAssumption` allowed any minimum and any threshold, for some of which `SmallSamplesNeverCalm` is
  false. It names those of the registry.

### What is model-checked only

Liveness: `EveryWorkerFinishes`, `EveryProcessEnds`, `EveryRunnerEnds` and `EveryCommandEnds` rest on
fairness and `ENABLED`, of which the provers know nothing. Every other property of a passing run is a theorem.

## Not modelled

Web pages and components, logging, HTTP transport, prompt texts and provider clients, the
demo, the benchmark and the failure-scenario generator: they keep no state of their own or only
format. Parsing and validating the payloads of the two sources is format work; a fetch yields records,
rejected records or a failure. In the state machines the values inside observations, summaries and
evidence are identities; what is computed from values is in the modules of pure operators, which keep
no state. Of drift, `categorical_tvd`, which nothing calls, and the reported location shift are left
out; PSI is approximated as said above, so results within a thousandth of a threshold are not told
apart. Of lineage, the upserts of nodes and edges; of the web application, the endpoints that pass
rows on as JSON. A migration ledger whose `version` column is missing, which the preflight calls
invalid, is left out: no code creates one.

Three hazards in `PROJECT.json` have no property: a failed batch of explanations discards the earlier
ones, a run that fails in its last statement leaves observations behind a count of zero, and evidence
that changes back stores no third analysis. No document promises otherwise.

## Plan

Done: every component whose order, concurrency or failure matters, the algorithms they rest on, and the
proof of every safety property. Possible next steps:

1. The three hazards without a property, once a document says what is promised there.
2. The upserts of lineage nodes and edges, when something other than the seed changes the graph.
3. The web endpoints that pass rows on, when one of them starts to derive something.
