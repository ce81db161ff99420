------------------------------ MODULE PipelineRun ------------------------------
(***************************************************************************)
(* `opendq ingest': one process, one connection, the sources in order      *)
(* (ingestion/runner.py, the evaluation drivers of quality/engine.py and   *)
(* drift/service.py, the run tables of storage/repository.py).  Processes  *)
(* follow one another: the scheduled workflow lets only one run at a time. *)
(*                                                                         *)
(* psycopg decides what is durable.  `with connection.transaction()' on an *)
(* idle connection commits when it ends.  The first bare SELECT opens an   *)
(* implicit transaction; from then on the same statement is a savepoint,   *)
(* and nothing is committed until `with psycopg.connect(...)' exits.       *)
(* A bare SELECT that fails leaves the transaction unusable until it ends. *)
(*                                                                         *)
(* Reconciliation is modelled in IncidentLifecycle; here a result either   *)
(* records an incident that cites the evaluation, or fails, and its root   *)
(* cause analysis either succeeds or rolls the connection back.            *)
(***************************************************************************)
EXTENDS Naturals, Sequences, FiniteSets

CONSTANTS
  Sources,        \* one adapter, one dataset each
  Plans,          \* the sequences of sources a command runs
  Records,        \* identities of observations
  MaxAlarms,      \* bound on the alarming results of an evaluation
  MaxProcesses,   \* bound on the processes
  MaxFaults       \* bound on failures of the sources, the database and the processes

ASSUME PlanAssumption == Plans \subseteq Seq(Sources) /\ <<>> \notin Plans
ASSUME BoundAssumption == {MaxAlarms, MaxProcesses, MaxFaults} \subseteq Nat
ASSUME RecordAssumption == IsFiniteSet(Records)

VARIABLES
  db,          \* the tables as they are committed
  tx,          \* the tables as the process reads them
  conn,        \* psycopg's transaction status of the connection
  ids,         \* identifiers given out so far, for ingestion runs and evaluations
  processes,   \* processes started so far
  faults,      \* failures so far
  pc, plan, run, fetched, outcome, error,   \* the process and its current source
  kind, eval, left,                         \* its current evaluation
  reports,     \* the outcomes it will print
  printed      \* the outcomes all processes have printed

dbVars == <<db, tx, conn>>
evalVars == <<kind, eval, left>>
vars == <<db, tx, conn, ids, processes, faults, pc, plan, run, fetched, outcome, error,
          kind, eval, left, reports, printed>>

Terminal == {"SUCCESS", "PARTIAL", "FAILED", "NO_CHANGE"}
RunStatus == Terminal \cup {"RUNNING"}
\* A drift run's SUCCESS, PARTIAL and NO_BASELINE are one SUCCESS here.
EvalStatus == {"RUNNING", "SUCCESS", "FAILED"}
Ids == 1..ids

\* ingestion_runs and {quality,drift}_evaluation_runs, `run' being triggered_by.
Run == [source : Sources, status : RunStatus, written : 0..Cardinality(Records)]
Evaluation == [kind : {"quality", "drift"}, run : Ids, status : EvalStatus, results : BOOLEAN]

\* An outcome that is printed; `first' tells whether it was its process's first source.
Report == [run : Ids, status : Terminal, error : {"none", "quality", "drift"}, first : BOOLEAN]

IsTables(t) ==
  /\ t.datasets \subseteq Sources
  /\ DOMAIN t.runs \subseteq Ids /\ \A r \in DOMAIN t.runs : t.runs[r] \in Run
  /\ t.rows \subseteq [source : Sources, record : Records, run : Ids]
  /\ DOMAIN t.evals \subseteq Ids /\ \A e \in DOMAIN t.evals : t.evals[e] \in Evaluation
  /\ t.cited \subseteq Ids

TypeOK ==
  /\ IsTables(db) /\ IsTables(tx)
  /\ conn \in {"idle", "open", "error"}
  /\ ids \in Nat /\ processes \in 0..MaxProcesses
  /\ faults \in 0..MaxFaults
  /\ pc \in {"none", "ensure", "create", "fetch", "upsert", "finish", "finishFailed", "begin",
             "complete", "reconcile", "analyze", "failing", "report", "exit"}
  /\ plan \in Seq(Sources)
  /\ run \in Ids \cup {0} /\ eval \in Ids \cup {0}
  /\ fetched \in [records : SUBSET Records, rejected : BOOLEAN, written : 0..Cardinality(Records)]
  /\ outcome \in RunStatus
  /\ error \in {"none", "quality", "drift"}
  /\ kind \in {"quality", "drift"}
  /\ left \in 0..MaxAlarms
  /\ reports \subseteq Report /\ printed \subseteq Report

Empty == [x \in {} |-> x]
NoTables == [datasets |-> {}, runs |-> Empty, rows |-> {}, evals |-> Empty, cited |-> {}]
Nothing == [records |-> {}, rejected |-> FALSE, written |-> 0]

Init ==
  /\ db = NoTables /\ tx = NoTables /\ conn = "idle"
  /\ ids = 0 /\ processes = 0 /\ faults = 0
  /\ pc = "none" /\ plan = <<>> /\ run = 0 /\ fetched = Nothing /\ outcome = "RUNNING"
  /\ error = "none" /\ kind = "quality" /\ eval = 0 /\ left = 0
  /\ reports = {} /\ printed = {}

-------------------------------------------------------------------------------
(***************************************************************************)
(* The connection.                                                         *)
(***************************************************************************)
Put(f, i, x) == [j \in DOMAIN f \cup {i} |-> IF j = i THEN x ELSE f[j]]

\* `with connection.transaction()': a commit on an idle connection, else a savepoint.
Save(t) ==
  /\ conn # "error"
  /\ tx' = t
  /\ db' = IF conn = "idle" THEN t ELSE db
  /\ conn' = conn

\* What a statement that fails in `with connection.transaction()' leaves behind.
SaveFails == UNCHANGED dbVars

\* A bare SELECT, followed by a statement that stores t.
SelectThenSave(t) == conn # "error" /\ tx' = t /\ db' = db /\ conn' = "open"

\* A bare SELECT fails, or is refused because an earlier one did.
SelectFails == conn' = "error" /\ UNCHANGED <<db, tx>>

Rollback == tx' = db /\ db' = db /\ conn' = "idle"

Fault == faults < MaxFaults /\ faults' = faults + 1

Source == plan[1]
Goto(label) == pc' = label

-------------------------------------------------------------------------------
(***************************************************************************)
(* One source: run_source.                                                 *)
(***************************************************************************)
Start(p) ==
  /\ pc = "none" /\ processes < MaxProcesses
  /\ processes' = processes + 1
  /\ plan' = p
  /\ Goto("ensure")
  /\ UNCHANGED <<dbVars, ids, faults, run, fetched, outcome, error, evalVars, reports, printed>>

\* Wrong on purpose: the dataset is looked up before it is inserted, with a bare SELECT.
EnsureDatasetAfterSelect ==
  /\ pc = "ensure"
  /\ SelectThenSave([tx EXCEPT !.datasets = @ \cup {Source}])
  /\ Goto("create")
  /\ UNCHANGED <<ids, processes, faults, plan, run, fetched, outcome, error, evalVars, reports, printed>>

\* ensure_source_dataset and ensure_schema_version.
EnsureDataset ==
  /\ pc = "ensure"
  /\ Save([tx EXCEPT !.datasets = @ \cup {Source}])
  /\ Goto("create")
  /\ UNCHANGED <<ids, processes, faults, plan, run, fetched, outcome, error, evalVars, reports, printed>>

\* Wrong on purpose: the identifier is used but not given out.
CreateRunReusing ==
  /\ pc = "create"
  /\ ids' = ids /\ run' = ids + 1
  /\ Save([tx EXCEPT !.runs =
             Put(@, ids + 1, [source |-> Source, status |-> "RUNNING", written |-> 0])])
  /\ Goto("fetch")
  /\ UNCHANGED <<processes, faults, plan, fetched, outcome, error, evalVars, reports, printed>>

\* create_ingestion_run.
CreateRun ==
  /\ pc = "create"
  /\ ids' = ids + 1 /\ run' = ids + 1
  /\ Save([tx EXCEPT !.runs =
             Put(@, ids + 1, [source |-> Source, status |-> "RUNNING", written |-> 0])])
  /\ Goto("fetch")
  /\ UNCHANGED <<processes, faults, plan, fetched, outcome, error, evalVars, reports, printed>>

\* fetch and normalize: the records that pass the contract, and whether some did not.
Fetch(records, rejected) ==
  /\ pc = "fetch"
  /\ fetched' = [records |-> records, rejected |-> rejected, written |-> 0]
  /\ Goto("upsert")
  /\ UNCHANGED <<dbVars, ids, processes, faults, plan, run, outcome, error, evalVars, reports, printed>>

\* An IngestionError, or any other exception of fetch and normalize.
FetchFails ==
  /\ Fault
  /\ pc = "fetch"
  /\ Goto("finishFailed")
  /\ UNCHANGED <<dbVars, ids, processes, plan, run, fetched, outcome, error, evalVars,
                 reports, printed>>

Known == {row.record : row \in {x \in tx.rows : x.source = Source}}

\* Wrong on purpose: no unique index, every fetched record is stored.
UpsertAll ==
  /\ pc = "upsert"
  /\ Save([tx EXCEPT !.rows = @ \cup
             {[source |-> Source, record |-> x, run |-> run] : x \in fetched.records}])
  /\ fetched' = [fetched EXCEPT !.written = Cardinality(fetched.records)]
  /\ Goto("finish")
  /\ UNCHANGED <<ids, processes, faults, plan, run, outcome, error, evalVars, reports, printed>>

\* Wrong on purpose: ON CONFLICT DO UPDATE hands the observation to the new run.
UpsertTakingOver ==
  /\ pc = "upsert"
  /\ LET kept == {x \in tx.rows : x.source # Source \/ x.record \notin fetched.records} IN
     /\ Save([tx EXCEPT !.rows = kept \cup
                {[source |-> Source, record |-> x, run |-> run] : x \in fetched.records}])
     /\ fetched' = [fetched EXCEPT !.written = Cardinality(fetched.records)]
  /\ Goto("finish")
  /\ UNCHANGED <<ids, processes, faults, plan, run, outcome, error, evalVars, reports, printed>>

\* INSERT ... ON CONFLICT DO NOTHING: a record already stored counts as not written.
Upsert ==
  /\ pc = "upsert"
  /\ LET new == fetched.records \ Known IN
     /\ Save([tx EXCEPT !.rows = @ \cup
                {[source |-> Source, record |-> x, run |-> run] : x \in new}])
     /\ fetched' = [fetched EXCEPT !.written = Cardinality(new)]
  /\ Goto("finish")
  /\ UNCHANGED <<ids, processes, faults, plan, run, outcome, error, evalVars, reports, printed>>

\* The database refuses the observations, or the UPDATE of the run.
StoreFails ==
  /\ Fault
  /\ pc \in {"upsert", "finish"}
  /\ SaveFails
  /\ Goto("finishFailed")
  /\ UNCHANGED <<ids, processes, plan, run, fetched, outcome, error, evalVars, reports, printed>>

\* Wrong on purpose: the number of records received is stored as the number written.
FinishCountingReceived ==
  /\ pc = "finish"
  /\ outcome' = IF fetched.rejected THEN "PARTIAL"
                ELSE IF fetched.written = 0 THEN "NO_CHANGE" ELSE "SUCCESS"
  /\ Save([tx EXCEPT !.runs[run] =
             [@ EXCEPT !.status = outcome', !.written = Cardinality(fetched.records)]])
  /\ fetched' = Nothing
  /\ Goto(IF outcome' = "PARTIAL" THEN "report" ELSE "begin")
  /\ UNCHANGED <<ids, processes, faults, plan, run, error, evalVars, reports, printed>>

\* Wrong on purpose: a run with rejected records is evaluated, too.
FinishThenEvaluateAlways ==
  /\ pc = "finish"
  /\ outcome' = IF fetched.rejected THEN "PARTIAL"
                ELSE IF fetched.written = 0 THEN "NO_CHANGE" ELSE "SUCCESS"
  /\ Save([tx EXCEPT !.runs[run] =
             [@ EXCEPT !.status = outcome', !.written = fetched.written]])
  /\ fetched' = Nothing
  /\ Goto("begin")
  /\ UNCHANGED <<ids, processes, faults, plan, run, error, evalVars, reports, printed>>

\* finish_ingestion_run with the terminal status; only SUCCESS and NO_CHANGE are evaluated.
Finish ==
  /\ pc = "finish"
  /\ outcome' = IF fetched.rejected THEN "PARTIAL"
                ELSE IF fetched.written = 0 THEN "NO_CHANGE" ELSE "SUCCESS"
  /\ Save([tx EXCEPT !.runs[run] =
             [@ EXCEPT !.status = outcome', !.written = fetched.written]])
  /\ fetched' = Nothing
  /\ Goto(IF outcome' = "PARTIAL" THEN "report" ELSE "begin")
  /\ UNCHANGED <<ids, processes, faults, plan, run, error, evalVars, reports, printed>>

\* finish_ingestion_run(FAILED), its counts zero whatever was stored before.
FinishFailed ==
  /\ pc = "finishFailed"
  /\ outcome' = "FAILED"
  /\ Save([tx EXCEPT !.runs[run].status = "FAILED"])
  /\ fetched' = Nothing
  /\ Goto("report")
  /\ UNCHANGED <<ids, processes, faults, plan, run, error, evalVars, reports, printed>>

-------------------------------------------------------------------------------
(***************************************************************************)
(* The quality evaluation and, when it succeeds, the drift evaluation.     *)
(***************************************************************************)
\* The dataset is read, and the evaluation run inserted in the transaction this opens.
BeginEvaluation ==
  /\ pc = "begin" /\ Source \in tx.datasets
  /\ ids' = ids + 1 /\ eval' = ids + 1
  /\ SelectThenSave([tx EXCEPT !.evals =
        Put(@, ids + 1, [kind |-> kind, run |-> run, status |-> "RUNNING", results |-> FALSE])])
  /\ Goto("complete")
  /\ UNCHANGED <<processes, faults, plan, run, fetched, outcome, error, kind, left, reports, printed>>

\* The dataset is gone, or a statement before the run's INSERT fails.
BeginFails ==
  /\ pc = "begin"
  /\ \/ Source \notin tx.datasets /\ conn' = "open" /\ UNCHANGED <<db, tx, faults>>
     \/ Fault /\ SelectFails
  /\ error' = kind
  /\ Goto("report")
  /\ UNCHANGED <<ids, processes, plan, run, fetched, outcome, evalVars, reports, printed>>

\* complete_quality_evaluation / complete_evaluation store results and terminal status.
CompleteEvaluation(alarms) ==
  /\ pc = "complete"
  /\ Save([tx EXCEPT !.evals[eval] = [@ EXCEPT !.status = "SUCCESS", !.results = TRUE]])
  /\ left' = alarms
  /\ Goto("reconcile")
  /\ UNCHANGED <<ids, processes, faults, plan, run, fetched, outcome, error, kind, eval, reports, printed>>

\* Computing or storing the results fails; a failed bare SELECT spoils the transaction.
CompleteFails ==
  /\ Fault
  /\ pc = "complete"
  /\ SaveFails \/ SelectFails
  /\ Goto("failing")
  /\ UNCHANGED <<ids, processes, plan, run, fetched, outcome, error, evalVars, reports, printed>>

\* An alarming result opens or updates an incident that refers to the evaluation.
RecordIncident ==
  /\ pc = "reconcile" /\ left > 0 /\ eval \in DOMAIN tx.evals
  /\ left' = left - 1
  /\ SelectThenSave([tx EXCEPT !.cited = @ \cup {eval}])
  /\ Goto("analyze")
  /\ UNCHANGED <<ids, processes, faults, plan, run, fetched, outcome, error, kind, eval, reports, printed>>

\* A statement fails: after a rollback because the foreign key has no target, whether the
\* result would open, update or resolve an incident; else because the database fails.
ReconcileFails ==
  /\ pc = "reconcile"
  /\ \/ /\ eval \in DOMAIN tx.evals => Fault
        /\ eval \notin DOMAIN tx.evals => UNCHANGED faults
        /\ conn' \in {conn, "open"} /\ UNCHANGED <<db, tx>>
     \/ Fault /\ SelectFails
  /\ Goto("failing")
  /\ UNCHANGED <<ids, processes, plan, run, fetched, outcome, error, evalVars, reports, printed>>

AnalysisSucceeds ==
  /\ pc = "analyze"
  /\ Goto("reconcile")
  /\ UNCHANGED <<dbVars, ids, processes, faults, plan, run, fetched, outcome, error, evalVars,
                 reports, printed>>

\* The analysis raises: connection.rollback() discards all the process has not committed.
AnalysisFails ==
  /\ Fault
  /\ pc = "analyze"
  /\ Rollback
  /\ Goto("reconcile")
  /\ UNCHANGED <<ids, processes, plan, run, fetched, outcome, error, evalVars, reports, printed>>

\* The evaluation returns; after quality comes drift.
EvaluationReturns ==
  /\ pc = "reconcile" /\ left = 0
  /\ eval' = 0
  /\ kind' = "drift"
  /\ Goto(IF kind = "quality" THEN "begin" ELSE "report")
  /\ UNCHANGED <<dbVars, ids, processes, faults, plan, run, fetched, outcome, error, left, reports, printed>>

\* Wrong on purpose: the UPDATE does not ask for status = 'RUNNING'.
FailEvaluationAnyway ==
  /\ pc = "failing"
  /\ IF conn # "error" /\ eval \in DOMAIN tx.evals
       THEN Save([tx EXCEPT !.evals[eval].status = "FAILED"]) ELSE SaveFails
  /\ error' = kind
  /\ eval' = 0 /\ left' = 0
  /\ Goto("report")
  /\ UNCHANGED <<ids, processes, faults, plan, run, fetched, outcome, kind, reports, printed>>

\* Wrong on purpose: a run that is not RUNNING keeps the handler from returning.
FailEvaluationOrWait ==
  /\ pc = "failing"
  /\ conn # "error" /\ eval \in DOMAIN tx.evals /\ tx.evals[eval].status = "RUNNING"
  /\ Save([tx EXCEPT !.evals[eval].status = "FAILED"])
  /\ error' = kind
  /\ eval' = 0 /\ left' = 0
  /\ Goto("report")
  /\ UNCHANGED <<ids, processes, faults, plan, run, fetched, outcome, kind, reports, printed>>

\* fail_*_evaluation: only a RUNNING run is marked; its own failure is swallowed.
FailEvaluation ==
  /\ pc = "failing"
  /\ IF conn # "error" /\ eval \in DOMAIN tx.evals /\ tx.evals[eval].status = "RUNNING"
       THEN Save([tx EXCEPT !.evals[eval].status = "FAILED"]) ELSE SaveFails
  /\ error' = kind
  /\ eval' = 0 /\ left' = 0
  /\ Goto("report")
  /\ UNCHANGED <<ids, processes, faults, plan, run, fetched, outcome, kind, reports, printed>>

-------------------------------------------------------------------------------
(***************************************************************************)
(* The command.                                                            *)
(***************************************************************************)
ResetSource ==
  /\ run' = 0 /\ fetched' = Nothing /\ outcome' = "RUNNING" /\ error' = "none"
  /\ kind' = "quality" /\ eval' = 0 /\ left' = 0

\* run_all keeps the outcome and turns to the next source.
NextSource ==
  /\ pc = "report"
  /\ reports' = reports \cup
       {[run |-> run, status |-> outcome, error |-> error, first |-> reports = {}]}
  /\ plan' = Tail(plan)
  /\ Goto(IF Len(plan) = 1 THEN "exit" ELSE "ensure")
  /\ ResetSource
  /\ UNCHANGED <<dbVars, ids, processes, faults, printed>>

\* `with psycopg.connect(...)' exits: COMMIT, which rolls back a spoiled transaction.
\* Then the outcomes are printed.
Exit ==
  /\ pc = "exit"
  /\ db' = IF conn = "error" THEN db ELSE tx
  /\ tx' = db' /\ conn' = "idle"
  /\ printed' = printed \cup reports
  /\ reports' = {}
  /\ Goto("none")
  /\ ResetSource
  /\ UNCHANGED <<ids, processes, faults, plan>>

\* An exception leaves run_source: the transaction was spoiled before this source.
Raise ==
  /\ pc = "ensure" /\ conn = "error"
  /\ Rollback
  /\ plan' = <<>> /\ reports' = {}
  /\ Goto("none")
  /\ ResetSource
  /\ UNCHANGED <<ids, processes, faults, printed>>

\* The process is killed, loses its connection, or a statement fails that run_source does
\* not guard: nothing is printed.
Die ==
  /\ pc # "none"
  /\ Fault
  /\ Rollback
  /\ plan' = <<>> /\ reports' = {}
  /\ Goto("none")
  /\ ResetSource
  /\ UNCHANGED <<ids, processes, printed>>

Step ==
  \/ EnsureDataset \/ CreateRun
  \/ \E records \in SUBSET Records, rejected \in BOOLEAN : Fetch(records, rejected)
  \/ FetchFails \/ Upsert \/ StoreFails \/ Finish \/ FinishFailed
  \/ BeginEvaluation \/ BeginFails
  \/ \E alarms \in 0..MaxAlarms : CompleteEvaluation(alarms)
  \/ CompleteFails \/ RecordIncident \/ ReconcileFails
  \/ AnalysisSucceeds \/ AnalysisFails \/ EvaluationReturns \/ FailEvaluation
  \/ NextSource \/ Exit \/ Raise

Next == Step \/ Die \/ \E p \in Plans : Start(p)

Spec == Init /\ [][Next]_vars

\* A process goes on until it ends; nothing makes it fail or makes the next one start.
FairSpec == Spec /\ WF_vars(Step)

-------------------------------------------------------------------------------
(***************************************************************************)
(* Properties.                                                             *)
(***************************************************************************)
\* However often a source is fetched again, and whatever run was cut short in between,
\* an observation is stored once, for the run that first stored it.
StoredOnce ==
  \A x, y \in db.rows : x.source = y.source /\ x.record = y.record => x = y

\* The counts of a committed run that did not fail are the rows that cite it.
CountsMatchRows ==
  \A r \in DOMAIN db.runs : db.runs[r].status \in {"SUCCESS", "PARTIAL", "NO_CHANGE"} =>
    /\ db.runs[r].written = Cardinality({x \in db.rows : x.run = r})
    /\ db.runs[r].status = "NO_CHANGE" => db.runs[r].written = 0

\* docs/data-quality.md: a quality evaluation follows an ingestion that ended in SUCCESS
\* or NO_CHANGE, and it is never durable without that run.
EvaluationFollowsRun ==
  \A e \in DOMAIN db.evals : db.evals[e].kind = "quality" =>
    LET r == db.evals[e].run IN
    r \in DOMAIN db.runs /\ db.runs[r].status \in {"SUCCESS", "NO_CHANGE"}

\* A committed evaluation has results exactly when it succeeded, and incidents cite only committed evaluations that have results.
EvaluationsAreWhole ==
  /\ \A e \in DOMAIN db.evals : db.evals[e].results <=> db.evals[e].status = "SUCCESS"
  /\ \A e \in db.cited : e \in DOMAIN db.evals /\ db.evals[e].results

\* The outcome printed for a process's first source is durable: its run was committed
\* before any evaluation opened the transaction that a rollback can discard.
FirstReportIsTrue ==
  \A p \in printed : p.first => p.run \in DOMAIN db.runs /\ db.runs[p.run].status = p.status

\* What is committed stays: no run or observation vanishes, a terminal status is final.
CommittedIsKept ==
  [][/\ db.rows \subseteq db'.rows
     /\ \A r \in DOMAIN db.runs :
          /\ r \in DOMAIN db'.runs
          /\ db.runs[r].status # "RUNNING" => db'.runs[r] = db.runs[r]]_vars

\* Whatever fails on its way, a process that keeps running comes to its end.
EveryProcessEnds == pc # "none" ~> pc = "none"

\* docs/ingestion.md: each run is inserted before its source is processed and finalized,
\* and its outcome printed: an outcome printed without an error is the stored one.
ReportsAreTrue ==
  \A p \in printed : p.error = "none" =>
    p.run \in DOMAIN db.runs /\ db.runs[p.run].status = p.status

\* docs/data-quality.md: a runtime failure of the quality engine is recorded as a
\* terminal FAILED run: no other terminal status stands for a run that was reported so.
QualityFailureIsRecorded ==
  \A p \in printed : p.error = "quality" =>
    \A e \in DOMAIN db.evals : db.evals[e].run = p.run => db.evals[e].status # "SUCCESS"
===============================================================================
