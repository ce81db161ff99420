--------------------------- MODULE PipelineRunProofs ---------------------------
(***************************************************************************)
(* Proofs about PipelineRun for every set of sources and records, every    *)
(* set of plans and every bound.                                           *)
(*                                                                         *)
(* The properties speak of the committed tables.  They are inductive       *)
(* together with the same facts about the tables the process reads, and    *)
(* with what the process knows at each of its steps about its run, its     *)
(* evaluation and the state of its connection.                             *)
(***************************************************************************)
EXTENDS PipelineRun, FiniteSetTheorems, SequenceTheorems, TLAPS

-------------------------------------------------------------------------------
(***************************************************************************)
(* The tables.                                                             *)
(***************************************************************************)
\* The tables are one record, and ingestion runs and evaluations are found by their ids.
Shaped(t) ==
  /\ t = [datasets |-> t.datasets, runs |-> t.runs, rows |-> t.rows,
          evals |-> t.evals, cited |-> t.cited]
  /\ t.runs = [r \in DOMAIN t.runs |-> t.runs[r]]
  /\ t.evals = [e \in DOMAIN t.evals |-> t.evals[e]]

\* IsTables, with n ids given out.
Typed(t, n) ==
  /\ t.datasets \subseteq Sources
  /\ DOMAIN t.runs \subseteq 1..n
  /\ \A r \in DOMAIN t.runs : t.runs[r] \in Run
  /\ t.rows \subseteq [source : Sources, record : Records, run : 1..n]
  /\ DOMAIN t.evals \subseteq 1..n
  /\ \A e \in DOMAIN t.evals :
        t.evals[e] \in [kind : {"quality", "drift"}, run : 1..n, status : EvalStatus, results : BOOLEAN]
  /\ t.cited \subseteq 1..n

RowsOf(t, r) == {x \in t.rows : x.run = r}

Unique(t) == \A x, y \in t.rows : x.source = y.source /\ x.record = y.record => x = y

Counted(t) ==
  \A r \in DOMAIN t.runs : t.runs[r].status \in {"SUCCESS", "PARTIAL", "NO_CHANGE"} =>
    /\ t.runs[r].written = Cardinality(RowsOf(t, r))
    /\ t.runs[r].status = "NO_CHANGE" => t.runs[r].written = 0

Followed(t) ==
  \A e \in DOMAIN t.evals : t.evals[e].kind = "quality" =>
    /\ t.evals[e].run \in DOMAIN t.runs
    /\ t.runs[t.evals[e].run].status \in {"SUCCESS", "NO_CHANGE"}

Whole(t) ==
  /\ \A e \in DOMAIN t.evals : t.evals[e].results <=> t.evals[e].status = "SUCCESS"
  /\ \A e \in t.cited : e \in DOMAIN t.evals /\ t.evals[e].results

\* What is true of the tables at any time, committed or not.
Lawful(t, n) == Shaped(t) /\ Typed(t, n) /\ Unique(t) /\ Counted(t) /\ Followed(t) /\ Whole(t)

\* Tables u keep what readers of tables t rely on.
Extends(t, u) ==
  /\ t.rows \subseteq u.rows
  /\ \A r \in DOMAIN t.runs :
       /\ r \in DOMAIN u.runs
       /\ t.runs[r].status # "RUNNING" => u.runs[r] = t.runs[r]

\* A process without a transaction reads what is committed.
Database == Lawful(db, ids) /\ Lawful(tx, ids) /\ Extends(db, tx) /\ (conn = "idle" => tx = db)

-------------------------------------------------------------------------------
(***************************************************************************)
(* The process.                                                            *)
(***************************************************************************)
Ingesting == {"fetch", "upsert", "finish", "finishFailed"}
Evaluating == {"complete", "reconcile", "analyze", "failing"}
Ended == {"begin", "report"} \cup Evaluating

\* The run of the current source is RUNNING until it is finished, and the observations
\* of the source are stored between fetch and finish.
RunKnown ==
  /\ pc \notin {"none", "exit"} => plan # <<>>
  /\ pc \in Ingesting =>
       run \in Ids /\ run \in DOMAIN tx.runs /\ tx.runs[run].status = "RUNNING"
  /\ pc \in {"fetch", "upsert"} => RowsOf(tx, run) = {}
  /\ pc = "finish" => fetched.written = Cardinality(RowsOf(tx, run))
  /\ pc \in Ended => run \in Ids /\ outcome \in Terminal
  /\ pc = "begin" /\ kind = "quality" =>
       /\ run \in DOMAIN tx.runs /\ tx.runs[run].status = outcome
       /\ outcome \in {"SUCCESS", "NO_CHANGE"}

\* An evaluation is part of the transaction that its first SELECT opened, or discarded with it.
EvaluationKnown ==
  /\ pc \in Evaluating => eval \in Ids /\ eval \notin DOMAIN db.evals
  /\ pc = "complete" => /\ conn # "idle" /\ eval \in DOMAIN tx.evals
                        /\ tx.evals[eval].status = "RUNNING"
  /\ pc \in {"reconcile", "analyze"} /\ eval \in DOMAIN tx.evals => tx.evals[eval].status = "SUCCESS"

\* The outcome p is what the database says.
Durable(p) == p.run \in DOMAIN db.runs /\ db.runs[p.run].status = p.status

\* Until the first evaluation of a process each of its statements commits.
FirstSource ==
  /\ pc = "none" => conn = "idle" /\ reports = {}
  /\ reports = {} /\ pc \in {"ensure", "create"} \cup Ingesting => conn = "idle"
  /\ reports = {} /\ pc \in Ended => run \in DOMAIN db.runs /\ db.runs[run].status = outcome
  /\ \A p \in reports \cup printed : p.first => Durable(p)

IInv == TypeOK /\ Database /\ RunKnown /\ EvaluationKnown /\ FirstSource

-------------------------------------------------------------------------------
(***************************************************************************)
(* The tables under their changes.                                         *)
(***************************************************************************)
LEMMA IsTablesTyped ==
  ASSUME NEW t
  PROVE  IsTables(t) <=> Typed(t, ids)
BY DEF IsTables, Typed, Ids, Evaluation

\* Storing one field of the record.
LEMMA FieldStored ==
  ASSUME NEW t, Shaped(t)
  PROVE  /\ \A v : [t EXCEPT !.datasets = v] =
              [datasets |-> v, runs |-> t.runs, rows |-> t.rows, evals |-> t.evals, cited |-> t.cited]
         /\ \A v : [t EXCEPT !.runs = v] =
              [datasets |-> t.datasets, runs |-> v, rows |-> t.rows, evals |-> t.evals, cited |-> t.cited]
         /\ \A v : [t EXCEPT !.rows = v] =
              [datasets |-> t.datasets, runs |-> t.runs, rows |-> v, evals |-> t.evals, cited |-> t.cited]
         /\ \A v : [t EXCEPT !.evals = v] =
              [datasets |-> t.datasets, runs |-> t.runs, rows |-> t.rows, evals |-> v, cited |-> t.cited]
         /\ \A v : [t EXCEPT !.cited = v] =
              [datasets |-> t.datasets, runs |-> t.runs, rows |-> t.rows, evals |-> t.evals, cited |-> v]
<1>1. PICK d, r, w, e, c : t = [datasets |-> d, runs |-> r, rows |-> w, evals |-> e, cited |-> c]
  BY DEF Shaped
<1> QED
  BY <1>1

\* More ids do no harm.
LEMMA LawfulLater ==
  ASSUME NEW t, NEW n \in Nat, NEW m \in Nat, n <= m, Lawful(t, n)
  PROVE  Lawful(t, m)
<1>1. 1..n \subseteq 1..m
  OBVIOUS
<1>2. Typed(t, n)
  BY DEF Lawful
<1>3. t.rows \subseteq [source : Sources, record : Records, run : 1..m]
  BY <1>1, <1>2 DEF Typed
<1>4. \A e \in DOMAIN t.evals :
        t.evals[e] \in [kind : {"quality", "drift"}, run : 1..m, status : EvalStatus, results : BOOLEAN]
  BY <1>1, <1>2 DEF Typed
<1>5. Typed(t, m)
  BY <1>1, <1>2, <1>3, <1>4 DEF Typed
<1> QED
  BY <1>5 DEF Lawful

LEMMA ExtendsReflexive == ASSUME NEW t PROVE Extends(t, t)
BY DEF Extends

LEMMA ExtendsTransitive ==
  ASSUME NEW s, NEW t, NEW u, Extends(s, t), Extends(t, u)
  PROVE  Extends(s, u)
<1>1. s.rows \subseteq u.rows
  BY DEF Extends
<1>2. ASSUME NEW r \in DOMAIN s.runs
      PROVE  r \in DOMAIN u.runs /\ (s.runs[r].status # "RUNNING" => u.runs[r] = s.runs[r])
  <2>1. r \in DOMAIN t.runs /\ (s.runs[r].status # "RUNNING" => t.runs[r] = s.runs[r])
    BY DEF Extends
  <2>2. r \in DOMAIN u.runs /\ (t.runs[r].status # "RUNNING" => u.runs[r] = t.runs[r])
    BY <2>1 DEF Extends
  <2> QED
    BY <2>1, <2>2
<1> QED
  BY <1>1, <1>2 DEF Extends

\* ensure_source_dataset.
LEMMA DatasetStored ==
  ASSUME NEW t, NEW n \in Nat, Lawful(t, n), NEW s \in Sources,
         NEW u, u = [t EXCEPT !.datasets = @ \cup {s}]
  PROVE  /\ Lawful(u, n) /\ Extends(t, u)
         /\ u.runs = t.runs /\ u.rows = t.rows /\ u.evals = t.evals
<1>1. u = [datasets |-> t.datasets \cup {s}, runs |-> t.runs, rows |-> t.rows,
           evals |-> t.evals, cited |-> t.cited]
  BY FieldStored DEF Lawful
<1>2. /\ u.datasets = t.datasets \cup {s} /\ u.runs = t.runs /\ u.rows = t.rows
      /\ u.evals = t.evals /\ u.cited = t.cited
  BY <1>1
<1>3. Shaped(u)
  BY <1>1, <1>2 DEF Lawful, Shaped
<1>4. Typed(u, n)
  BY <1>2 DEF Lawful, Typed
<1>5. Unique(u) /\ Counted(u) /\ Followed(u) /\ Whole(u)
  BY <1>2 DEF Lawful, Unique, Counted, RowsOf, Followed, Whole
<1> QED
  BY <1>2, <1>3, <1>4, <1>5 DEF Lawful, Extends

\* create_ingestion_run: the new run has no observations yet.
LEMMA RunStored ==
  ASSUME NEW t, NEW n \in Nat, Lawful(t, n), NEW s \in Sources,
         NEW u, u = [t EXCEPT !.runs = Put(@, n + 1, [source |-> s, status |-> "RUNNING", written |-> 0])]
  PROVE  /\ Lawful(u, n + 1) /\ Extends(t, u) /\ u.evals = t.evals
         /\ n + 1 \in DOMAIN u.runs /\ u.runs[n + 1].status = "RUNNING"
         /\ RowsOf(u, n + 1) = {}
<1> DEFINE new == [source |-> s, status |-> "RUNNING", written |-> 0]
           rs == Put(t.runs, n + 1, new)
<1>1. u = [datasets |-> t.datasets, runs |-> rs, rows |-> t.rows,
           evals |-> t.evals, cited |-> t.cited]
  BY FieldStored DEF Lawful
<1>2. /\ DOMAIN rs = DOMAIN t.runs \cup {n + 1} /\ rs[n + 1] = new
      /\ rs = [r \in DOMAIN rs |-> rs[r]]
      /\ \A r \in DOMAIN t.runs : r # n + 1 => rs[r] = t.runs[r]
  BY DEF Put
<1>3. Lawful(t, n + 1) /\ n + 1 \notin 1..n /\ n + 1 \in 1..(n + 1)
  BY LawfulLater
<1>4. new \in Run /\ new.status = "RUNNING"
  <2>1. Cardinality(Records) \in Nat
    BY RecordAssumption, FS_CardinalityType
  <2> QED
    BY <2>1 DEF Run, RunStatus
<1> HIDE DEF new, rs
<1>5. /\ u.datasets = t.datasets /\ u.runs = rs /\ u.rows = t.rows
      /\ u.evals = t.evals /\ u.cited = t.cited
  BY <1>1
<1>6. n + 1 \notin DOMAIN t.runs /\ \A x \in t.rows : x.run # n + 1
  <2>1. DOMAIN t.runs \subseteq 1..n /\ t.rows \subseteq [source : Sources, record : Records, run : 1..n]
    BY DEF Lawful, Typed
  <2>2. \A x \in t.rows : x.run \in 1..n
    BY <2>1
  <2> QED
    BY <1>3, <2>1, <2>2
<1>7. Shaped(u)
  BY <1>1, <1>2, <1>5 DEF Lawful, Shaped
<1>8. Typed(u, n + 1)
  BY <1>2, <1>3, <1>4, <1>5 DEF Lawful, Typed
<1>9. Unique(u) /\ Whole(u)
  BY <1>5 DEF Lawful, Unique, Whole
<1>10. Counted(u)
  BY <1>2, <1>4, <1>5 DEF Lawful, Counted, RowsOf
<1>11. Followed(u)
  BY <1>2, <1>5, <1>6 DEF Lawful, Followed
<1>12. Extends(t, u)
  BY <1>2, <1>5, <1>6 DEF Extends
<1> QED
  BY <1>2, <1>4, <1>5, <1>6, <1>7, <1>8, <1>9, <1>10, <1>11, <1>12 DEF Lawful, RowsOf

\* The observations of source s that tables t already hold.
KnownOf(t, s) == {row.record : row \in {x \in t.rows : x.source = s}}

\* The INSERT of the observations that are new: as many rows as records.
LEMMA RowsStored ==
  ASSUME NEW t, NEW n \in Nat, Lawful(t, n), NEW s \in Sources, NEW r \in DOMAIN t.runs,
         t.runs[r].status = "RUNNING", RowsOf(t, r) = {},
         NEW new, new \subseteq Records, new \cap KnownOf(t, s) = {},
         NEW u, u = [t EXCEPT !.rows = @ \cup {[source |-> s, record |-> x, run |-> r] : x \in new}]
  PROVE  /\ Lawful(u, n) /\ Extends(t, u) /\ u.runs = t.runs /\ u.evals = t.evals
         /\ Cardinality(new) = Cardinality(RowsOf(u, r))
<1> DEFINE added == {[source |-> s, record |-> x, run |-> r] : x \in new}
           rows == t.rows \cup added
<1>1. u = [datasets |-> t.datasets, runs |-> t.runs, rows |-> rows,
           evals |-> t.evals, cited |-> t.cited]
  BY FieldStored DEF Lawful
<1>2. \A x \in added : x.source = s /\ x.record \in new /\ x.run = r
  OBVIOUS
<1>3. \A x, y \in added : x.record = y.record => x = y
  OBVIOUS
<1>4. r \in 1..n
  BY DEF Lawful, Typed
<1>5. added \subseteq [source : Sources, record : Records, run : 1..n]
  BY <1>4
<1>6. IsFiniteSet(new) /\ Cardinality(added) = Cardinality(new)
  <2>1. IsFiniteSet(new)
    BY RecordAssumption, FS_Subset
  <2> DEFINE f == [x \in new |-> [source |-> s, record |-> x, run |-> r]]
  <2>2. f \in Bijection(new, added)
    <3>1. f \in [new -> added]
      OBVIOUS
    <3>2. \A x, y \in new : f[x] = f[y] => x = y
      OBVIOUS
    <3>3. \A y \in added : \E x \in new : f[x] = y
      OBVIOUS
    <3> HIDE DEF f, added
    <3> QED
      BY <3>1, <3>2, <3>3 DEF Bijection, Injection, Surjection, IsInjective
  <2> HIDE DEF f, added
  <2>3. Cardinality(new) = Cardinality(added)
    BY <2>1, <2>2, FS_Bijection DEF ExistsBijection
  <2> QED
    BY <2>1, <2>3
<1> HIDE DEF added
<1>7. /\ u.datasets = t.datasets /\ u.runs = t.runs /\ u.rows = rows
      /\ u.evals = t.evals /\ u.cited = t.cited
  BY <1>1
<1>8. RowsOf(u, r) = added
  BY <1>2, <1>7 DEF RowsOf
<1>9. \A q \in DOMAIN t.runs : q # r => RowsOf(u, q) = RowsOf(t, q)
  BY <1>2, <1>7 DEF RowsOf
<1>10. Shaped(u)
  BY <1>1, <1>7 DEF Lawful, Shaped
<1>11. Typed(u, n)
  BY <1>5, <1>7 DEF Lawful, Typed
<1>12. Unique(u)
  <2>1. \A x \in t.rows : x.source = s => x.record \notin new
    BY DEF KnownOf
  <2> SUFFICES ASSUME NEW x \in rows, NEW y \in rows, x.source = y.source, x.record = y.record
               PROVE  x = y
    BY <1>7 DEF Unique
  <2>2. CASE x \in t.rows /\ y \in t.rows
    BY <2>2 DEF Lawful, Unique
  <2>3. CASE x \in added /\ y \in added
    BY <1>3, <2>3
  <2>4. CASE x \in t.rows /\ y \in added
    BY <1>2, <2>1, <2>4
  <2>5. CASE x \in added /\ y \in t.rows
    BY <1>2, <2>1, <2>5
  <2> QED
    BY <2>2, <2>3, <2>4, <2>5
<1>13. Counted(u)
  BY <1>7, <1>9 DEF Lawful, Counted
<1>14. Followed(u) /\ Whole(u) /\ Extends(t, u)
  BY <1>7 DEF Lawful, Followed, Whole, Extends
<1> QED
  BY <1>6, <1>7, <1>8, <1>10, <1>11, <1>12, <1>13, <1>14 DEF Lawful

\* finish_ingestion_run: the run leaves RUNNING, with counts that are true or a status FAILED.
LEMMA RunFinished ==
  ASSUME NEW t, NEW n \in Nat, Lawful(t, n), NEW r \in DOMAIN t.runs,
         t.runs[r].status = "RUNNING", NEW new \in Run,
         \/ new.status = "FAILED"
         \/ /\ new.status \in {"SUCCESS", "PARTIAL", "NO_CHANGE"}
            /\ new.written = Cardinality(RowsOf(t, r))
            /\ new.status = "NO_CHANGE" => new.written = 0,
         NEW u, u = [t EXCEPT !.runs = [t.runs EXCEPT ![r] = new]]
  PROVE  /\ Lawful(u, n) /\ Extends(t, u) /\ u.rows = t.rows /\ u.evals = t.evals
         /\ r \in DOMAIN u.runs /\ u.runs[r] = new
<1> DEFINE rs == [t.runs EXCEPT ![r] = new]
<1>1. u = [datasets |-> t.datasets, runs |-> rs, rows |-> t.rows,
           evals |-> t.evals, cited |-> t.cited]
  BY FieldStored DEF Lawful
<1>2. /\ DOMAIN rs = DOMAIN t.runs /\ rs = [q \in DOMAIN rs |-> rs[q]] /\ rs[r] = new
      /\ \A q \in DOMAIN t.runs : q # r => rs[q] = t.runs[q]
  OBVIOUS
<1> HIDE DEF rs
<1>3. /\ u.datasets = t.datasets /\ u.runs = rs /\ u.rows = t.rows
      /\ u.evals = t.evals /\ u.cited = t.cited
  BY <1>1
<1>4. Shaped(u)
  BY <1>1, <1>2, <1>3 DEF Lawful, Shaped
<1>5. Typed(u, n)
  BY <1>2, <1>3 DEF Lawful, Typed
<1>6. Unique(u) /\ Whole(u)
  BY <1>3 DEF Lawful, Unique, Whole
<1>7. Counted(u)
  BY <1>2, <1>3 DEF Lawful, Counted, RowsOf
<1>8. Followed(u)
  BY <1>2, <1>3 DEF Lawful, Followed
<1>9. Extends(t, u)
  BY <1>2, <1>3 DEF Extends
<1> QED
  BY <1>2, <1>3, <1>4, <1>5, <1>6, <1>7, <1>8, <1>9 DEF Lawful

NewEvaluation(k, r) == [kind |-> k, run |-> r, status |-> "RUNNING", results |-> FALSE]

\* Tables t, with n ids given out, may take an evaluation of kind k of run r.
EvaluationDue(t, n, k, r) ==
  /\ n \in Nat /\ Lawful(t, n) /\ k \in {"quality", "drift"} /\ r \in 1..n
  /\ k = "quality" => r \in DOMAIN t.runs /\ t.runs[r].status \in {"SUCCESS", "NO_CHANGE"}

\* The INSERT of an evaluation run that is RUNNING.
LEMMA EvaluationStored ==
  ASSUME NEW t, NEW n, NEW k, NEW r, EvaluationDue(t, n, k, r),
         NEW u, u = [t EXCEPT !.evals = Put(t.evals, n + 1, NewEvaluation(k, r))]
  PROVE  /\ Lawful(u, n + 1) /\ Extends(t, u) /\ u.runs = t.runs /\ u.rows = t.rows
         /\ n + 1 \in DOMAIN u.evals /\ u.evals[n + 1].status = "RUNNING"
<1> DEFINE new == NewEvaluation(k, r)
           es == Put(t.evals, n + 1, new)
<1>0. /\ n \in Nat /\ Lawful(t, n) /\ k \in {"quality", "drift"} /\ r \in 1..n
      /\ k = "quality" => r \in DOMAIN t.runs /\ t.runs[r].status \in {"SUCCESS", "NO_CHANGE"}
  BY DEF EvaluationDue
<1>1. u = [datasets |-> t.datasets, runs |-> t.runs, rows |-> t.rows,
           evals |-> es, cited |-> t.cited]
  BY <1>0, FieldStored DEF Lawful
<1>2. /\ DOMAIN es = DOMAIN t.evals \cup {n + 1} /\ es[n + 1] = new
      /\ es = [e \in DOMAIN es |-> es[e]]
      /\ \A e \in DOMAIN t.evals : e # n + 1 => es[e] = t.evals[e]
  BY DEF Put
<1>3. /\ Lawful(t, n + 1) /\ n + 1 \notin 1..n /\ n + 1 \in 1..(n + 1) /\ r \in 1..(n + 1)
  BY <1>0, LawfulLater
<1>4. /\ new \in [kind : {"quality", "drift"}, run : 1..(n + 1), status : EvalStatus, results : BOOLEAN]
      /\ new.kind = k /\ new.run = r /\ new.status = "RUNNING" /\ new.results = FALSE
  BY <1>0, <1>3 DEF EvalStatus, NewEvaluation
<1> HIDE DEF new, es
<1>5. /\ u.datasets = t.datasets /\ u.runs = t.runs /\ u.rows = t.rows
      /\ u.evals = es /\ u.cited = t.cited
  BY <1>1
<1>6. n + 1 \notin DOMAIN t.evals
  BY <1>0, <1>3 DEF Lawful, Typed
<1>7. Shaped(u)
  BY <1>0, <1>1, <1>2, <1>5 DEF Lawful, Shaped
<1>8. Typed(u, n + 1)
  <2> DEFINE E == [kind : {"quality", "drift"}, run : 1..(n + 1), status : EvalStatus,
                   results : BOOLEAN]
  <2>1. Typed(t, n + 1) /\ new \in E
    BY <1>3, <1>4 DEF Lawful
  <2>2. \A e \in DOMAIN t.evals : t.evals[e] \in E
    BY <2>1 DEF Typed
  <2> HIDE DEF E
  <2>3. \A e \in DOMAIN es : es[e] \in E
    BY <1>2, <2>1, <2>2
  <2>4. DOMAIN es \subseteq 1..(n + 1)
    BY <1>2, <1>3, <2>1 DEF Typed
  <2> QED
    BY <1>5, <2>1, <2>3, <2>4 DEF Typed, E
<1>9. Unique(u) /\ Counted(u) /\ Extends(t, u)
  BY <1>0, <1>5 DEF Lawful, Unique, Counted, RowsOf, Extends
<1>10. Followed(u)
  BY <1>0, <1>2, <1>4, <1>5, <1>6 DEF Lawful, Followed
<1>11. Whole(u)
  <2>1. Whole(t)
    BY <1>0 DEF Lawful
  <2>2. \A e \in DOMAIN es : es[e].results <=> es[e].status = "SUCCESS"
    <3>1. es[n + 1].results <=> es[n + 1].status = "SUCCESS"
      BY <1>2, <1>4
    <3>2. \A e \in DOMAIN t.evals : es[e].results <=> es[e].status = "SUCCESS"
      BY <1>2, <1>6, <2>1 DEF Whole
    <3> QED
      BY <1>2, <3>1, <3>2
  <2>3. \A e \in t.cited : e \in DOMAIN es /\ es[e].results
    BY <1>2, <1>6, <2>1 DEF Whole
  <2> QED
    BY <1>5, <2>2, <2>3 DEF Whole
<1> QED
  BY <1>2, <1>4, <1>5, <1>7, <1>8, <1>9, <1>10, <1>11 DEF Lawful

\* The UPDATE that makes an evaluation terminal: with results when it succeeds, without when
\* it was RUNNING and fails.
LEMMA EvaluationUpdated ==
  ASSUME NEW t, NEW n \in Nat, Lawful(t, n), NEW e \in DOMAIN t.evals,
         NEW new, new.kind = t.evals[e].kind, new.run = t.evals[e].run,
         new \in [kind : {"quality", "drift"}, run : 1..n, status : EvalStatus, results : BOOLEAN],
         \/ new.status = "SUCCESS" /\ new.results
         \/ new.status = "FAILED" /\ ~new.results /\ t.evals[e].status = "RUNNING",
         NEW u, u = [t EXCEPT !.evals = [t.evals EXCEPT ![e] = new]]
  PROVE  /\ Lawful(u, n) /\ Extends(t, u) /\ u.runs = t.runs /\ u.rows = t.rows
         /\ DOMAIN u.evals = DOMAIN t.evals /\ u.evals[e] = new
<1> DEFINE es == [t.evals EXCEPT ![e] = new]
<1>1. u = [datasets |-> t.datasets, runs |-> t.runs, rows |-> t.rows,
           evals |-> es, cited |-> t.cited]
  BY FieldStored DEF Lawful
<1>2. /\ DOMAIN es = DOMAIN t.evals /\ es = [q \in DOMAIN es |-> es[q]] /\ es[e] = new
      /\ \A q \in DOMAIN t.evals : q # e => es[q] = t.evals[q]
  OBVIOUS
<1> HIDE DEF es
<1>3. /\ u.datasets = t.datasets /\ u.runs = t.runs /\ u.rows = t.rows
      /\ u.evals = es /\ u.cited = t.cited
  BY <1>1
<1>4. Shaped(u)
  BY <1>1, <1>2, <1>3 DEF Lawful, Shaped
<1>5. Typed(u, n)
  BY <1>2, <1>3 DEF Lawful, Typed
<1>6. Unique(u) /\ Counted(u) /\ Extends(t, u)
  BY <1>3 DEF Lawful, Unique, Counted, RowsOf, Extends
<1>7. Followed(u)
  BY <1>2, <1>3 DEF Lawful, Followed
<1>8. Whole(u)
  <2>1. t.evals[e].status = "RUNNING" => e \notin t.cited
    BY DEF Lawful, Whole
  <2> QED
    BY <1>2, <1>3, <2>1 DEF Lawful, Whole
<1> QED
  BY <1>2, <1>3, <1>4, <1>5, <1>6, <1>7, <1>8 DEF Lawful

\* An incident cites an evaluation that has results.
LEMMA CitationStored ==
  ASSUME NEW t, NEW n \in Nat, Lawful(t, n), NEW e \in DOMAIN t.evals,
         t.evals[e].status = "SUCCESS", NEW u, u = [t EXCEPT !.cited = @ \cup {e}]
  PROVE  /\ Lawful(u, n) /\ Extends(t, u)
         /\ u.runs = t.runs /\ u.rows = t.rows /\ u.evals = t.evals
<1>1. u = [datasets |-> t.datasets, runs |-> t.runs, rows |-> t.rows,
           evals |-> t.evals, cited |-> t.cited \cup {e}]
  BY FieldStored DEF Lawful
<1>2. /\ u.datasets = t.datasets /\ u.runs = t.runs /\ u.rows = t.rows
      /\ u.evals = t.evals /\ u.cited = t.cited \cup {e}
  BY <1>1
<1>3. Shaped(u)
  BY <1>1, <1>2 DEF Lawful, Shaped
<1>4. Typed(u, n)
  BY <1>2 DEF Lawful, Typed
<1>5. Unique(u) /\ Counted(u) /\ Followed(u) /\ Whole(u)
  BY <1>2 DEF Lawful, Unique, Counted, RowsOf, Followed, Whole
<1> QED
  BY <1>2, <1>3, <1>4, <1>5 DEF Lawful, Extends

-------------------------------------------------------------------------------
(***************************************************************************)
(* The connection.                                                         *)
(***************************************************************************)
\* TypeOK, but for the tables.
Locals ==
  /\ conn \in {"idle", "open", "error"}
  /\ ids \in Nat /\ processes \in 0..MaxProcesses
  /\ faults \in 0..MaxFaults
  /\ pc \in {"none", "ensure", "create", "fetch", "upsert", "finish", "finishFailed", "begin",
             "complete", "reconcile", "analyze", "failing", "report", "exit"}
  /\ plan \in Seq(Sources)
  /\ run \in Ids \cup {0} /\ eval \in Ids \cup {0}
  /\ fetched \in [records : SUBSET Records, rejected : BOOLEAN, written : 0..Cardinality(Records)]
  /\ outcome \in RunStatus
  /\ error \in {"none", "quality", "drift"}
  /\ kind \in {"quality", "drift"}
  /\ left \in 0..MaxAlarms
  /\ reports \subseteq Report /\ printed \subseteq Report

LEMMA TypesSplit == TypeOK <=> Locals /\ IsTables(db) /\ IsTables(tx)
BY DEF TypeOK, Locals

LEMMA TypesNow ==
  ASSUME Locals', Database'
  PROVE  TypeOK'
<1>1. (IsTables(db) <=> Typed(db, ids))' /\ (IsTables(tx) <=> Typed(tx, ids))'
  BY DEF IsTables, Typed, Ids, Evaluation
<1>2. (IsTables(db) /\ IsTables(tx))'
  BY <1>1 DEF Database, Lawful
<1> QED
  BY <1>2 DEF TypeOK, Locals

LEMMA DatabaseNow ==
  ASSUME Lawful(db', ids'), Lawful(tx', ids'), Extends(db', tx'), conn' = "idle" => tx' = db'
  PROVE  Database'
BY DEF Database, Lawful, Shaped, Typed, Unique, Counted, RowsOf, Followed, Whole, Extends

\* A statement that stores lawful tables which extend what the process reads.
LEMMA SaveKeeps ==
  ASSUME Database, NEW t, Save(t), ids \in Nat, ids' \in Nat, ids <= ids',
         Lawful(t, ids'), Extends(tx, t)
  PROVE  /\ Database' /\ Extends(db, db') /\ tx' = t /\ conn' = conn /\ conn # "error"
         /\ IF conn = "idle" THEN db' = t ELSE db' = db
<1>1. /\ tx' = t /\ conn' = conn /\ conn # "error"
      /\ IF conn = "idle" THEN db' = t ELSE db' = db
  BY DEF Save
<1>2. Lawful(db, ids) /\ Extends(db, tx)
  BY DEF Database
<1>3. Lawful(db, ids') /\ Extends(db, t)
  BY <1>2, LawfulLater, ExtendsTransitive
<1>4. Lawful(db', ids') /\ Lawful(tx', ids') /\ Extends(db', tx') /\ (conn' = "idle" => tx' = db')
      /\ Extends(db, db')
  BY <1>1, <1>3, ExtendsReflexive
<1> QED
  BY <1>1, <1>4, DatabaseNow

LEMMA SelectThenSaveKeeps ==
  ASSUME Database, NEW t, SelectThenSave(t), ids \in Nat, ids' \in Nat, ids <= ids',
         Lawful(t, ids'), Extends(tx, t)
  PROVE  Database' /\ Extends(db, db') /\ tx' = t /\ db' = db /\ conn' = "open"
<1>1. tx' = t /\ db' = db /\ conn' = "open"
  BY DEF SelectThenSave
<1>2. Lawful(db, ids) /\ Extends(db, tx)
  BY DEF Database
<1>3. Lawful(db, ids') /\ Extends(db, t)
  BY <1>2, LawfulLater, ExtendsTransitive
<1> QED
  BY <1>1, <1>3, DatabaseNow, ExtendsReflexive

\* Nothing is stored, and the connection does not become idle.
LEMMA UnchangedKeeps ==
  ASSUME Database, UNCHANGED <<db, tx, ids>>, conn' = conn \/ conn' # "idle"
  PROVE  Database' /\ Extends(db, db')
<1>1. Lawful(db', ids') /\ Lawful(tx', ids') /\ Extends(db', tx') /\ (conn' = "idle" => tx' = db')
  BY DEF Database
<1> QED
  BY <1>1, DatabaseNow, ExtendsReflexive

LEMMA RollbackKeeps ==
  ASSUME Database, Rollback, ids' = ids
  PROVE  Database' /\ Extends(db, db')
<1>1. Lawful(db', ids') /\ Lawful(tx', ids') /\ Extends(db', tx') /\ (conn' = "idle" => tx' = db')
  BY ExtendsReflexive DEF Database, Rollback
<1> QED
  BY <1>1, DatabaseNow, ExtendsReflexive DEF Rollback

\* An outcome that is durable stays so.
LEMMA DurableKept ==
  ASSUME Locals, FirstSource, Extends(db, db')
  PROVE  /\ \A p \in reports \cup printed : p.first => Durable(p)'
         /\ reports = {} /\ pc \in Ended /\ outcome \in Terminal =>
              run \in DOMAIN db'.runs /\ db'.runs[run].status = outcome
<1>1. \A p \in reports \cup printed : p.status \in Terminal
  BY DEF Locals, Report
<1>2. \A p \in reports \cup printed : p.first => Durable(p)
  BY DEF FirstSource
<1>3. "RUNNING" \notin Terminal
  BY DEF Terminal
<1>4. \A p \in reports \cup printed : p.first => Durable(p)'
  BY <1>1, <1>2, <1>3 DEF Durable, Extends
<1>5. reports = {} /\ pc \in Ended /\ outcome \in Terminal =>
              run \in DOMAIN db'.runs /\ db'.runs[run].status = outcome
  BY <1>3 DEF FirstSource, Extends
<1> QED
  BY <1>4, <1>5

-------------------------------------------------------------------------------
(***************************************************************************)
(* One lemma per step.                                                     *)
(***************************************************************************)
LEMMA InvSplit == IInv <=> Locals /\ Database /\ RunKnown /\ EvaluationKnown /\ FirstSource
BY TypesSplit, IsTablesTyped DEF IInv, Database, Lawful

LEMMA InvNow ==
  ASSUME Locals', Database', RunKnown', EvaluationKnown', FirstSource'
  PROVE  IInv'
BY TypesNow DEF IInv

LEMMA StartKeeps ==
  ASSUME IInv, NEW p \in Plans, Start(p)
  PROVE  IInv' /\ Extends(db, db')
<1>1. Locals /\ Database /\ RunKnown /\ EvaluationKnown /\ FirstSource
  BY InvSplit
<1>2. p \in Seq(Sources) /\ p # <<>>
  BY PlanAssumption
<1>3. /\ pc = "none" /\ pc' = "ensure" /\ plan' = p
      /\ UNCHANGED <<dbVars, ids, faults, run, fetched, outcome, error, evalVars, reports, printed>>
  BY DEF Start, Goto
<1>4. Locals'
  BY <1>1, <1>2, <1>3, BoundAssumption DEF Locals, Start, dbVars, evalVars, Ids, Report
<1>5. Database' /\ Extends(db, db')
  BY <1>1, <1>3, UnchangedKeeps DEF dbVars
<1>6. RunKnown' /\ EvaluationKnown'
  BY <1>2, <1>3 DEF RunKnown, EvaluationKnown, Ingesting, Evaluating, Ended
<1>7. FirstSource'
  BY <1>1, <1>3, <1>5, DurableKept DEF FirstSource, Ingesting, Evaluating, Ended, dbVars
<1> QED
  BY <1>4, <1>5, <1>6, <1>7, InvNow

LEMMA EnsureDatasetKeeps ==
  ASSUME IInv, EnsureDataset
  PROVE  IInv' /\ Extends(db, db')
<1>1. Locals /\ Database /\ RunKnown /\ EvaluationKnown /\ FirstSource
  BY InvSplit
<1>2. /\ pc = "ensure" /\ pc' = "create"
      /\ UNCHANGED <<ids, processes, faults, plan, run, fetched, outcome, error, evalVars,
                     reports, printed>>
  BY DEF EnsureDataset, Goto
<1>3. Source \in Sources
  BY <1>1, <1>2 DEF Locals, RunKnown, Source
<1>4. PICK t : Save(t) /\ t = [tx EXCEPT !.datasets = @ \cup {Source}]
  BY DEF EnsureDataset
<1>5. Lawful(t, ids') /\ Extends(tx, t) /\ ids \in Nat /\ ids' = ids
  BY <1>1, <1>2, <1>3, <1>4, DatasetStored DEF Database, Locals
<1>6. Database' /\ Extends(db, db') /\ conn' = conn
  BY <1>1, <1>4, <1>5, SaveKeeps
<1>7. Locals'
  BY <1>1, <1>2, <1>6 DEF Locals, evalVars, Ids, Report
<1>8. RunKnown' /\ EvaluationKnown'
  BY <1>1, <1>2 DEF RunKnown, EvaluationKnown, Ingesting, Evaluating, Ended
<1>9. FirstSource'
  BY <1>1, <1>2, <1>6, DurableKept DEF FirstSource, Ingesting, Evaluating, Ended
<1> QED
  BY <1>6, <1>7, <1>8, <1>9, InvNow

LEMMA IdsGrow ==
  ASSUME ids \in Nat, ids' = ids + 1
  PROVE  /\ Ids \subseteq Ids' /\ Report \subseteq Report' /\ ids + 1 \in Ids'
         /\ ids' \in Nat /\ ids <= ids' /\ ids + 1 \notin Ids
<1>1. Ids \subseteq Ids' /\ ids + 1 \in Ids' /\ ids' \in Nat /\ ids <= ids' /\ ids + 1 \notin Ids
  BY DEF Ids
<1>2. Report \subseteq Report'
  BY <1>1 DEF Report
<1> QED
  BY <1>1, <1>2

LEMMA CreateRunKeeps ==
  ASSUME IInv, CreateRun
  PROVE  IInv' /\ Extends(db, db')
<1>1. Locals /\ Database /\ RunKnown /\ EvaluationKnown /\ FirstSource
  BY InvSplit
<1>2. /\ pc = "create" /\ pc' = "fetch" /\ ids' = ids + 1 /\ run' = ids + 1
      /\ UNCHANGED <<processes, faults, plan, fetched, outcome, error, evalVars, reports, printed>>
  BY DEF CreateRun, Goto
<1>3. Source \in Sources /\ ids \in Nat
  BY <1>1, <1>2 DEF Locals, RunKnown, Source
<1>4. PICK t : /\ Save(t)
               /\ t = [tx EXCEPT !.runs =
                         Put(@, ids + 1, [source |-> Source, status |-> "RUNNING", written |-> 0])]
  BY DEF CreateRun
<1>5. /\ Lawful(t, ids') /\ Extends(tx, t)
      /\ ids + 1 \in DOMAIN t.runs /\ t.runs[ids + 1].status = "RUNNING"
      /\ RowsOf(t, ids + 1) = {}
  BY <1>1, <1>2, <1>3, <1>4, RunStored DEF Database
<1>6. /\ Ids \subseteq Ids' /\ Report \subseteq Report' /\ ids + 1 \in Ids' /\ ids' \in Nat
      /\ ids <= ids'
  BY <1>2, <1>3, IdsGrow
<1>7. Database' /\ Extends(db, db') /\ conn' = conn /\ tx' = t
  BY <1>1, <1>3, <1>4, <1>5, <1>6, SaveKeeps
<1>8. Locals'
  BY <1>1, <1>2, <1>6, <1>7 DEF Locals, evalVars
<1>9. RunKnown'
  BY <1>1, <1>2, <1>5, <1>6, <1>7 DEF RunKnown, Ingesting, Evaluating, Ended, RowsOf
<1>10. EvaluationKnown'
  BY <1>2 DEF EvaluationKnown, Evaluating
<1>11. FirstSource'
  BY <1>1, <1>2, <1>7, DurableKept DEF FirstSource, Ingesting, Evaluating, Ended
<1> QED
  BY <1>7, <1>8, <1>9, <1>10, <1>11, InvNow

LEMMA FetchKeeps ==
  ASSUME IInv, NEW records \in SUBSET Records, NEW rejected \in BOOLEAN, Fetch(records, rejected)
  PROVE  IInv' /\ Extends(db, db')
<1>1. Locals /\ Database /\ RunKnown /\ EvaluationKnown /\ FirstSource
  BY InvSplit
<1>2. /\ pc = "fetch" /\ pc' = "upsert"
      /\ fetched' = [records |-> records, rejected |-> rejected, written |-> 0]
      /\ UNCHANGED <<dbVars, ids, processes, faults, plan, run, outcome, error, evalVars,
                     reports, printed>>
  BY DEF Fetch, Goto
<1>3. Database' /\ Extends(db, db')
  BY <1>1, <1>2, UnchangedKeeps DEF dbVars
<1>4. Cardinality(Records) \in Nat
  BY RecordAssumption, FS_CardinalityType
<1>5. fetched' \in [records : SUBSET Records, rejected : BOOLEAN, written : 0..Cardinality(Records)]
  BY <1>2, <1>4
<1>6. Locals'
  BY <1>1, <1>2, <1>5 DEF Locals, dbVars, evalVars, Ids, Report
<1>7. RunKnown' /\ EvaluationKnown'
  BY <1>1, <1>2
     DEF RunKnown, EvaluationKnown, Ingesting, Evaluating, Ended, RowsOf, dbVars, Ids
<1>8. FirstSource'
  BY <1>1, <1>2, <1>3, DurableKept DEF FirstSource, Ingesting, Evaluating, Ended, dbVars
<1> QED
  BY <1>3, <1>6, <1>7, <1>8, InvNow

\* The steps to finishFailed: fetching or storing fails, and nothing is stored.
LEMMA IngestionFailsKeeps ==
  ASSUME IInv, FetchFails \/ StoreFails
  PROVE  IInv' /\ Extends(db, db')
<1>1. Locals /\ Database /\ RunKnown /\ EvaluationKnown /\ FirstSource
  BY InvSplit
<1>2. /\ pc \in {"fetch", "upsert", "finish"} /\ pc' = "finishFailed" /\ Fault
      /\ UNCHANGED <<dbVars, ids, processes, plan, run, fetched, outcome, error, evalVars,
                     reports, printed>>
  BY DEF FetchFails, StoreFails, SaveFails, Goto
<1>3. Database' /\ Extends(db, db')
  BY <1>1, <1>2, UnchangedKeeps DEF dbVars
<1>4. Locals'
  BY <1>1, <1>2, BoundAssumption DEF Locals, dbVars, evalVars, Ids, Report, Fault
<1>5. RunKnown' /\ EvaluationKnown'
  BY <1>1, <1>2 DEF RunKnown, EvaluationKnown, Ingesting, Evaluating, Ended, dbVars, Ids
<1>6. FirstSource'
  BY <1>1, <1>2, <1>3, DurableKept DEF FirstSource, Ingesting, Evaluating, Ended, dbVars
<1> QED
  BY <1>3, <1>4, <1>5, <1>6, InvNow

LEMMA UpsertKeeps ==
  ASSUME IInv, Upsert
  PROVE  IInv' /\ Extends(db, db')
<1> DEFINE new == fetched.records \ Known
<1>1. Locals /\ Database /\ RunKnown /\ EvaluationKnown /\ FirstSource
  BY InvSplit
<1>2. /\ pc = "upsert" /\ pc' = "finish" /\ fetched' = [fetched EXCEPT !.written = Cardinality(new)]
      /\ UNCHANGED <<ids, processes, faults, plan, run, outcome, error, evalVars, reports, printed>>
  BY DEF Upsert, Goto
<1>3. /\ Source \in Sources /\ ids \in Nat /\ run \in Ids /\ run \in DOMAIN tx.runs
      /\ tx.runs[run].status = "RUNNING" /\ RowsOf(tx, run) = {}
      /\ new \subseteq Records /\ new \cap KnownOf(tx, Source) = {}
  BY <1>1, <1>2 DEF Locals, RunKnown, Source, Ingesting, Known, KnownOf
<1>4. PICK t : /\ Save(t)
               /\ t = [tx EXCEPT !.rows = @ \cup
                         {[source |-> Source, record |-> x, run |-> run] : x \in new}]
  BY DEF Upsert
<1>5. Cardinality(new) \in 0..Cardinality(Records)
  BY <1>3, RecordAssumption, FS_CardinalityType, FS_Subset
<1> HIDE DEF new
<1>6. /\ Lawful(t, ids') /\ Extends(tx, t) /\ t.runs = tx.runs
      /\ Cardinality(new) = Cardinality(RowsOf(t, run))
  BY <1>1, <1>2, <1>3, <1>4, RowsStored DEF Database
<1>7. Database' /\ Extends(db, db') /\ conn' = conn /\ tx' = t
  BY <1>1, <1>2, <1>3, <1>4, <1>6, SaveKeeps
<1>8. fetched' \in [records : SUBSET Records, rejected : BOOLEAN, written : 0..Cardinality(Records)]
      /\ fetched'.written = Cardinality(new)
  BY <1>1, <1>2, <1>5 DEF Locals
<1>9. Locals'
  BY <1>1, <1>2, <1>7, <1>8 DEF Locals, evalVars, Ids, Report
<1>10. RunKnown'
  <2>1. fetched'.written = Cardinality(RowsOf(tx', run'))
    BY <1>2, <1>6, <1>7, <1>8
  <2> QED
    BY <1>1, <1>2, <1>3, <1>6, <1>7, <2>1 DEF RunKnown, Ingesting, Evaluating, Ended, RowsOf, Ids
<1>11. EvaluationKnown'
  BY <1>2 DEF EvaluationKnown, Evaluating
<1>12. FirstSource'
  BY <1>1, <1>2, <1>7, DurableKept DEF FirstSource, Ingesting, Evaluating, Ended
<1> QED
  BY <1>7, <1>9, <1>10, <1>11, <1>12, InvNow

\* The run becomes terminal, and on an idle connection durable.
LEMMA FinishKeeps ==
  ASSUME IInv, Finish \/ FinishFailed
  PROVE  IInv' /\ Extends(db, db')
<1>1. Locals /\ Database /\ RunKnown /\ EvaluationKnown /\ FirstSource
  BY InvSplit
<1>2. /\ pc \in {"finish", "finishFailed"} /\ fetched' = Nothing
      /\ pc' \in {"report", "begin"} /\ outcome' \in Terminal
      /\ pc' = "begin" => outcome' \in {"SUCCESS", "NO_CHANGE"}
      /\ UNCHANGED <<ids, processes, faults, plan, run, error, evalVars, reports, printed>>
  BY DEF Finish, FinishFailed, Goto, Terminal
<1>3. /\ ids \in Nat /\ run \in Ids /\ run \in DOMAIN tx.runs /\ tx.runs[run].status = "RUNNING"
      /\ tx.runs[run] \in Run
      /\ pc = "finish" => fetched.written = Cardinality(RowsOf(tx, run))
      /\ fetched.written \in 0..Cardinality(Records)
  BY <1>1, <1>2 DEF Locals, RunKnown, Ingesting, Database, Lawful, Typed
<1>4. PICK new, t : /\ Save(t) /\ t = [tx EXCEPT !.runs = [tx.runs EXCEPT ![run] = new]]
                    /\ new \in Run /\ new.status = outcome'
                    /\ \/ new.status = "FAILED"
                       \/ /\ new.status \in {"SUCCESS", "PARTIAL", "NO_CHANGE"}
                          /\ new.written = Cardinality(RowsOf(tx, run))
                          /\ new.status = "NO_CHANGE" => new.written = 0
  <2>1. CASE Finish
    <3> DEFINE new == [tx.runs[run] EXCEPT !.status = outcome', !.written = fetched.written]
               t == [tx EXCEPT !.runs = [tx.runs EXCEPT ![run] = new]]
    <3>1. /\ new \in Run /\ new.status = outcome' /\ new.written = fetched.written
      BY <1>2, <1>3 DEF Run, RunStatus
    <3>2. pc = "finish" /\ outcome' \in {"SUCCESS", "PARTIAL", "NO_CHANGE"}
          /\ (outcome' = "NO_CHANGE" => fetched.written = 0)
      BY <2>1 DEF Finish
    <3>3. Save(t)
      BY <2>1 DEF Finish
    <3> HIDE DEF new, t
    <3>4. t = [tx EXCEPT !.runs = [tx.runs EXCEPT ![run] = new]]
      BY DEF t
    <3> QED
      BY <1>3, <3>1, <3>2, <3>3, <3>4
  <2>2. CASE FinishFailed
    <3> DEFINE new == [tx.runs[run] EXCEPT !.status = "FAILED"]
               t == [tx EXCEPT !.runs = [tx.runs EXCEPT ![run] = new]]
    <3>1. /\ new \in Run /\ new.status = outcome' /\ new.status = "FAILED"
      BY <1>3, <2>2 DEF Run, RunStatus, Terminal, FinishFailed
    <3>2. Save(t)
      BY <2>2 DEF FinishFailed
    <3> HIDE DEF new, t
    <3>3. t = [tx EXCEPT !.runs = [tx.runs EXCEPT ![run] = new]]
      BY DEF t
    <3> QED
      BY <3>1, <3>2, <3>3
  <2> QED
    BY <2>1, <2>2
<1>5. /\ Lawful(t, ids') /\ Extends(tx, t) /\ run \in DOMAIN t.runs /\ t.runs[run] = new
  BY <1>1, <1>2, <1>3, <1>4, RunFinished DEF Database
<1>6. /\ Database' /\ Extends(db, db') /\ conn' = conn /\ tx' = t
      /\ conn = "idle" => db' = t
  BY <1>1, <1>2, <1>3, <1>4, <1>5, SaveKeeps
<1>7. Cardinality(Records) \in Nat
  BY RecordAssumption, FS_CardinalityType
<1>8. fetched' \in [records : SUBSET Records, rejected : BOOLEAN, written : 0..Cardinality(Records)]
  BY <1>2, <1>7 DEF Nothing
<1>9. Locals'
  BY <1>1, <1>2, <1>6, <1>8 DEF Locals, evalVars, Ids, Report, RunStatus
<1>10. RunKnown'
  BY <1>1, <1>2, <1>3, <1>4, <1>5, <1>6 DEF RunKnown, Ingesting, Evaluating, Ended, Ids
<1>11. EvaluationKnown'
  BY <1>2 DEF EvaluationKnown, Evaluating
<1>12. FirstSource'
  BY <1>1, <1>2, <1>4, <1>5, <1>6, DurableKept DEF FirstSource, Ingesting, Evaluating, Ended
<1> QED
  BY <1>6, <1>9, <1>10, <1>11, <1>12, InvNow

\* The evaluation's INSERT is part of the transaction that its SELECT opened.
LEMMA BeginEvaluationKeeps ==
  ASSUME IInv, BeginEvaluation
  PROVE  IInv' /\ Extends(db, db')
<1>1. Locals /\ Database /\ RunKnown /\ EvaluationKnown /\ FirstSource
  BY InvSplit
<1>2. /\ pc = "begin" /\ pc' = "complete" /\ ids' = ids + 1 /\ eval' = ids + 1
      /\ UNCHANGED <<processes, faults, plan, run, fetched, outcome, error, kind, left,
                     reports, printed>>
  BY DEF BeginEvaluation, Goto
<1>3. /\ ids \in Nat /\ kind \in {"quality", "drift"} /\ run \in 1..ids
      /\ kind = "quality" => run \in DOMAIN tx.runs /\ tx.runs[run].status \in {"SUCCESS", "NO_CHANGE"}
  BY <1>1, <1>2 DEF Locals, RunKnown, Ended, Ids
<1>4. PICK t : /\ SelectThenSave(t)
               /\ t = [tx EXCEPT !.evals = Put(tx.evals, ids + 1, NewEvaluation(kind, run))]
  BY DEF BeginEvaluation, NewEvaluation
<1>5. /\ Lawful(t, ids') /\ Extends(tx, t) /\ ids + 1 \in DOMAIN t.evals
      /\ t.evals[ids + 1].status = "RUNNING"
  <2>1. Lawful(tx, ids)
    BY <1>1 DEF Database
  <2>2. t = [tx EXCEPT !.evals = Put(tx.evals, ids + 1, NewEvaluation(kind, run))]
    BY <1>4
  <2>3. EvaluationDue(tx, ids, kind, run)
    BY <1>3, <2>1 DEF EvaluationDue
  <2>4. /\ Lawful(t, ids + 1) /\ Extends(tx, t) /\ ids + 1 \in DOMAIN t.evals
        /\ t.evals[ids + 1].status = "RUNNING"
    BY <2>2, <2>3, EvaluationStored
  <2> QED
    BY <1>2, <2>4
<1>6. /\ Ids \subseteq Ids' /\ Report \subseteq Report' /\ ids + 1 \in Ids' /\ ids' \in Nat
      /\ ids <= ids' /\ ids + 1 \notin Ids
  BY <1>2, <1>3, IdsGrow
<1>7. Database' /\ Extends(db, db') /\ conn' = "open" /\ tx' = t /\ db' = db
  BY <1>1, <1>3, <1>4, <1>5, <1>6, SelectThenSaveKeeps
<1>8. ids + 1 \notin DOMAIN db.evals
  BY <1>1, <1>6 DEF Database, Lawful, Typed, Ids
<1>9. Locals'
  BY <1>1, <1>2, <1>6, <1>7 DEF Locals
<1>10. RunKnown'
  BY <1>1, <1>2, <1>6 DEF RunKnown, Ingesting, Evaluating, Ended
<1>11. EvaluationKnown'
  BY <1>2, <1>5, <1>6, <1>7, <1>8 DEF EvaluationKnown, Evaluating
<1>12. FirstSource'
  BY <1>1, <1>2, <1>7, DurableKept DEF FirstSource, Ingesting, Evaluating, Ended, RunKnown
<1> QED
  BY <1>7, <1>9, <1>10, <1>11, <1>12, InvNow

\* Steps of an evaluation that store nothing.
LEMMA QuietKeeps ==
  ASSUME IInv, pc \in Ended, UNCHANGED <<db, tx, ids, run, outcome, plan, reports, printed>>,
         conn' = conn \/ conn' # "idle", Locals', RunKnown', EvaluationKnown', pc' \in Ended
  PROVE  IInv' /\ Extends(db, db')
<1>1. Locals /\ Database /\ RunKnown /\ FirstSource
  BY InvSplit
<1>2. Database' /\ Extends(db, db')
  BY <1>1, UnchangedKeeps
<1>3. FirstSource'
  BY <1>1, <1>2, DurableKept DEF FirstSource, Ingesting, Evaluating, Ended, RunKnown
<1> QED
  BY <1>2, <1>3, InvNow

LEMMA BeginFailsKeeps ==
  ASSUME IInv, BeginFails
  PROVE  IInv' /\ Extends(db, db')
<1>1. Locals /\ RunKnown
  BY InvSplit
<1>2. /\ pc = "begin" /\ pc' = "report" /\ error' = kind /\ conn' \in {"open", "error"}
      /\ faults' = faults \/ Fault
      /\ UNCHANGED <<db, tx, ids, processes, plan, run, fetched, outcome, evalVars, reports, printed>>
  BY DEF BeginFails, SelectFails, Goto
<1>3. Locals'
  BY <1>1, <1>2, BoundAssumption DEF Locals, evalVars, Ids, Report, Fault
<1>4. RunKnown' /\ EvaluationKnown'
  BY <1>1, <1>2 DEF RunKnown, EvaluationKnown, Ingesting, Evaluating, Ended, Ids
<1> QED
  BY <1>1, <1>2, <1>3, <1>4, QuietKeeps DEF Ended

LEMMA CompleteEvaluationKeeps ==
  ASSUME IInv, NEW alarms \in 0..MaxAlarms, CompleteEvaluation(alarms)
  PROVE  IInv' /\ Extends(db, db')
<1>1. Locals /\ Database /\ RunKnown /\ EvaluationKnown /\ FirstSource
  BY InvSplit
<1>2. /\ pc = "complete" /\ pc' = "reconcile" /\ left' = alarms
      /\ UNCHANGED <<ids, processes, faults, plan, run, fetched, outcome, error, kind, eval,
                     reports, printed>>
  BY DEF CompleteEvaluation, Goto
<1>3. /\ eval \in DOMAIN tx.evals /\ conn # "idle" /\ ids \in Nat
      /\ eval \in Ids /\ eval \notin DOMAIN db.evals
      /\ tx.evals[eval] \in
           [kind : {"quality", "drift"}, run : 1..ids, status : EvalStatus, results : BOOLEAN]
  BY <1>1, <1>2 DEF EvaluationKnown, Evaluating, Database, Lawful, Typed, Locals
<1> DEFINE new == [tx.evals[eval] EXCEPT !.status = "SUCCESS", !.results = TRUE]
<1>4. PICK t : Save(t) /\ t = [tx EXCEPT !.evals = [tx.evals EXCEPT ![eval] = new]]
  BY DEF CompleteEvaluation
<1>5. /\ new \in [kind : {"quality", "drift"}, run : 1..ids, status : EvalStatus, results : BOOLEAN]
      /\ new.kind = tx.evals[eval].kind /\ new.run = tx.evals[eval].run
      /\ new.status = "SUCCESS" /\ new.results
  BY <1>3 DEF EvalStatus
<1> HIDE DEF new
<1>6. Lawful(t, ids') /\ Extends(tx, t) /\ t.evals[eval] = new
  <2>1. Lawful(tx, ids) /\ eval \in DOMAIN tx.evals /\ ids \in Nat
    BY <1>1, <1>3 DEF Database
  <2>2. t = [tx EXCEPT !.evals = [tx.evals EXCEPT ![eval] = new]]
    BY <1>4
  <2>3. Lawful(t, ids) /\ Extends(tx, t) /\ t.evals[eval] = new
    BY <1>5, <2>1, <2>2, EvaluationUpdated
  <2> QED
    BY <1>2, <2>3
<1>7. Database' /\ Extends(db, db') /\ conn' = conn /\ tx' = t /\ db' = db
  BY <1>1, <1>2, <1>3, <1>4, <1>6, SaveKeeps
<1>8. Locals'
  BY <1>1, <1>2, <1>7 DEF Locals, Ids, Report
<1>9. RunKnown'
  BY <1>1, <1>2 DEF RunKnown, Ingesting, Evaluating, Ended, Ids
<1>10. EvaluationKnown'
  BY <1>2, <1>3, <1>5, <1>6, <1>7 DEF EvaluationKnown, Evaluating, Ids
<1>11. FirstSource'
  BY <1>1, <1>2, <1>7, DurableKept DEF FirstSource, Ingesting, Evaluating, Ended, RunKnown
<1> QED
  BY <1>7, <1>8, <1>9, <1>10, <1>11, InvNow

\* The steps to failing.
LEMMA EvaluationFailsKeeps ==
  ASSUME IInv, CompleteFails \/ ReconcileFails
  PROVE  IInv' /\ Extends(db, db')
<1>1. Locals /\ RunKnown /\ EvaluationKnown
  BY InvSplit
<1>2. /\ pc \in {"complete", "reconcile"} /\ pc' = "failing" /\ conn' \in {conn, "open", "error"}
      /\ faults' = faults \/ Fault
      /\ UNCHANGED <<db, tx, ids, processes, plan, run, fetched, outcome, error, evalVars,
                     reports, printed>>
  <2>1. CASE CompleteFails
    BY <2>1 DEF CompleteFails, SelectFails, SaveFails, dbVars, Goto
  <2>2. CASE ReconcileFails
    BY <2>2 DEF ReconcileFails, SelectFails, Goto
  <2> QED
    BY <2>1, <2>2
<1>3. Locals'
  BY <1>1, <1>2, BoundAssumption DEF Locals, evalVars, Ids, Report, Fault
<1>4. RunKnown' /\ EvaluationKnown'
  BY <1>1, <1>2 DEF RunKnown, EvaluationKnown, Ingesting, Evaluating, Ended, Ids, evalVars
<1> QED
  BY <1>1, <1>2, <1>3, <1>4, QuietKeeps DEF Ended, Evaluating

LEMMA RecordIncidentKeeps ==
  ASSUME IInv, RecordIncident
  PROVE  IInv' /\ Extends(db, db')
<1>1. Locals /\ Database /\ RunKnown /\ EvaluationKnown /\ FirstSource
  BY InvSplit
<1>2. /\ pc = "reconcile" /\ pc' = "analyze" /\ left > 0 /\ left' = left - 1
      /\ eval \in DOMAIN tx.evals
      /\ UNCHANGED <<ids, processes, faults, plan, run, fetched, outcome, error, kind, eval,
                     reports, printed>>
  BY DEF RecordIncident, Goto
<1>3. ids \in Nat /\ tx.evals[eval].status = "SUCCESS" /\ eval \in Ids /\ eval \notin DOMAIN db.evals
  BY <1>1, <1>2 DEF Locals, EvaluationKnown, Evaluating
<1>4. PICK t : SelectThenSave(t) /\ t = [tx EXCEPT !.cited = @ \cup {eval}]
  BY DEF RecordIncident
<1>5. Lawful(t, ids') /\ Extends(tx, t) /\ t.evals = tx.evals
  BY <1>1, <1>2, <1>3, <1>4, CitationStored DEF Database
<1>6. Database' /\ Extends(db, db') /\ conn' = "open" /\ tx' = t /\ db' = db
  BY <1>1, <1>2, <1>3, <1>4, <1>5, SelectThenSaveKeeps
<1>7. Locals'
  BY <1>1, <1>2, <1>6, BoundAssumption DEF Locals, Ids, Report
<1>8. RunKnown'
  BY <1>1, <1>2 DEF RunKnown, Ingesting, Evaluating, Ended, Ids
<1>9. EvaluationKnown'
  BY <1>2, <1>3, <1>5, <1>6 DEF EvaluationKnown, Evaluating, Ids
<1>10. FirstSource'
  BY <1>1, <1>2, <1>6, DurableKept DEF FirstSource, Ingesting, Evaluating, Ended, RunKnown
<1> QED
  BY <1>6, <1>7, <1>8, <1>9, <1>10, InvNow

LEMMA AnalysisSucceedsKeeps ==
  ASSUME IInv, AnalysisSucceeds
  PROVE  IInv' /\ Extends(db, db')
<1>1. Locals /\ RunKnown /\ EvaluationKnown
  BY InvSplit
<1>2. /\ pc = "analyze" /\ pc' = "reconcile"
      /\ UNCHANGED <<dbVars, ids, processes, faults, plan, run, fetched, outcome, error, evalVars,
                     reports, printed>>
  BY DEF AnalysisSucceeds, Goto
<1>3. Locals'
  BY <1>1, <1>2 DEF Locals, evalVars, dbVars, Ids, Report
<1>4. RunKnown' /\ EvaluationKnown'
  BY <1>1, <1>2 DEF RunKnown, EvaluationKnown, Ingesting, Evaluating, Ended, Ids, evalVars, dbVars
<1> QED
  BY <1>1, <1>2, <1>3, <1>4, QuietKeeps DEF Ended, Evaluating, dbVars

\* The rollback discards the evaluation with everything else that is not committed.
LEMMA AnalysisFailsKeeps ==
  ASSUME IInv, AnalysisFails
  PROVE  IInv' /\ Extends(db, db')
<1>1. Locals /\ Database /\ RunKnown /\ EvaluationKnown /\ FirstSource
  BY InvSplit
<1>2. /\ pc = "analyze" /\ pc' = "reconcile" /\ Fault /\ Rollback
      /\ UNCHANGED <<ids, processes, plan, run, fetched, outcome, error, evalVars, reports, printed>>
  BY DEF AnalysisFails, Goto
<1>3. Database' /\ Extends(db, db') /\ db' = db /\ tx' = db /\ conn' = "idle"
  BY <1>1, <1>2, RollbackKeeps DEF Rollback
<1>4. Locals'
  BY <1>1, <1>2, <1>3, BoundAssumption DEF Locals, evalVars, Ids, Report, Fault
<1>5. RunKnown' /\ EvaluationKnown'
  BY <1>1, <1>2, <1>3
     DEF RunKnown, EvaluationKnown, Ingesting, Evaluating, Ended, Ids, evalVars
<1>6. FirstSource'
  BY <1>1, <1>2, <1>3, DurableKept DEF FirstSource, Ingesting, Evaluating, Ended, RunKnown
<1> QED
  BY <1>3, <1>4, <1>5, <1>6, InvNow

LEMMA EvaluationReturnsKeeps ==
  ASSUME IInv, EvaluationReturns
  PROVE  IInv' /\ Extends(db, db')
<1>1. Locals /\ RunKnown /\ EvaluationKnown
  BY InvSplit
<1>2. /\ pc = "reconcile" /\ pc' \in {"begin", "report"} /\ eval' = 0 /\ kind' = "drift"
      /\ UNCHANGED <<dbVars, ids, processes, faults, plan, run, fetched, outcome, error, left,
                     reports, printed>>
  BY DEF EvaluationReturns, Goto
<1>3. Locals'
  BY <1>1, <1>2 DEF Locals, dbVars, Ids, Report
<1>4. RunKnown' /\ EvaluationKnown'
  BY <1>1, <1>2 DEF RunKnown, EvaluationKnown, Ingesting, Evaluating, Ended, Ids
<1> QED
  BY <1>1, <1>2, <1>3, <1>4, QuietKeeps DEF Ended, Evaluating, dbVars

LEMMA FailEvaluationKeeps ==
  ASSUME IInv, FailEvaluation
  PROVE  IInv' /\ Extends(db, db')
<1>1. Locals /\ Database /\ RunKnown /\ EvaluationKnown /\ FirstSource
  BY InvSplit
<1>2. /\ pc = "failing" /\ pc' = "report" /\ error' = kind /\ eval' = 0 /\ left' = 0
      /\ UNCHANGED <<ids, processes, faults, plan, run, fetched, outcome, kind, reports, printed>>
  BY DEF FailEvaluation, Goto
<1>3. Database' /\ Extends(db, db') /\ conn' = conn
  <2>1. CASE UNCHANGED dbVars
    BY <1>1, <1>2, <2>1, UnchangedKeeps DEF dbVars
  <2>2. CASE /\ eval \in DOMAIN tx.evals /\ tx.evals[eval].status = "RUNNING"
             /\ Save([tx EXCEPT !.evals[eval].status = "FAILED"])
    <3> DEFINE new == [tx.evals[eval] EXCEPT !.status = "FAILED"]
    <3>1. /\ ids \in Nat /\ Whole(tx)
          /\ tx.evals[eval] \in
               [kind : {"quality", "drift"}, run : 1..ids, status : EvalStatus, results : BOOLEAN]
      BY <1>1, <2>2 DEF Database, Lawful, Typed, Locals
    <3>2. tx.evals[eval].results = FALSE
      <4>1. ~tx.evals[eval].results
        BY <2>2, <3>1 DEF Whole
      <4>2. tx.evals[eval].results \in BOOLEAN
        BY <3>1
      <4> QED
        BY <4>1, <4>2
    <3>3. PICK t : Save(t) /\ t = [tx EXCEPT !.evals = [tx.evals EXCEPT ![eval] = new]]
      BY <2>2
    <3>4. /\ new \in [kind : {"quality", "drift"}, run : 1..ids, status : EvalStatus, results : BOOLEAN]
          /\ new.kind = tx.evals[eval].kind /\ new.run = tx.evals[eval].run
          /\ new.status = "FAILED" /\ ~new.results
      BY <3>1, <3>2 DEF EvalStatus
    <3> HIDE DEF new
    <3>5. Lawful(t, ids') /\ Extends(tx, t)
      BY <1>1, <1>2, <2>2, <3>1, <3>3, <3>4, EvaluationUpdated DEF Database
    <3> QED
      BY <1>1, <1>2, <3>1, <3>3, <3>5, SaveKeeps
  <2> QED
    BY <2>1, <2>2 DEF FailEvaluation, SaveFails
<1>4. Locals'
  BY <1>1, <1>2, <1>3, BoundAssumption DEF Locals, Ids, Report
<1>5. RunKnown' /\ EvaluationKnown'
  BY <1>1, <1>2 DEF RunKnown, EvaluationKnown, Ingesting, Evaluating, Ended, Ids
<1>6. FirstSource'
  BY <1>1, <1>2, <1>3, DurableKept DEF FirstSource, Ingesting, Evaluating, Ended, RunKnown
<1> QED
  BY <1>3, <1>4, <1>5, <1>6, InvNow

\* The outcome of a process's first source is durable by the time it is kept.
LEMMA NextSourceKeeps ==
  ASSUME IInv, NextSource
  PROVE  IInv' /\ Extends(db, db')
<1> DEFINE p == [run |-> run, status |-> outcome, error |-> error, first |-> reports = {}]
<1>1. Locals /\ Database /\ RunKnown /\ EvaluationKnown /\ FirstSource
  BY InvSplit
<1>2. /\ pc = "report" /\ pc' \in {"exit", "ensure"} /\ plan' = Tail(plan)
      /\ pc' = "ensure" => Len(plan) # 1
      /\ reports' = reports \cup {p} /\ ResetSource
      /\ UNCHANGED <<dbVars, ids, processes, faults, printed>>
  BY DEF NextSource, Goto
<1>3. run \in Ids /\ outcome \in Terminal /\ error \in {"none", "quality", "drift"}
  BY <1>1, <1>2 DEF Locals, RunKnown, Ended
<1>4. p \in Report /\ p.run = run /\ p.status = outcome /\ (p.first => reports = {})
  BY <1>3 DEF Report
<1>5. reports = {} => Durable(p)
  BY <1>1, <1>2, <1>4 DEF FirstSource, Ended, Durable
<1> HIDE DEF p
<1>6. Database' /\ Extends(db, db')
  BY <1>1, <1>2, UnchangedKeeps DEF dbVars
<1>7. plan \in Seq(Sources) /\ plan # <<>>
  BY <1>1, <1>2 DEF Locals, RunKnown
<1>8. Tail(plan) \in Seq(Sources) /\ (Len(plan) # 1 => Tail(plan) # <<>>)
  <2> DEFINE rest == Tail(plan)
             length == Len(plan)
  <2>1. rest \in Seq(Sources) /\ Len(rest) = length - 1
    BY <1>7, HeadTailProperties
  <2>2. length \in Nat
    BY <1>7
  <2> HIDE DEF rest, length
  <2>3. rest = <<>> <=> Len(rest) = 0
    BY <2>1, EmptySeq
  <2>4. length # 1 => rest # <<>>
    BY <2>1, <2>2, <2>3
  <2> QED
    BY <2>1, <2>4 DEF rest, length
<1>9. Locals'
  <2>1. reports' \subseteq Report'
    BY <1>1, <1>2, <1>4 DEF Locals, Report, Ids
  <2>2. fetched' \in [records : SUBSET Records, rejected : BOOLEAN, written : 0..Cardinality(Records)]
    BY <1>2, RecordAssumption, FS_CardinalityType DEF ResetSource, Nothing
  <2> QED
    BY <1>1, <1>2, <1>8, <2>1, <2>2, BoundAssumption
       DEF Locals, ResetSource, RunStatus, dbVars, Ids, Report
<1>10. RunKnown' /\ EvaluationKnown'
  BY <1>2, <1>8 DEF RunKnown, EvaluationKnown, Ingesting, Evaluating, Ended
<1>11. FirstSource'
  <2>1. ASSUME NEW q \in reports' \cup printed', q.first PROVE Durable(q)'
    <3>1. CASE q \in reports \cup printed
      BY <1>1, <1>6, <2>1, <3>1, DurableKept
    <3>2. CASE q = p
      BY <1>2, <1>4, <1>5, <2>1, <3>2 DEF Durable, dbVars
    <3> QED
      BY <1>2, <2>1, <3>1, <3>2
  <2>2. reports' # {}
    BY <1>2
  <2> QED
    BY <1>2, <2>1, <2>2 DEF FirstSource, Ingesting, Ended, Evaluating
<1> QED
  BY <1>6, <1>9, <1>10, <1>11, InvNow

\* What a process leaves behind when it is over: no transaction, and none of its variables.
LEMMA OverKeeps ==
  ASSUME IInv, Database', Extends(db, db'), conn' = "idle", pc' = "none", ResetSource,
         reports' = {}, printed' \in {printed, printed \cup reports}, plan' \in Seq(Sources),
         UNCHANGED <<ids, processes>>, faults' = faults \/ Fault
  PROVE  IInv'
<1>1. Locals /\ FirstSource
  BY InvSplit
<1>2. fetched' \in [records : SUBSET Records, rejected : BOOLEAN, written : 0..Cardinality(Records)]
  BY RecordAssumption, FS_CardinalityType DEF ResetSource, Nothing
<1>3. Locals'
  BY <1>1, <1>2, BoundAssumption DEF Locals, ResetSource, RunStatus, Ids, Report, Fault
<1>4. RunKnown' /\ EvaluationKnown'
  BY DEF RunKnown, EvaluationKnown, Ingesting, Evaluating, Ended
<1>5. FirstSource'
  BY <1>1, DurableKept DEF FirstSource, Ingesting, Evaluating, Ended
<1> QED
  BY <1>3, <1>4, <1>5, InvNow

\* COMMIT: what the process reads becomes what is durable.
LEMMA ExitKeeps ==
  ASSUME IInv, Exit
  PROVE  IInv' /\ Extends(db, db')
<1>1. Locals /\ Database
  BY InvSplit
<1>2. /\ db' \in {db, tx} /\ tx' = db' /\ conn' = "idle" /\ pc' = "none" /\ ResetSource
      /\ printed' = printed \cup reports /\ reports' = {}
      /\ UNCHANGED <<ids, processes, faults, plan>>
  BY DEF Exit, Goto
<1>3. Lawful(db', ids') /\ Extends(db, db')
  BY <1>1, <1>2, ExtendsReflexive DEF Database
<1>4. Database'
  BY <1>2, <1>3, DatabaseNow, ExtendsReflexive
<1>5. plan' \in Seq(Sources)
  BY <1>1, <1>2 DEF Locals
<1> QED
  BY <1>2, <1>3, <1>4, <1>5, OverKeeps

LEMMA RaiseOrDieKeeps ==
  ASSUME IInv, Raise \/ Die
  PROVE  IInv' /\ Extends(db, db')
<1>1. Database
  BY InvSplit
<1>2. /\ Rollback /\ plan' = <<>> /\ reports' = {} /\ pc' = "none" /\ ResetSource
      /\ UNCHANGED <<ids, processes, printed>> /\ (faults' = faults \/ Fault)
  BY DEF Raise, Die, Goto
<1>3. Database' /\ Extends(db, db') /\ conn' = "idle"
  BY <1>1, <1>2, RollbackKeeps DEF Rollback
<1>4. plan' \in Seq(Sources)
  BY <1>2
<1> QED
  BY <1>2, <1>3, <1>4, OverKeeps

-------------------------------------------------------------------------------
(***************************************************************************)
(* The specification.                                                      *)
(***************************************************************************)
LEMMA InitIInv == Init => IInv
<1> SUFFICES ASSUME Init PROVE IInv
  OBVIOUS
<1> DEFINE none == NoTables
<1>1. /\ none.datasets = {} /\ none.runs = Empty /\ none.rows = {} /\ none.evals = Empty
      /\ none.cited = {} /\ DOMAIN Empty = {} /\ Empty = [x \in DOMAIN Empty |-> Empty[x]]
  BY DEF NoTables, Empty
<1>2. Shaped(none)
  BY <1>1 DEF Shaped, NoTables
<1> HIDE DEF none
<1>3. Lawful(none, 0) /\ Extends(none, none)
  BY <1>1, <1>2, ExtendsReflexive
     DEF Lawful, Typed, Unique, Counted, Followed, Whole
<1>4. Database
  BY <1>3 DEF Init, Database, none
<1>5. Nothing \in [records : SUBSET Records, rejected : BOOLEAN, written : 0..Cardinality(Records)]
  BY RecordAssumption, FS_CardinalityType DEF Nothing
<1>6. Locals
  BY <1>5, BoundAssumption DEF Init, Locals, RunStatus
<1>7. RunKnown /\ EvaluationKnown /\ FirstSource
  BY DEF Init, RunKnown, EvaluationKnown, FirstSource, Ingesting, Evaluating, Ended
<1> QED
  BY <1>4, <1>6, <1>7, InvSplit

\* The inductive step, and what every step keeps of the committed tables.
LEMMA NextIInv ==
  ASSUME IInv, [Next]_vars
  PROVE  IInv' /\ Extends(db, db')
<1>1. CASE UNCHANGED vars
  <2>1. Database' /\ Extends(db, db')
    BY <1>1, InvSplit, UnchangedKeeps DEF vars
  <2>2. Locals' /\ RunKnown' /\ EvaluationKnown' /\ FirstSource'
    BY <1>1, InvSplit
       DEF vars, Locals, RunKnown, EvaluationKnown, FirstSource, Ids, Report, RowsOf, Durable
  <2> QED
    BY <2>1, <2>2, InvNow
<1>2. CASE \E p \in Plans : Start(p)
  BY <1>2, StartKeeps
<1>3. CASE Raise \/ Die
  BY <1>3, RaiseOrDieKeeps
<1>4. CASE EnsureDataset \/ CreateRun \/ \E records \in SUBSET Records, rejected \in BOOLEAN : Fetch(records, rejected)
  BY <1>4, EnsureDatasetKeeps, CreateRunKeeps, FetchKeeps
<1>5. CASE FetchFails \/ Upsert \/ StoreFails \/ Finish \/ FinishFailed
  BY <1>5, IngestionFailsKeeps, UpsertKeeps, FinishKeeps
<1>6. CASE BeginEvaluation \/ BeginFails \/ (\E alarms \in 0..MaxAlarms : CompleteEvaluation(alarms))
           \/ CompleteFails
  BY <1>6, BeginEvaluationKeeps, BeginFailsKeeps, CompleteEvaluationKeeps, EvaluationFailsKeeps
<1>7. CASE RecordIncident \/ ReconcileFails \/ AnalysisSucceeds \/ AnalysisFails
  BY <1>7, RecordIncidentKeeps, EvaluationFailsKeeps, AnalysisSucceedsKeeps, AnalysisFailsKeeps
<1>8. CASE EvaluationReturns \/ FailEvaluation \/ NextSource \/ Exit
  BY <1>8, EvaluationReturnsKeeps, FailEvaluationKeeps, NextSourceKeeps, ExitKeeps
<1> QED
  BY <1>1, <1>2, <1>3, <1>4, <1>5, <1>6, <1>7, <1>8 DEF Next, Step

\* The invariant holds in every reachable state.
THEOREM Invariant == Spec => []IInv
<1>1. IInv /\ [Next]_vars => IInv'
  BY NextIInv
<1> QED
  BY InitIInv, <1>1, PTL DEF Spec

\* The tables, the connection and the process stay within their types.
THEOREM TypeCorrect == Spec => []TypeOK
<1>1. IInv => TypeOK
  BY DEF IInv
<1> QED
  BY Invariant, <1>1, PTL

\* An observation is stored once, however often its source is fetched and wherever
\* processes end (INSERT ... ON CONFLICT DO NOTHING of upsert_observations).
THEOREM StoredOnceHolds == Spec => []StoredOnce
<1>1. IInv => StoredOnce
  BY DEF IInv, Database, Lawful, Unique, StoredOnce
<1> QED
  BY Invariant, <1>1, PTL

\* The counts finish_ingestion_run stores are the observations that cite the run.
THEOREM CountsMatchRowsHolds == Spec => []CountsMatchRows
<1>1. IInv => CountsMatchRows
  BY DEF IInv, Database, Lawful, Counted, RowsOf, CountsMatchRows
<1> QED
  BY Invariant, <1>1, PTL

\* run_source evaluates the quality of a source only after its run ended well.
THEOREM EvaluationFollowsRunHolds == Spec => []EvaluationFollowsRun
<1>1. IInv => EvaluationFollowsRun
  BY DEF IInv, Database, Lawful, Followed, EvaluationFollowsRun
<1> QED
  BY Invariant, <1>1, PTL

\* An evaluation is committed with its results or without success, and what incidents cite
\* is committed with them.
THEOREM EvaluationsAreWholeHolds == Spec => []EvaluationsAreWhole
<1>1. IInv => EvaluationsAreWhole
  BY DEF IInv, Database, Lawful, Whole, EvaluationsAreWhole
<1> QED
  BY Invariant, <1>1, PTL

\* What a process prints of its first source is what the database says.
THEOREM FirstReportIsTrueHolds == Spec => []FirstReportIsTrue
<1>1. IInv => FirstReportIsTrue
  BY DEF IInv, FirstSource, Durable, FirstReportIsTrue
<1> QED
  BY Invariant, <1>1, PTL

\* No step of any process takes back what is committed: a rollback discards only what the
\* process itself has not committed.
THEOREM CommittedIsKeptHolds == Spec => CommittedIsKept
<1> DEFINE Kept == /\ db.rows \subseteq db'.rows
                   /\ \A r \in DOMAIN db.runs :
                        /\ r \in DOMAIN db'.runs
                        /\ db.runs[r].status # "RUNNING" => db'.runs[r] = db.runs[r]
<1>1. IInv /\ [Next]_vars => [Kept]_vars
  BY NextIInv DEF Extends
<1> HIDE DEF Kept
<1>2. Spec => [][Kept]_vars
  BY Invariant, <1>1, PTL DEF Spec
<1> QED
  BY <1>2 DEF CommittedIsKept, Kept
===============================================================================
