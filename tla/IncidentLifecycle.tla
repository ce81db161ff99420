--------------------------- MODULE IncidentLifecycle ---------------------------
(***************************************************************************)
(* Reconciliation of quality and drift evidence into incidents             *)
(* (incidents/engine.py, incidents/repository.py, db/migrations/003-004),  *)
(* by several CLI processes over one PostgreSQL database.                  *)
(*                                                                         *)
(* A process opens one connection.  Its first bare SELECT starts an        *)
(* implicit transaction, so every `with connection.transaction()' that     *)
(* follows is a savepoint, and what the process wrote becomes visible only *)
(* when `with psycopg.connect(...)' exits.  Hence two copies of each key's *)
(* incidents: the committed one and the one its current writer sees.       *)
(*                                                                         *)
(* A key is a (dataset_id, rule_id) pair; its incidents are listed in the  *)
(* order they were inserted.  An evaluation run is identified with its     *)
(* evaluated_at, a tick of `clock'.                                        *)
(***************************************************************************)
EXTENDS Naturals, Sequences, FiniteSets

CONSTANTS
  Keys,             \* (dataset, rule) pairs
  DriftKeys,        \* the keys of rules with dimension 'drift'
  Workers,          \* processes that reconcile: ingest, quality evaluate, drift evaluate
  NoWorker,         \* nobody holds the key's row
  StageOf,          \* key -> position of its evaluation (dataset 1 quality, dataset 1 drift, ...)
  Rank,             \* key -> position of its result in the order all processes follow
  Lineages,         \* downstream blast radii a lineage seed can produce
  MaxEvaluations    \* bound on the number of evaluation runs

ASSUME KeyAssumption ==
  /\ Keys # {}
  /\ DriftKeys \subseteq Keys
  /\ StageOf \in [Keys -> Nat \ {0}]
  /\ Rank \in [Keys -> Nat]
  /\ \A j, k \in Keys : Rank[j] = Rank[k] => j = k
  /\ \A j, k \in Keys : StageOf[j] < StageOf[k] => Rank[j] < Rank[k]
ASSUME WorkerAssumption == NoWorker \notin Workers
ASSUME BoundAssumption == MaxEvaluations \in Nat

VARIABLES
  committed,    \* key -> its incidents, as every other connection reads them
  working,      \* key -> its incidents, as the transaction that wrote them last reads them
  owner,        \* key -> the worker whose open transaction holds the key's active row
  ruleOwner,    \* key -> the worker whose open transaction updated the key's drift rule
  stored,       \* evaluation runs that are committed
  lineage,      \* the blast radius a traversal returns now
  clock,        \* evaluated_at of the newest evaluation
  pc, stage, at, todo, key, cand, verdict,   \* a worker's program state
  written,      \* worker -> evaluation runs of its open transaction
  lost          \* worker -> its current evaluation run was rolled back under it

dbVars == <<committed, working, owner, ruleOwner, stored>>
workerVars == <<pc, stage, at, todo, key, cand, verdict, written, lost>>
vars == <<committed, working, owner, ruleOwner, stored, lineage, clock,
          pc, stage, at, todo, key, cand, verdict, written, lost>>

-------------------------------------------------------------------------------
Active == {"OPEN", "ACKNOWLEDGED"}
IncidentStatus == Active \cup {"RESOLVED"}
IncidentKind == {"DATA_QUALITY", "EVALUATION_ERROR", "DATA_DRIFT"}
IncidentEventType == {"OPENED", "OBSERVED_AGAIN", "ACKNOWLEDGED", "RESOLVED"}

\* A row of incident_events; from = "NONE" is SQL's NULL, at = 0 an operator's event.
Event == [type : IncidentEventType, from : IncidentStatus \cup {"NONE"},
          to : IncidentStatus, at : Nat]

\* A row of incidents with its events and its incident_impacts; resolvedAt = 0 is NULL.
Incident == [kind : IncidentKind, status : IncidentStatus, occurrences : Nat,
             openedAt : Nat, lastSeenAt : Nat, resolvedAt : Nat,
             impacts : Lineages, events : Seq(Event)]

\* What a result can say: quality results for ordinary keys, drift results for drift keys.
Verdicts(k) ==
  IF k \in DriftKeys THEN {"STABLE", "WARN", "DRIFT", "ERROR", "SKIPPED"}
                     ELSE {"PASS", "WARN", "FAIL", "ERROR", "SKIPPED"}
AllVerdicts == {"STABLE", "DRIFT", "PASS", "WARN", "FAIL", "ERROR", "SKIPPED"}

\* A drift ERROR opens nothing; a quality ERROR does.
Alarms(k, v) == v \in (IF k \in DriftKeys THEN {"DRIFT"} ELSE {"FAIL", "ERROR"})
Recovers(k, v) == v \in (IF k \in DriftKeys THEN {"STABLE"} ELSE {"PASS"})

\* Wrong on purpose: the status itself is stored as the incident's kind.
KindOfVerbatim(v) == v

KindOf(v) == CASE v = "DRIFT" -> "DATA_DRIFT"
               [] v = "ERROR" -> "EVALUATION_ERROR"
               [] OTHER       -> "DATA_QUALITY"

\* A worker that has no result in hand names this key; it stands for nothing.
AnyKey == CHOOSE k \in Keys : TRUE

\* The positions in a key's history of the rows under incidents_active_dataset_rule_idx.
ActiveRows(h) == {i \in DOMAIN h : h[i].status \in Active}

\* A transaction reads its own writes over the committed rows.
View(w, k) == IF owner[k] = w THEN working[k] ELSE committed[k]

\* No other transaction holds the key: the statement does not wait.
Free(w, k) == owner[k] \in {NoWorker, w}

\* Wrong on purpose: ensure_drift_rule leaves an existing rule alone (DO NOTHING).
RuleNeverLocked(w, k) == TRUE

\* ensure_drift_rule updates the drift rule's row: it waits for a transaction that did.
RuleFree(w, k) == k \in DriftKeys => ruleOwner[k] \in {NoWorker, w}

\* Wrong on purpose: without ORDER BY two processes may see the results differently.
IsNextUnordered(w, k) ==
  \A j \in todo[w] : IF at[w] % 2 = 0 THEN Rank[k] <= Rank[j] ELSE Rank[j] <= Rank[k]

\* Results are fetched ORDER BY their id: the order the rules were evaluated in.
IsNext(w, k) == \A j \in todo[w] : Rank[k] <= Rank[j]

-------------------------------------------------------------------------------
TypeOK ==
  /\ committed \in [Keys -> Seq(Incident)]
  /\ working \in [Keys -> Seq(Incident)]
  /\ owner \in [Keys -> Workers \cup {NoWorker}]
  /\ ruleOwner \in [Keys -> Workers \cup {NoWorker}]
  /\ clock \in Nat
  /\ stored \subseteq 1..clock
  /\ lineage \in Lineages
  /\ pc \in [Workers -> {"idle", "between", "next", "insert", "observe", "observeWait",
                         "rca", "resolve", "resolveWait", "failed"}]
  /\ stage \in [Workers -> Nat]
  /\ at \in [Workers -> 0..clock]
  /\ todo \in [Workers -> SUBSET Keys]
  /\ key \in [Workers -> Keys]
  /\ cand \in [Workers -> Nat]
  /\ verdict \in [Workers -> AllVerdicts]
  /\ written \in [Workers -> SUBSET (1..clock)]
  /\ lost \in [Workers -> BOOLEAN]

Init ==
  /\ committed = [k \in Keys |-> <<>>]
  /\ working = [k \in Keys |-> <<>>]
  /\ owner = [k \in Keys |-> NoWorker]
  /\ ruleOwner = [k \in Keys |-> NoWorker]
  /\ stored = {}
  /\ lineage \in Lineages
  /\ clock = 0
  /\ pc = [w \in Workers |-> "idle"]
  /\ stage = [w \in Workers |-> 0]
  /\ at = [w \in Workers |-> 0]
  /\ todo = [w \in Workers |-> {}]
  /\ key = [w \in Workers |-> AnyKey]
  /\ cand = [w \in Workers |-> 0]
  /\ verdict = [w \in Workers |-> "SKIPPED"]
  /\ written = [w \in Workers |-> {}]
  /\ lost = [w \in Workers |-> FALSE]

-------------------------------------------------------------------------------
(***************************************************************************)
(* Rows.                                                                   *)
(***************************************************************************)
Opened(w, k) ==
  [kind |-> KindOf(verdict[w]), status |-> "OPEN", occurrences |-> 1,
   openedAt |-> at[w], lastSeenAt |-> at[w], resolvedAt |-> 0, impacts |-> lineage,
   events |-> <<[type |-> "OPENED", from |-> "NONE", to |-> "OPEN", at |-> at[w]]>>]

\* Wrong on purpose: a repeated observation captures the impact again.
ObservedWithImpact(w, k, row) ==
  [row EXCEPT !.lastSeenAt = at[w], !.occurrences = @ + 1, !.impacts = lineage,
              !.events = Append(@, [type |-> "OBSERVED_AGAIN", from |-> row.status,
                                    to |-> row.status, at |-> at[w]])]

\* A drift observation also rewrites the kind; a quality observation leaves it alone.
Observed(w, k, row) ==
  [row EXCEPT !.kind = IF k \in DriftKeys THEN "DATA_DRIFT" ELSE @,
              !.lastSeenAt = at[w],
              !.occurrences = @ + 1,
              !.events = Append(@, [type |-> "OBSERVED_AGAIN", from |-> row.status,
                                    to |-> row.status, at |-> at[w]])]

\* Wrong on purpose: resolved_at is copied from last_seen_at.
ResolvedWhenSeen(w, row) ==
  [row EXCEPT !.status = "RESOLVED", !.resolvedAt = row.lastSeenAt,
              !.events = Append(@, [type |-> "RESOLVED", from |-> row.status,
                                    to |-> "RESOLVED", at |-> at[w]])]

Resolved(w, row) ==
  [row EXCEPT !.status = "RESOLVED", !.resolvedAt = at[w],
              !.events = Append(@, [type |-> "RESOLVED", from |-> row.status,
                                    to |-> "RESOLVED", at |-> at[w]])]

Acknowledged(row) ==
  [row EXCEPT !.status = "ACKNOWLEDGED",
              !.events = Append(@, [type |-> "ACKNOWLEDGED", from |-> "OPEN",
                                    to |-> "ACKNOWLEDGED", at |-> 0])]

\* Wrong on purpose: the index forgets acknowledged incidents.
ConflictOnOpen(h) == \E i \in DOMAIN h : h[i].status = "OPEN"

\* ON CONFLICT ... DO NOTHING: the partial unique index has an entry for the key.
Conflict(h) == ActiveRows(h) # {}

(***************************************************************************)
(* Transactions.                                                           *)
(***************************************************************************)
\* Worker w's transaction writes history h of key k, and so holds the key.
Write(w, k, h) ==
  /\ working' = [working EXCEPT ![k] = h]
  /\ owner' = [owner EXCEPT ![k] = w]

\* ROLLBACK: the keys w held read again as they were committed.
Discard(w) ==
  /\ working' = [k \in Keys |-> IF owner[k] = w THEN committed[k] ELSE working[k]]
  /\ owner' = [k \in Keys |-> IF owner[k] = w THEN NoWorker ELSE owner[k]]
  /\ ruleOwner' = [k \in Keys |-> IF ruleOwner[k] = w THEN NoWorker ELSE ruleOwner[k]]
  /\ written' = [written EXCEPT ![w] = {}]

\* The process ends, and its local state with it.
Exit(w) ==
  /\ pc' = [pc EXCEPT ![w] = "idle"]
  /\ stage' = [stage EXCEPT ![w] = 0]
  /\ at' = [at EXCEPT ![w] = 0]
  /\ todo' = [todo EXCEPT ![w] = {}]
  /\ key' = [key EXCEPT ![w] = AnyKey]
  /\ cand' = [cand EXCEPT ![w] = 0]
  /\ verdict' = [verdict EXCEPT ![w] = "SKIPPED"]
  /\ lost' = [lost EXCEPT ![w] = FALSE]

Goto(w, label) == pc' = [pc EXCEPT ![w] = label]

-------------------------------------------------------------------------------
(***************************************************************************)
(* Steps of a worker.                                                      *)
(***************************************************************************)
\* Wrong on purpose: a process evaluates a dataset twice in its transaction.
BeginStageAgain(w, s) ==
  /\ pc[w] \in {"idle", "between"}
  /\ stage[w] <= s
  /\ clock < MaxEvaluations
  /\ clock' = clock + 1
  /\ stage' = [stage EXCEPT ![w] = s]
  /\ at' = [at EXCEPT ![w] = clock + 1]
  /\ todo' = [todo EXCEPT ![w] = {k \in Keys : StageOf[k] = s}]
  /\ written' = [written EXCEPT ![w] = @ \cup {clock + 1}]
  /\ lost' = [lost EXCEPT ![w] = FALSE]
  /\ Goto(w, "next")
  /\ UNCHANGED <<dbVars, lineage, key, cand, verdict>>

\* evaluate_dataset up to complete_*_evaluation: a new run and its results are
\* inserted in the worker's transaction; all of them carry one evaluated_at.
BeginStage(w, s) ==
  /\ pc[w] \in {"idle", "between"}
  /\ stage[w] < s
  /\ clock < MaxEvaluations
  /\ clock' = clock + 1
  /\ stage' = [stage EXCEPT ![w] = s]
  /\ at' = [at EXCEPT ![w] = clock + 1]
  /\ todo' = [todo EXCEPT ![w] = {k \in Keys : StageOf[k] = s}]
  /\ written' = [written EXCEPT ![w] = @ \cup {clock + 1}]
  /\ lost' = [lost EXCEPT ![w] = FALSE]
  /\ Goto(w, "next")
  /\ UNCHANGED <<dbVars, lineage, key, cand, verdict>>

\* The reconcile loop takes its next result.  ensure_drift_rule comes first for a
\* drift result: it updates the rule's row, so it waits for another transaction
\* that did.  After a rollback the connection is idle and the update commits at once.
\* WARN and SKIPPED (and a drift ERROR) change nothing.
TakeResult(w) ==
  /\ pc[w] = "next"
  /\ \E k \in todo[w] :
     /\ IsNext(w, k)
     /\ RuleFree(w, k)
     /\ ruleOwner' = IF k \in DriftKeys /\ ~lost[w]
                     THEN [ruleOwner EXCEPT ![k] = w] ELSE ruleOwner
     /\ key' = [key EXCEPT ![w] = k]
     /\ todo' = [todo EXCEPT ![w] = @ \ {k}]
     /\ \E v \in Verdicts(k) :
          /\ verdict' = [verdict EXCEPT ![w] = v]
          /\ Goto(w, IF Alarms(k, v) THEN "insert"
                     ELSE IF Recovers(k, v) THEN "resolve" ELSE "next")
  /\ cand' = [cand EXCEPT ![w] = 0]
  /\ UNCHANGED <<committed, working, owner, stored, lineage, clock, stage, at, written, lost>>

\* INSERT INTO incidents ... ON CONFLICT DO NOTHING RETURNING id.  It waits for a
\* transaction that has written the key's active row.  After the run was rolled
\* back the new row's foreign key has no target and the statement fails.
Insert(w) ==
  LET k == key[w] h == View(w, k) IN
  /\ pc[w] = "insert" /\ Free(w, k)
  /\ \/ /\ Conflict(h)
        /\ Goto(w, "observe")
        /\ UNCHANGED <<working, owner>>
     \/ /\ ~Conflict(h) /\ ~lost[w]
        /\ Write(w, k, Append(h, Opened(w, k)))
        /\ Goto(w, "rca")
     \/ /\ ~Conflict(h) /\ lost[w]
        /\ Goto(w, "failed")
        /\ UNCHANGED <<working, owner>>
  /\ UNCHANGED <<committed, ruleOwner, stored, lineage, clock,
                 stage, at, todo, key, cand, verdict, written, lost>>

\* _active_for_update, first half: the statement's snapshot picks the active row.
\* None ends a resolution quietly and an observation with RuntimeError
\* ("active incident disappeared after conflict").
SelectActive(w) ==
  LET h == View(w, key[w]) IN
  /\ pc[w] \in {"observe", "resolve"}
  /\ \/ \E i \in ActiveRows(h) :
          /\ cand' = [cand EXCEPT ![w] = i]
          /\ Goto(w, IF pc[w] = "observe" THEN "observeWait" ELSE "resolveWait")
     \/ /\ ActiveRows(h) = {}
        /\ Goto(w, IF pc[w] = "observe" THEN "failed" ELSE "next")
        /\ UNCHANGED cand
  /\ UNCHANGED <<dbVars, lineage, clock, stage, at, todo, key, verdict, written, lost>>

\* _active_for_update, second half, and the UPDATE under the lock: FOR UPDATE waits
\* for the row's holder and then reads the row again; a row no longer active
\* is no row.
Observe(w) ==
  LET k == key[w] h == View(w, k) i == cand[w] IN
  /\ pc[w] = "observeWait" /\ Free(w, k)
  /\ \/ /\ i \in ActiveRows(h) /\ ~lost[w]
        /\ Write(w, k, [h EXCEPT ![i] = Observed(w, k, h[i])])
        /\ Goto(w, "rca")
     \/ /\ i \notin ActiveRows(h) \/ lost[w]
        /\ Goto(w, "failed")
        /\ UNCHANGED <<working, owner>>
  /\ UNCHANGED <<committed, ruleOwner, stored, lineage, clock,
                 stage, at, todo, key, cand, verdict, written, lost>>

Resolve(w) ==
  LET k == key[w] h == View(w, k) i == cand[w] IN
  /\ pc[w] = "resolveWait" /\ Free(w, k)
  /\ \/ /\ i \in ActiveRows(h) /\ ~lost[w]
        /\ Write(w, k, [h EXCEPT ![i] = Resolved(w, h[i])])
        /\ Goto(w, "next")
     \/ /\ i \in ActiveRows(h) /\ lost[w]
        /\ Goto(w, "failed")
        /\ UNCHANGED <<working, owner>>
     \/ /\ i \notin ActiveRows(h)
        /\ Goto(w, "next")
        /\ UNCHANGED <<working, owner>>
  /\ UNCHANGED <<committed, ruleOwner, stored, lineage, clock,
                 stage, at, todo, key, cand, verdict, written, lost>>

\* analyze_incident returns: the incident has its analysis, the loop goes on.
AnalyzeSucceeds(w) ==
  /\ pc[w] = "rca"
  /\ Goto(w, "next")
  /\ UNCHANGED <<dbVars, lineage, clock, stage, at, todo, key, cand, verdict, written, lost>>

\* Wrong on purpose: incidents refer to their evaluation run without a foreign key.
AnalyzeFailsUnreferenced(w) ==
  /\ pc[w] = "rca"
  /\ Discard(w)
  /\ Goto(w, "next")
  /\ UNCHANGED <<committed, stored, lineage, clock, stage, at, todo, key, cand, verdict, lost>>

\* analyze_incident raises: connection.rollback() discards the whole transaction,
\* the evaluation run and its results included, and the loop goes on.
AnalyzeFails(w) ==
  /\ pc[w] = "rca"
  /\ Discard(w)
  /\ lost' = [lost EXCEPT ![w] = TRUE]
  /\ Goto(w, "next")
  /\ UNCHANGED <<committed, stored, lineage, clock, stage, at, todo, key, cand, verdict>>

\* The loop is over.
EndStage(w) ==
  /\ pc[w] = "next" /\ todo[w] = {}
  /\ Goto(w, "between")
  /\ UNCHANGED <<dbVars, lineage, clock, stage, at, todo, key, cand, verdict, written, lost>>

\* run_source catches the exception of an evaluation: what the evaluation wrote
\* before it stays in the transaction, its other results are never reconciled.
SkipStage(w) ==
  /\ pc[w] = "failed"
  /\ Goto(w, "between")
  /\ todo' = [todo EXCEPT ![w] = {}]
  /\ UNCHANGED <<dbVars, lineage, clock, stage, at, key, cand, verdict, written, lost>>

\* `with psycopg.connect(...)' exits normally.
Commit(w) ==
  /\ pc[w] = "between"
  /\ committed' = [k \in Keys |-> IF owner[k] = w THEN working[k] ELSE committed[k]]
  /\ stored' = stored \cup written[w]
  /\ owner' = [k \in Keys |-> IF owner[k] = w THEN NoWorker ELSE owner[k]]
  /\ ruleOwner' = [k \in Keys |-> IF ruleOwner[k] = w THEN NoWorker ELSE ruleOwner[k]]
  /\ written' = [written EXCEPT ![w] = {}]
  /\ Exit(w)
  /\ UNCHANGED <<working, lineage, clock>>

\* The process dies, or an exception leaves `with psycopg.connect(...)'.
Abort(w) ==
  /\ pc[w] # "idle"
  /\ Discard(w)
  /\ Exit(w)
  /\ UNCHANGED <<committed, stored, lineage, clock>>

(***************************************************************************)
(* Other actors: each is a process with one short transaction.             *)
(***************************************************************************)
\* Wrong on purpose: the UPDATE does not look at the status.
AcknowledgeAny(k, i) ==
  /\ owner[k] = NoWorker
  /\ i \in DOMAIN committed[k]
  /\ committed' = [committed EXCEPT ![k][i] = Acknowledged(@)]
  /\ working' = [working EXCEPT ![k][i] = Acknowledged(@)]
  /\ UNCHANGED <<owner, ruleOwner, stored, lineage, clock, workerVars>>

\* UPDATE ... WHERE id = i AND status = 'OPEN' waits for the row's holder.
Acknowledge(k, i) ==
  /\ owner[k] = NoWorker
  /\ i \in DOMAIN committed[k] /\ committed[k][i].status = "OPEN"
  /\ committed' = [committed EXCEPT ![k][i] = Acknowledged(@)]
  /\ working' = [working EXCEPT ![k][i] = Acknowledged(@)]
  /\ UNCHANGED <<owner, ruleOwner, stored, lineage, clock, workerVars>>

SeedLineage(g) ==
  /\ g # lineage
  /\ lineage' = g
  /\ UNCHANGED <<dbVars, clock, workerVars>>

-------------------------------------------------------------------------------
WorkerStep(w) ==
  \/ \E s \in {StageOf[k] : k \in Keys} : BeginStage(w, s)
  \/ TakeResult(w)
  \/ Insert(w)
  \/ SelectActive(w)
  \/ Observe(w)
  \/ Resolve(w)
  \/ AnalyzeSucceeds(w)
  \/ AnalyzeFails(w)
  \/ EndStage(w)
  \/ SkipStage(w)
  \/ Commit(w)

Next ==
  \/ \E w \in Workers : WorkerStep(w) \/ Abort(w)
  \/ \E k \in Keys : \E i \in DOMAIN committed[k] : Acknowledge(k, i)
  \/ \E g \in Lineages : SeedLineage(g)

Spec == Init /\ [][Next]_vars

\* A started process keeps running: only operators and crashes are free not to come.
FairSpec == Spec /\ \A w \in Workers : WF_vars(pc[w] # "idle" /\ WorkerStep(w))

-------------------------------------------------------------------------------
(***************************************************************************)
(* Properties.                                                             *)
(***************************************************************************)
\* ADR 0006: a reader never finds two active incidents of one (dataset, rule),
\* whichever processes raced to open, observe and resolve them.
OneActive == \A k \in Keys : \A i, j \in ActiveRows(committed[k]) : i = j

EvidenceEvents(row) == {i \in DOMAIN row.events : row.events[i].type \in {"OPENED", "OBSERVED_AGAIN"}}

\* The event log replays to the row: it starts with OPENED, every event leaves the
\* status the next one starts from, nothing follows RESOLVED, the last event left
\* the row's status, and occurrence_count counts the evidence events.
Replays(row) ==
  /\ row.events # <<>>
  /\ row.events[1].from = "NONE" /\ row.events[1].type = "OPENED"
  /\ \A i \in 1..(Len(row.events) - 1) :
        row.events[i + 1].from = row.events[i].to /\ row.events[i].to \in Active
  /\ row.events[Len(row.events)].to = row.status
  /\ row.occurrences = Cardinality(EvidenceEvents(row))

\* Every committed incident is explained by its event log, although row and events
\* are written by different statements, by racing reconcilers and an operator.
LedgerMatchesRow ==
  \A k \in Keys : \A i \in DOMAIN committed[k] : Replays(committed[k][i])

\* A committed incident only rests on evaluation runs that are committed too:
\* the rollback after a failed analysis leaves no incident without its evidence.
EvidencePersisted ==
  \A k \in Keys : \A i \in DOMAIN committed[k] :
    \A n \in DOMAIN committed[k][i].events : committed[k][i].events[n].at \in stored \cup {0}

\* History g continues history h: no incident is deleted, a RESOLVED one is never
\* touched, no opening time, captured impact or event is rewritten.
Continues(h, g) ==
  \A i \in DOMAIN h :
    /\ i \in DOMAIN g
    /\ h[i].status = "RESOLVED" => g[i] = h[i]
    /\ g[i].openedAt = h[i].openedAt
    /\ g[i].impacts = h[i].impacts
    /\ \A n \in DOMAIN h[i].events :
          n \in DOMAIN g[i].events /\ g[i].events[n] = h[i].events[n]

\* What readers have seen of an incident stays true (ADR 0007, docs/incidents.md).
HistoryIsKept == [][\A k \in Keys : Continues(committed[k], committed'[k])]_vars

\* The refinement mapping: a key's incidents with what the contract speaks of.
Abstracted ==
  [k \in Keys |-> [i \in DOMAIN committed[k] |->
                     [status |-> committed[k][i].status,
                      occurrences |-> committed[k][i].occurrences]]]

Contract == INSTANCE IncidentContract WITH history <- Abstracted

\* Every commit and every acknowledgement is one step of the contract for each key
\* it shows: a transaction never publishes two transitions of one incident at once.
ImplementsContract == Contract!Spec

\* Processes visit keys in one order, so they never wait for one another in a cycle:
\* a process that keeps running leaves its transaction.
EveryWorkerFinishes == \A w \in Workers : pc[w] # "idle" ~> pc[w] = "idle"

\* Read with one process at a time, as the scheduled workflow runs them, the times of
\* a key's incidents are in order: opened, seen, resolved, then the next one opened.
TimesInOrder ==
  \A k \in Keys : \A i \in DOMAIN committed[k] :
    LET row == committed[k][i] IN
    /\ row.openedAt <= row.lastSeenAt
    /\ row.status = "RESOLVED" <=> row.resolvedAt > row.lastSeenAt
    /\ \A j \in 1..(i - 1) : committed[k][j].resolvedAt < row.openedAt

\* docs/incidents.md: a FAIL opens an incident, updates the active one, or creates a
\* new one after a resolution.  Only a rolled back run may leave it unrecorded.
FailureIsRecorded == \A w \in Workers : pc[w] = "failed" => lost[w]

\* For a drift result the update of the drift rule's row serialises the processes
\* before they look for the incident, so it is never gone when they observe it.
DriftFailureIsRecorded ==
  \A w \in Workers : pc[w] = "failed" /\ key[w] \in DriftKeys => lost[w]
===============================================================================
