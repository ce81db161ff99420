-------------------------------- MODULE Copilot --------------------------------
(***************************************************************************)
(* Deterministic root cause analysis (rca/service.py, rca/repository.py)   *)
(* and the optional explanation of its result (ai/service.py,              *)
(* ai/repository.py, `opendq ai analyze' and `ai analyze-open').           *)
(*                                                                         *)
(* A copilot process is one transaction: its first statement is a SELECT,  *)
(* so what it stores is committed only when the process exits.  Reconcile  *)
(* stands for another process that opens, observes or resolves an incident *)
(* and analyzes it in the same transaction (IncidentLifecycle).            *)
(*                                                                         *)
(* Evidence is what the RCA's fingerprint is computed from.  The input of  *)
(* an explanation also holds the incident's timeline, so every change of   *)
(* an incident is a new `turn'.                                            *)
(***************************************************************************)
EXTENDS Integers, Sequences, FiniteSets

CONSTANTS
  Incidents,     \* rows of incidents
  Severity,      \* their severities: 1 is CRITICAL
  Evidence,      \* semantic contents of the evidence of an incident
  Workers,       \* copilot processes
  NoAnalysis,    \* a context without an analysis
  Providers,     \* how many providers are configured: Groq, Gemini
  Limit,         \* AI_MAX_CALLS_PER_RUN
  MaxTurns,      \* bound on the changes of incidents
  MaxStarts,     \* bound on the processes that are started
  MaxFaults      \* bound on processes that die

ASSUME SeverityAssumption == Severity \in [Incidents -> 1..4]
ASSUME BoundAssumption == {Providers, Limit, MaxTurns, MaxStarts, MaxFaults} \subseteq Nat

VARIABLES
  incident,   \* committed incidents
  rcas,       \* committed root_cause_analyses
  ais,        \* committed ai_incident_analyses
  clock,      \* transactions begun so far: CURRENT_TIMESTAMP of the next one
  worker,     \* the processes
  printed,    \* the results of processes that ended normally
  starts, faults

tables == <<incident, rcas, ais>>
vars == <<tables, clock, worker, printed, starts, faults>>

\* Unique by (incident, evidence); `at' is created_at, the start of its transaction.
Analysis == [incident : Incidents, evidence : Evidence, at : Nat]
\* What an explanation's fingerprint is computed from: the analysis, the incident's results as
\* they were read first and its timeline as it was read last.
Input == [rca : Analysis, results : 0..MaxTurns, timeline : 0..MaxTurns]
Explanation == [incident : Incidents, input : Input, status : {"SUCCESS", "FALLBACK"}]

\* A copilot process: what it has read, and the rows it has not committed yet.
Process == [pc : {"idle", "select", "read", "context", "timeline", "analyze", "insert", "lookup",
                  "route", "persist"},
            at : Nat, queue : Seq(Incidents), force : BOOLEAN, results : 0..MaxTurns,
            rca : Analysis \cup {NoAnalysis}, timeline : 0..MaxTurns, evidence : SUBSET Evidence,
            status : {"SUCCESS", "FALLBACK"}, calls : Nat,
            rcas : SUBSET Analysis, ais : SUBSET Explanation, report : SUBSET Explanation]

Idle == [pc |-> "idle", at |-> 0, queue |-> <<>>, force |-> FALSE, results |-> 0, rca |-> NoAnalysis,
         timeline |-> 0, evidence |-> {}, status |-> "SUCCESS", calls |-> 0,
         rcas |-> {}, ais |-> {}, report |-> {}]

TypeOK ==
  /\ incident \in [Incidents -> [status : {"absent", "active", "resolved"}, evidence : Evidence,
                                 turn : 0..MaxTurns, seen : Nat]]
  /\ rcas \subseteq Analysis /\ ais \subseteq Explanation
  /\ clock \in Nat
  /\ worker \in [Workers -> Process]
  /\ \A w \in Workers : Len(worker[w].queue) <= IF Limit = 0 THEN 1 ELSE Limit
  /\ printed \subseteq Explanation
  /\ starts \in 0..MaxStarts /\ faults \in 0..MaxFaults

\* Incidents opened before the analyses existed have none.
Init ==
  /\ incident \in [Incidents -> {[status |-> s, evidence |-> e, turn |-> 0, seen |-> 0] :
                                   s \in {"absent", "active"}, e \in Evidence}]
  /\ rcas = {} /\ ais = {} /\ clock = 0 /\ printed = {}
  /\ worker = [w \in Workers |-> Idle]
  /\ starts = 0 /\ faults = 0

-------------------------------------------------------------------------------
(***************************************************************************)
(* Reading.                                                                *)
(***************************************************************************)
SeenRcas(w) == rcas \cup worker[w].rcas
SeenAis(w) == ais \cup worker[w].ais

\* Wrong on purpose: the WHERE clause is missing.
LatestOfAny(all, i) ==
  IF all = {} THEN NoAnalysis ELSE CHOOSE a \in all : \A b \in all : b.at <= a.at

\* ORDER BY created_at DESC LIMIT 1.
Latest(all, i) ==
  LET own == {a \in all : a.incident = i}
  IN  IF own = {} THEN NoAnalysis ELSE CHOOSE a \in own : \A b \in own : b.at <= a.at

\* Wrong on purpose: only a provider's explanation counts.
IsPendingForProvider(i, r, x) ==
  /\ incident[i].status = "active"
  /\ \A e \in x : e.incident = i => e.input.rca # Latest(r, i) \/ e.status = "FALLBACK"

\* An active incident whose latest analysis is not explained.
IsPending(i, r, x) ==
  /\ incident[i].status = "active"
  /\ \A e \in x : e.incident = i => e.input.rca # Latest(r, i)

\* By severity, and the last seen first.
Before(i, j) ==
  \/ Severity[i] < Severity[j]
  \/ Severity[i] = Severity[j] /\ incident[i].seen > incident[j].seen

\* pending_incidents(n): the first n.
IsQueue(q, n) ==
  LET pending == {i \in Incidents : IsPending(i, rcas, ais)}
      chosen == {q[k] : k \in DOMAIN q}
  IN  /\ chosen \subseteq pending
      /\ Cardinality(chosen) = Len(q)
      /\ Len(q) = IF Cardinality(pending) < n THEN Cardinality(pending) ELSE n
      /\ \A k, m \in DOMAIN q : k < m => ~Before(q[m], q[k])
      /\ \A i \in chosen, j \in pending \ chosen : ~Before(j, i)

At(w, label) == worker[w].pc = label
Current(w) == Head(worker[w].queue)
Set(w, p) == worker' = [worker EXCEPT ![w] = p]

-------------------------------------------------------------------------------
(***************************************************************************)
(* Inserting.  An uncommitted row of another process with the same key     *)
(* makes an INSERT wait; a visible one makes ON CONFLICT DO NOTHING        *)
(* discard it.                                                             *)
(***************************************************************************)
SameAnalysis(a, w) == a.incident = Current(w) /\ {a.evidence} = worker[w].evidence
Fingerprint(w) == [rca |-> worker[w].rca, results |-> worker[w].results, timeline |-> worker[w].timeline]
SameInput(e, w) == e.incident = Current(w) /\ e.input = Fingerprint(w)

\* w waits for o.
WaitsFor(w, o) ==
  /\ w # o
  /\ \/ At(w, "insert") /\ \E a \in worker[o].rcas : SameAnalysis(a, w)
     \/ At(w, "persist") /\ \E e \in worker[o].ais : SameInput(e, w)
Waits(w) == \E o \in Workers : WaitsFor(w, o)

\* Wrong on purpose: the queue is not advanced.
AnsweredFromFirst(w, answer, more) ==
  /\ Set(w, [more EXCEPT !.report = @ \cup {answer}, !.pc = "read", !.evidence = {}])
  /\ UNCHANGED <<tables, printed>>

\* The rest of the queue; after the last incident the process prints and exits, which commits.
Answered(w, answer, more) ==
  LET p == worker[w]
      done == [more EXCEPT !.report = @ \cup {answer}]
  IN  IF Len(p.queue) > 1
      THEN /\ Set(w, [done EXCEPT !.pc = "read", !.queue = Tail(p.queue), !.evidence = {}])
           /\ UNCHANGED <<tables, printed>>
      ELSE /\ worker' = [worker EXCEPT ![w] = Idle]
           /\ rcas' = rcas \cup done.rcas /\ ais' = ais \cup done.ais
           /\ printed' = printed \cup done.report
           /\ incident' = incident

-------------------------------------------------------------------------------
(***************************************************************************)
(* A copilot process.                                                      *)
(***************************************************************************)
Begin(w, p) ==
  /\ At(w, "idle") /\ starts < MaxStarts
  /\ starts' = starts + 1 /\ clock' = clock + 1
  /\ Set(w, [p EXCEPT !.at = clock + 1])
  /\ UNCHANGED <<tables, printed, faults>>

\* ai analyze <incident> [--force]
StartOne(w, i, force) ==
  /\ incident[i].status # "absent"
  /\ Begin(w, [worker[w] EXCEPT !.pc = "read", !.queue = <<i>>, !.force = force])

\* ai analyze-open --limit n
StartBatch(w) == Begin(w, [worker[w] EXCEPT !.pc = "select"])

Step(w) == UNCHANGED <<clock, starts, faults>>

Select(w, n) ==
  /\ At(w, "select")
  /\ \E q \in UNION {[1..k -> Incidents] : k \in 0..Limit} :
       /\ IsQueue(q, n)
       /\ Set(w, IF q = <<>> THEN Idle ELSE [worker[w] EXCEPT !.pc = "read", !.queue = q])
  /\ Step(w) /\ UNCHANGED <<tables, printed>>

\* context(): the incident's row and with it its results...
ReadIncident(w) ==
  /\ At(w, "read")
  /\ Set(w, [worker[w] EXCEPT !.pc = "context", !.results = incident[Current(w)].turn])
  /\ Step(w) /\ UNCHANGED <<tables, printed>>

\* ... then the latest analysis ...
ReadAnalysis(w) ==
  /\ At(w, "context")
  /\ Set(w, [worker[w] EXCEPT !.pc = "timeline", !.rca = Latest(SeenRcas(w), Current(w))])
  /\ Step(w) /\ UNCHANGED <<tables, printed>>

\* Wrong on purpose: an incident without an analysis is explained anyway.
ReadTimelineOnce(w) ==
  /\ At(w, "timeline")
  /\ Set(w, [worker[w] EXCEPT !.pc = "lookup", !.timeline = incident[Current(w)].turn])
  /\ Step(w) /\ UNCHANGED <<tables, printed>>

\* ... and the timeline.  Without an analysis one is made first.
ReadTimeline(w) ==
  /\ At(w, "timeline")
  /\ Set(w, [worker[w] EXCEPT
                !.pc = IF worker[w].rca = NoAnalysis /\ worker[w].evidence = {}
                       THEN "analyze" ELSE "lookup",
                !.timeline = incident[Current(w)].turn])
  /\ Step(w) /\ UNCHANGED <<tables, printed>>

\* rca/service.py: the signals are read, ranked ...
Analyze(w) ==
  /\ At(w, "analyze")
  /\ Set(w, [worker[w] EXCEPT !.pc = "insert", !.evidence = {incident[Current(w)].evidence}])
  /\ Step(w) /\ UNCHANGED <<tables, printed>>

\* ... and stored unless the same evidence was analyzed before; then the context is read again.
InsertAnalysis(w) ==
  /\ At(w, "insert") /\ ~Waits(w)
  /\ \E e \in worker[w].evidence :
       Set(w, [worker[w] EXCEPT !.pc = "read", !.rcas = @ \cup
                 {a \in {[incident |-> Current(w), evidence |-> e, at |-> worker[w].at]} :
                    ~\E b \in SeenRcas(w) : SameAnalysis(b, w)}])
  /\ Step(w) /\ UNCHANGED <<tables, printed>>

\* The cache, unless --force.
LookupHits(w) ==
  /\ At(w, "lookup") /\ ~worker[w].force
  /\ \E e \in SeenAis(w) : SameInput(e, w) /\ Answered(w, e, worker[w])
  /\ Step(w)

LookupMisses(w) ==
  /\ At(w, "lookup")
  /\ worker[w].force \/ ~\E e \in SeenAis(w) : SameInput(e, w)
  /\ Set(w, [worker[w] EXCEPT !.pc = "route"])
  /\ Step(w) /\ UNCHANGED <<tables, printed>>

\* Each provider is asked until one answers; when none does, or none is configured, the
\* explanation is the deterministic one.
Route(w, asked, status) ==
  /\ At(w, "route")
  /\ status = "SUCCESS" => asked > 0
  /\ status = "FALLBACK" => asked = Providers
  /\ Set(w, [worker[w] EXCEPT !.pc = "persist", !.status = status, !.calls = @ + asked])
  /\ Step(w) /\ UNCHANGED <<tables, printed>>

Made(w) == [incident |-> Current(w), input |-> Fingerprint(w), status |-> worker[w].status]
Stored(w) == {e \in SeenAis(w) : SameInput(e, w)}

\* Wrong on purpose: what was made is reported instead of what is stored.
PersistAndReportMade(w) ==
  /\ At(w, "persist") /\ ~Waits(w)
  /\ Answered(w, Made(w), IF Stored(w) = {} THEN [worker[w] EXCEPT !.ais = @ \cup {Made(w)}] ELSE worker[w])
  /\ Step(w)

\* Wrong on purpose: the conflict is looked for among committed rows, before the INSERT.
PersistUnchecked(w) ==
  /\ At(w, "persist")
  /\ Answered(w, Made(w), [worker[w] EXCEPT !.ais = @ \cup {Made(w)}])
  /\ Step(w)

\* The explanation is stored unless this input has one, and the stored one is reported.
Persist(w) ==
  /\ At(w, "persist") /\ ~Waits(w)
  /\ IF Stored(w) = {}
     THEN Answered(w, Made(w), [worker[w] EXCEPT !.ais = @ \cup {Made(w)}])
     ELSE \E e \in Stored(w) : Answered(w, e, worker[w])
  /\ Step(w)

\* PostgreSQL ends one of two processes that wait for each other.
BreakDeadlock(w) ==
  /\ \E o \in Workers : WaitsFor(w, o) /\ WaitsFor(o, w)
  /\ worker' = [worker EXCEPT ![w] = Idle]
  /\ Step(w) /\ UNCHANGED <<tables, printed>>

Die(w) ==
  /\ ~At(w, "idle") /\ faults < MaxFaults
  /\ faults' = faults + 1
  /\ worker' = [worker EXCEPT ![w] = Idle]
  /\ UNCHANGED <<tables, clock, printed, starts>>

-------------------------------------------------------------------------------
(***************************************************************************)
(* Another process.  FOR UPDATE waits for a process that has inserted a    *)
(* row that refers to the incident.                                        *)
(***************************************************************************)
Referred(i) == \E w \in Workers : \E x \in worker[w].rcas \cup worker[w].ais : x.incident = i

Analyzed(i, e) ==
  IF \E a \in rcas : a.incident = i /\ a.evidence = e THEN rcas
  ELSE rcas \cup {[incident |-> i, evidence |-> e, at |-> clock + 1]}

\* Every transaction is a started process or a change.
MayChange == clock - starts < MaxTurns

\* Opened, or observed again, and analyzed.
Reconcile(i, e) ==
  /\ incident[i].status # "resolved" /\ MayChange /\ ~Referred(i)
  /\ clock' = clock + 1
  /\ incident' = [incident EXCEPT ![i] = [status |-> "active", evidence |-> e, turn |-> @.turn + 1,
                                          seen |-> clock + 1]]
  /\ rcas' = Analyzed(i, e)
  /\ UNCHANGED <<ais, worker, printed, starts, faults>>

Resolve(i) ==
  /\ incident[i].status = "active" /\ MayChange /\ ~Referred(i)
  /\ clock' = clock + 1
  /\ incident' = [incident EXCEPT ![i].status = "resolved", ![i].turn = @ + 1, ![i].seen = clock + 1]
  /\ UNCHANGED <<rcas, ais, worker, printed, starts, faults>>

WorkerStep(w) ==
  \/ Select(w, Limit) \/ ReadIncident(w) \/ ReadAnalysis(w) \/ ReadTimeline(w)
  \/ Analyze(w) \/ InsertAnalysis(w)
  \/ LookupHits(w) \/ LookupMisses(w)
  \/ \E asked \in 0..Providers, status \in {"SUCCESS", "FALLBACK"} : Route(w, asked, status)
  \/ Persist(w) \/ BreakDeadlock(w)

Next ==
  \/ \E w \in Workers :
       \/ StartBatch(w)
       \/ \E i \in Incidents, force \in BOOLEAN : StartOne(w, i, force)
       \/ WorkerStep(w) \/ Die(w)
  \/ \E i \in Incidents : Resolve(i) \/ \E e \in Evidence : Reconcile(i, e)

Spec == Init /\ [][Next]_vars

-------------------------------------------------------------------------------
\* What is stored is stored once: one analysis for the same evidence of an incident, and one
\* explanation for the same input, whoever stores it and however often it is asked for (the
\* unique constraints, ON CONFLICT DO NOTHING, and --force).
StoredOnce ==
  /\ \A a, b \in rcas : a.incident = b.incident /\ a.evidence = b.evidence => a = b
  /\ \A x, y \in ais : x.incident = y.incident /\ x.input = y.input => x = y

\* A committed explanation refers to a committed analysis of its own incident: the
\* deterministic analysis comes first, also for an incident that had none (analyze_incident).
GroundedInAnalysis == \A x \in ais : x.input.rca \in rcas /\ x.input.rca.incident = x.incident

\* What a process that ended normally has printed is in the database, as it was printed, although
\* another process may have stored an explanation of the same input first (persist reads it back).
ReportsAreStored == printed \subseteq ais

\* When a batch ends normally every incident it took is explained: it is not pending again before
\* another analysis of it is stored, whether a provider answered or not (pending_incidents and
\* the persisted fallback).
ExplainedIsNotPending ==
  \A x \in printed : Latest(rcas, x.incident) = x.input.rca => ~IsPending(x.incident, rcas, ais)

\* A run asks a provider at most AI_MAX_CALLS_PER_RUN times, once per incident
\* (the quotas of docs/ai-incident-copilot.md).
CallsWithinQuota == \A w \in Workers : worker[w].calls <= Limit
===============================================================================
