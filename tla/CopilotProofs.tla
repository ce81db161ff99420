----------------------------- MODULE CopilotProofs -----------------------------
(***************************************************************************)
(* Proofs about Copilot for every set of incidents, evidence and           *)
(* processes, any number of providers and every bound.                     *)
(*                                                                         *)
(* The properties speak of committed rows.  A row is committed long after  *)
(* it was inserted, so the invariant says of the rows of every process,    *)
(* committed or not, what it says of the tables.                           *)
(***************************************************************************)
EXTENDS Copilot, FiniteData, SequenceTheorems, FiniteSetTheorems, TLAPS

-------------------------------------------------------------------------------
(***************************************************************************)
(* The invariant.                                                          *)
(***************************************************************************)
\* The rows of all processes, committed or not.
AllRcas == rcas \cup UNION {worker[w].rcas : w \in Workers}
AllAis == ais \cup UNION {worker[w].ais : w \in Workers}

OneRca(all) == \A a, b \in all : a.incident = b.incident /\ a.evidence = b.evidence => a = b
OneAi(all) == \A x, y \in all : x.incident = y.incident /\ x.input = y.input => x = y

\* x explains an analysis among r of its own incident.
Grounded(x, r) == x.input.rca \in r /\ x.input.rca.incident = x.incident

MaxQueue == IF Limit = 0 THEN 1 ELSE Limit

\* A process stays within its types.
Fits(p) == p \in Process /\ Len(p.queue) <= MaxQueue /\ IsFiniteSet(p.rcas)

\* What process p knows of the analyses and explanations it sees, r and x being committed:
\* it analyzes an incident before it explains it, and reports only what it sees.
Knows(p, r, x) ==
  /\ p.pc \in {"idle", "select"} => p.evidence = {}
  /\ p.pc \notin {"idle", "select"} => p.queue # <<>>
  /\ p.pc \in {"read", "context"} /\ p.evidence # {} =>
       \E a \in r \cup p.rcas : a.incident = Head(p.queue)
  /\ p.pc = "timeline" =>
       \/ p.rca = NoAnalysis /\ p.evidence = {}
       \/ p.rca \in r \cup p.rcas /\ p.rca.incident = Head(p.queue)
  /\ p.pc = "insert" => \E e \in Evidence : p.evidence = {e}
  /\ p.pc \in {"lookup", "route", "persist"} =>
       p.rca \in r \cup p.rcas /\ p.rca.incident = Head(p.queue)
  /\ \A e \in p.ais : Grounded(e, r \cup p.rcas)
  /\ p.report \subseteq x \cup p.ais

\* Every change of an incident is a transaction that no copilot process began.
Clocked ==
  /\ clock \in Nat /\ starts \in 0..MaxStarts /\ faults \in 0..MaxFaults
  /\ starts <= clock /\ clock - starts <= MaxTurns
  /\ \A i \in Incidents : incident[i].turn <= clock - starts

Incident == [status : {"absent", "active", "resolved"}, evidence : Evidence, turn : 0..MaxTurns, seen : Nat]

Tables ==
  /\ incident \in [Incidents -> Incident]
  /\ rcas \subseteq Analysis /\ ais \subseteq Explanation /\ IsFiniteSet(rcas)
  /\ \A x \in ais : Grounded(x, rcas)
  /\ printed \subseteq ais

Processes ==
  /\ worker \in [Workers -> Process]
  /\ \A w \in Workers : Fits(worker[w]) /\ Knows(worker[w], rcas, ais)

IInv == Clocked /\ Tables /\ Processes /\ OneRca(AllRcas) /\ OneAi(AllAis)

-------------------------------------------------------------------------------
(***************************************************************************)
(* What a process knows.                                                   *)
(***************************************************************************)
\* A process loses no knowledge when others commit.
LEMMA KnowsLater ==
  ASSUME NEW p, NEW r, NEW x, NEW s, NEW y, Knows(p, r, x), r \subseteq s, x \subseteq y
  PROVE  Knows(p, s, y)
<1>1. p.pc \in {"read", "context"} /\ p.evidence # {} =>
        \E a \in s \cup p.rcas : a.incident = Head(p.queue)
  BY DEF Knows
<1>2. \A e \in p.ais : Grounded(e, s \cup p.rcas)
  BY DEF Knows, Grounded
<1> QED
  BY <1>1, <1>2 DEF Knows

\* A process that is idle knows nothing, and nothing is lost with it.
LEMMA IdleKnows ==
  /\ Fits(Idle) /\ Idle.rcas = {} /\ Idle.ais = {}
  /\ \A r, x : Knows(Idle, r, x)
<1>1. /\ Idle.pc = "idle" /\ Idle.evidence = {} /\ Idle.rcas = {} /\ Idle.ais = {}
      /\ Idle.report = {} /\ Idle.queue = <<>>
  BY DEF Idle
<1>2. 0 \in 0..MaxTurns
  BY BoundAssumption
<1>3. Idle \in Process
  BY <1>2 DEF Idle, Process
<1>4. IsFiniteSet(Idle.rcas)
  BY <1>1, FS_EmptySet
<1>5. Len(Idle.queue) <= MaxQueue
  BY <1>1, BoundAssumption DEF MaxQueue
<1> QED
  BY <1>1, <1>3, <1>4, <1>5 DEF Fits, Knows

\* The latest analysis of an incident that has one among finitely many.
LEMMA LatestIsThere ==
  ASSUME NEW all, all \subseteq Analysis, IsFiniteSet(all), NEW i,
         \E a \in all : a.incident = i
  PROVE  Latest(all, i) \in all /\ Latest(all, i).incident = i
<1> DEFINE own == {a \in all : a.incident = i}
           time == [a \in own |-> a.at]
<1>1. own # {} /\ IsFiniteSet(own)
  BY FS_Subset
<1>2. \A a \in own : time[a] \in Nat /\ time[a] = a.at
  BY DEF Analysis
<1> HIDE DEF time
<1>3. PICK a \in own : \A b \in own : time[b] <= time[a]
  <2> HIDE DEF own
  <2> QED
    BY <1>1, <1>2, LatestExists
<1>4. \A b \in own : b.at <= a.at
  BY <1>2, <1>3
<1>5. Latest(all, i) = CHOOSE c \in own : \A b \in own : b.at <= c.at
  BY <1>1 DEF Latest
<1>6. Latest(all, i) \in own
  <2> HIDE DEF own
  <2> QED
    BY <1>3, <1>4, <1>5
<1> QED
  BY <1>6

\* Without one of its own an incident has none.
LEMMA LatestIsOwn ==
  ASSUME NEW all, all \subseteq Analysis, IsFiniteSet(all), NEW i
  PROVE  \/ Latest(all, i) \in all /\ Latest(all, i).incident = i
         \/ Latest(all, i) = NoAnalysis /\ \A a \in all : a.incident # i
<1>1. CASE \E a \in all : a.incident = i
  BY <1>1, LatestIsThere
<1>2. CASE \A a \in all : a.incident # i
  BY <1>2 DEF Latest
<1> QED
  BY <1>1, <1>2

-------------------------------------------------------------------------------
(***************************************************************************)
(* Changes of a process.                                                   *)
(***************************************************************************)
\* The invariant after a step, from what the step leaves.
LEMMA InvNow ==
  ASSUME Clocked', Tables',
         worker' \in [Workers -> Process],
         \A w \in Workers : Fits(worker'[w]) /\ Knows(worker'[w], rcas', ais'),
         NEW r, NEW x, OneRca(r), OneAi(x), rcas' \subseteq r, ais' \subseteq x,
         \A w \in Workers : worker'[w].rcas \subseteq r /\ worker'[w].ais \subseteq x
  PROVE  IInv'
<1>1. Processes'
  BY DEF Processes, Fits, Knows, MaxQueue, Process, Analysis, Explanation, Input, Grounded
<1>2. AllRcas' \subseteq r /\ AllAis' \subseteq x
  BY DEF AllRcas, AllAis
<1>3. OneRca(AllRcas)' /\ OneAi(AllAis)'
  BY <1>2 DEF OneRca, OneAi
<1> QED
  BY <1>1, <1>3 DEF IInv

\* The rows of every process are among all rows.
LEMMA RowsAmongAll ==
  /\ rcas \subseteq AllRcas /\ ais \subseteq AllAis
  /\ \A w \in Workers : worker[w].rcas \subseteq AllRcas /\ worker[w].ais \subseteq AllAis
BY DEF AllRcas, AllAis

\* Process w becomes p, and nothing is committed.
LEMMA SetKeeps ==
  ASSUME IInv, NEW w \in Workers, NEW p, Set(w, p), UNCHANGED tables, UNCHANGED printed, Clocked',
         Fits(p), Knows(p, rcas, ais), OneRca(AllRcas \cup p.rcas), OneAi(AllAis \cup p.ais)
  PROVE  IInv'
<1>1. worker \in [Workers -> Process] /\ p \in Process
  BY DEF IInv, Processes, Fits
<1>2. /\ worker' \in [Workers -> Process] /\ worker'[w] = p
      /\ \A o \in Workers : o # w => worker'[o] = worker[o]
  BY <1>1 DEF Set
<1>3. rcas' = rcas /\ ais' = ais /\ incident' = incident /\ printed' = printed
  BY DEF tables
<1>4. \A o \in Workers : Fits(worker[o]) /\ Knows(worker[o], rcas, ais)
  BY DEF IInv, Processes
<1>5. \A o \in Workers : Fits(worker'[o]) /\ Knows(worker'[o], rcas', ais')
  BY <1>2, <1>3, <1>4
<1>6. Tables'
  BY <1>3 DEF IInv, Tables, Incident, Analysis, Explanation, Input, Grounded
<1>7. \A o \in Workers : /\ worker'[o].rcas \subseteq AllRcas \cup p.rcas
                         /\ worker'[o].ais \subseteq AllAis \cup p.ais
  BY <1>2, RowsAmongAll
<1>8. rcas' \subseteq AllRcas \cup p.rcas /\ ais' \subseteq AllAis \cup p.ais
  BY <1>3, RowsAmongAll
<1> QED
  BY <1>2, <1>5, <1>6, <1>7, <1>8, InvNow

\* Process w becomes p, and no row is added or committed.
LEMMA QuietKeeps ==
  ASSUME IInv, NEW w \in Workers, NEW p, Set(w, p), UNCHANGED tables, UNCHANGED printed, Clocked',
         p \in Process, Len(p.queue) <= MaxQueue, p.rcas = worker[w].rcas, p.ais = worker[w].ais,
         Knows(p, rcas, ais)
  PROVE  IInv'
<1>1. Fits(p)
  BY DEF IInv, Processes, Fits
<1>2. AllRcas \cup p.rcas = AllRcas /\ AllAis \cup p.ais = AllAis
  BY RowsAmongAll
<1> QED
  BY <1>1, <1>2, SetKeeps DEF IInv

\* Process w ends without a commit.
LEMMA EndKeeps ==
  ASSUME IInv, NEW w \in Workers, Set(w, Idle), UNCHANGED tables, UNCHANGED printed, Clocked'
  PROVE  IInv'
<1>1. AllRcas \cup Idle.rcas = AllRcas /\ AllAis \cup Idle.ais = AllAis
  BY IdleKnows
<1> QED
  BY <1>1, IdleKnows, SetKeeps DEF IInv

\* A step that changes no incident, and no counter.
LEMMA ClockedKept ==
  ASSUME IInv, Step(NoAnalysis), incident' = incident
  PROVE  Clocked'
BY DEF IInv, Clocked, Step

-------------------------------------------------------------------------------
(***************************************************************************)
(* One lemma per step of a process.                                        *)
(***************************************************************************)
\* What the invariant says of process w.
LEMMA ProcessFacts ==
  ASSUME IInv, NEW w \in Workers
  PROVE  /\ worker[w] \in Process /\ Fits(worker[w]) /\ Knows(worker[w], rcas, ais)
         /\ Len(worker[w].queue) <= MaxQueue /\ IsFiniteSet(worker[w].rcas)
         /\ worker[w].pc \notin {"idle", "select"} =>
              worker[w].queue # <<>> /\ Current(w) \in Incidents
<1>1. Fits(worker[w]) /\ Knows(worker[w], rcas, ais)
  BY DEF IInv, Processes
<1>2. worker[w].queue \in Seq(Incidents)
  BY <1>1 DEF Fits, Process
<1>3. worker[w].pc \notin {"idle", "select"} => worker[w].queue # <<>>
  BY <1>1 DEF Knows
<1>4. worker[w].queue # <<>> => Head(worker[w].queue) \in Incidents
  BY <1>2
<1> QED
  BY <1>1, <1>3, <1>4 DEF Fits, Current

LEMMA SeenIsFinite ==
  ASSUME IInv, NEW w \in Workers
  PROVE  SeenRcas(w) \subseteq Analysis /\ IsFiniteSet(SeenRcas(w))
<1>1. rcas \subseteq Analysis /\ IsFiniteSet(rcas)
  BY DEF IInv, Tables
<1>2. worker[w].rcas \subseteq Analysis /\ IsFiniteSet(worker[w].rcas)
  BY ProcessFacts DEF Process
<1> QED
  BY <1>1, <1>2, FS_Union DEF SeenRcas

\* Begin: the process starts a transaction, with the next time as its own.
LEMMA BeginKeeps ==
  ASSUME IInv, NEW w \in Workers, StartBatch(w) \/ \E i \in Incidents, force \in BOOLEAN : StartOne(w, i, force)
  PROVE  IInv'
<1>1. PICK p : /\ Begin(w, p) /\ p \in Process /\ Len(p.queue) <= MaxQueue
               /\ p.rcas = worker[w].rcas /\ p.ais = worker[w].ais /\ p.evidence = worker[w].evidence
               /\ p.report = worker[w].report
               /\ p.pc = "select" \/ (p.pc = "read" /\ p.queue # <<>>)
  <2>1. CASE StartBatch(w)
    <3> DEFINE p == [worker[w] EXCEPT !.pc = "select"]
    <3>1. /\ p \in Process /\ Len(p.queue) <= MaxQueue
          /\ p.rcas = worker[w].rcas /\ p.ais = worker[w].ais /\ p.evidence = worker[w].evidence
          /\ p.report = worker[w].report /\ p.pc = "select"
      BY ProcessFacts DEF Process
    <3>2. Begin(w, p)
      BY <2>1 DEF StartBatch
    <3> HIDE DEF p
    <3> QED
      BY <3>1, <3>2
  <2>2. CASE \E i \in Incidents, force \in BOOLEAN : StartOne(w, i, force)
    <3>1. PICK i \in Incidents, force \in BOOLEAN : StartOne(w, i, force)
      BY <2>2
    <3> DEFINE one == <<i>>
               p == [worker[w] EXCEPT !.pc = "read", !.queue = one, !.force = force]
    <3>2. one \in Seq(Incidents) /\ Len(one) = 1 /\ one # <<>>
      OBVIOUS
    <3>3. Begin(w, p)
      BY <3>1 DEF StartOne
    <3> HIDE DEF one
    <3>4. /\ p \in Process /\ p.queue = one
          /\ p.rcas = worker[w].rcas /\ p.ais = worker[w].ais /\ p.evidence = worker[w].evidence
          /\ p.report = worker[w].report /\ p.pc = "read"
      BY <3>2, ProcessFacts DEF Process
    <3>5. 1 <= MaxQueue
      BY BoundAssumption DEF MaxQueue
    <3> HIDE DEF p
    <3> QED
      BY <3>2, <3>3, <3>4, <3>5
  <2> QED
    BY <2>1, <2>2
<1> DEFINE q == [p EXCEPT !.at = clock + 1]
<1>2. /\ worker[w].pc = "idle" /\ starts < MaxStarts /\ starts' = starts + 1 /\ clock' = clock + 1
      /\ Set(w, q) /\ UNCHANGED <<tables, printed, faults>>
  BY <1>1 DEF Begin, At
<1>3. clock \in Nat /\ Clocked
  BY DEF IInv, Clocked
<1>4. /\ q \in Process /\ q.queue = p.queue /\ q.pc = p.pc /\ q.evidence = p.evidence
      /\ q.rcas = p.rcas /\ q.ais = p.ais /\ q.report = p.report
  BY <1>1, <1>3 DEF Process
<1> HIDE DEF q
<1>5. Knows(q, rcas, ais)
  <2>1. Knows(worker[w], rcas, ais) /\ worker[w].evidence = {}
    BY <1>2, ProcessFacts DEF Knows
  <2> QED
    BY <1>1, <1>4, <2>1 DEF Knows
<1>6. Clocked'
  BY <1>2, <1>3, BoundAssumption DEF Clocked, tables
<1> QED
  BY <1>1, <1>2, <1>4, <1>5, <1>6, QuietKeeps

\* The incidents of a batch, if there are any.
LEMMA SelectKeeps ==
  ASSUME IInv, NEW w \in Workers, Select(w, Limit)
  PROVE  IInv'
<1>1. PICK q \in UNION {[1..k -> Incidents] : k \in 0..Limit} :
        /\ IsQueue(q, Limit)
        /\ Set(w, IF q = <<>> THEN Idle ELSE [worker[w] EXCEPT !.pc = "read", !.queue = q])
  BY DEF Select
<1>2. worker[w].pc = "select" /\ UNCHANGED tables /\ UNCHANGED printed
  BY DEF Select, At
<1>3. Clocked'
  BY <1>2, ClockedKept DEF Select, Step, tables
<1>4. CASE q = <<>>
  BY <1>1, <1>2, <1>3, <1>4, EndKeeps
<1>5. CASE q # <<>>
  <2>1. q \in Seq(Incidents) /\ Len(q) <= Limit /\ Limit \in Nat
    <3>1. PICK k \in 0..Limit : q \in [1..k -> Incidents]
      BY <1>1
    <3>2. Limit \in Nat /\ k \in Nat
      BY BoundAssumption
    <3> QED
      BY <3>1, <3>2
  <2>2. Len(q) <= MaxQueue
    BY <2>1 DEF MaxQueue
  <2> DEFINE p == [worker[w] EXCEPT !.pc = "read", !.queue = q]
  <2>3. /\ p \in Process /\ p.pc = "read" /\ p.queue = q /\ p.evidence = worker[w].evidence
        /\ p.rcas = worker[w].rcas /\ p.ais = worker[w].ais /\ p.report = worker[w].report
    BY <2>1, ProcessFacts DEF Process
  <2>4. Set(w, p)
    BY <1>1, <1>5
  <2> HIDE DEF p
  <2>5. Knows(p, rcas, ais)
    <3>1. Knows(worker[w], rcas, ais) /\ worker[w].evidence = {}
      BY <1>2, ProcessFacts DEF Knows
    <3> QED
      BY <1>5, <2>3, <3>1 DEF Knows
  <2> QED
    BY <1>2, <1>3, <2>2, <2>3, <2>4, <2>5, QuietKeeps
<1> QED
  BY <1>4, <1>5

LEMMA ReadIncidentKeeps ==
  ASSUME IInv, NEW w \in Workers, ReadIncident(w)
  PROVE  IInv'
<1> DEFINE p == [worker[w] EXCEPT !.pc = "context", !.results = incident[Current(w)].turn]
<1>1. worker[w].pc = "read" /\ Set(w, p) /\ UNCHANGED tables /\ UNCHANGED printed
  BY DEF ReadIncident, At
<1>2. Clocked'
  BY <1>1, ClockedKept DEF ReadIncident, Step, tables
<1>3. incident[Current(w)].turn \in 0..MaxTurns
  BY <1>1, ProcessFacts DEF IInv, Tables, Incident
<1>4. /\ p \in Process /\ p.pc = "context" /\ p.queue = worker[w].queue
      /\ p.evidence = worker[w].evidence
      /\ p.rcas = worker[w].rcas /\ p.ais = worker[w].ais /\ p.report = worker[w].report
  BY <1>3, ProcessFacts DEF Process
<1> HIDE DEF p
<1>5. Knows(p, rcas, ais)
  <2>1. Knows(worker[w], rcas, ais)
    BY ProcessFacts
  <2> QED
    BY <1>1, <1>4, <2>1 DEF Knows
<1> QED
  BY <1>1, <1>2, <1>4, <1>5, ProcessFacts, QuietKeeps

\* Who has read the evidence of an incident finds an analysis of it.
LEMMA ReadAnalysisKeeps ==
  ASSUME IInv, NEW w \in Workers, ReadAnalysis(w)
  PROVE  IInv'
<1> DEFINE a == Latest(SeenRcas(w), Current(w))
           p == [worker[w] EXCEPT !.pc = "timeline", !.rca = a]
<1>1. worker[w].pc = "context" /\ Set(w, p) /\ UNCHANGED tables /\ UNCHANGED printed
  BY DEF ReadAnalysis, At
<1>2. Clocked'
  BY <1>1, ClockedKept DEF ReadAnalysis, Step, tables
<1>4. \/ a \in SeenRcas(w) /\ a.incident = Current(w)
      \/ a = NoAnalysis /\ \A b \in SeenRcas(w) : b.incident # Current(w)
  BY SeenIsFinite, LatestIsOwn
<1>5. Knows(worker[w], rcas, ais) /\ SeenRcas(w) = rcas \cup worker[w].rcas
  BY ProcessFacts DEF SeenRcas
<1>6. \/ a = NoAnalysis /\ worker[w].evidence = {}
      \/ a \in rcas \cup worker[w].rcas /\ a.incident = Head(worker[w].queue)
  BY <1>1, <1>4, <1>5 DEF Knows, Current
<1>7. a \in Analysis \cup {NoAnalysis}
  BY <1>4, SeenIsFinite
<1> HIDE DEF a
<1>8. /\ p \in Process /\ p.pc = "timeline" /\ p.queue = worker[w].queue /\ p.rca = a
      /\ p.evidence = worker[w].evidence
      /\ p.rcas = worker[w].rcas /\ p.ais = worker[w].ais /\ p.report = worker[w].report
  BY <1>7, ProcessFacts DEF Process
<1> HIDE DEF p
<1>9. Knows(p, rcas, ais)
  BY <1>1, <1>5, <1>6, <1>8 DEF Knows
<1> QED
  BY <1>1, <1>2, <1>8, <1>9, ProcessFacts, QuietKeeps

\* An incident is looked up only with an analysis of it.
LEMMA ReadTimelineKeeps ==
  ASSUME IInv, NEW w \in Workers, ReadTimeline(w)
  PROVE  IInv'
<1> DEFINE label == IF worker[w].rca = NoAnalysis /\ worker[w].evidence = {}
                    THEN "analyze" ELSE "lookup"
           p == [worker[w] EXCEPT !.pc = label, !.timeline = incident[Current(w)].turn]
<1>1. worker[w].pc = "timeline" /\ Set(w, p) /\ UNCHANGED tables /\ UNCHANGED printed
  BY DEF ReadTimeline, At
<1>2. Clocked'
  BY <1>1, ClockedKept DEF ReadTimeline, Step, tables
<1>3. incident[Current(w)].turn \in 0..MaxTurns
  BY <1>1, ProcessFacts DEF IInv, Tables, Incident
<1>5. Knows(worker[w], rcas, ais)
  BY ProcessFacts
<1>6. label \in {"analyze", "lookup"}
      /\ (label = "lookup" => /\ worker[w].rca \in rcas \cup worker[w].rcas
                              /\ worker[w].rca.incident = Head(worker[w].queue))
  BY <1>1, <1>5 DEF Knows
<1> HIDE DEF label
<1>8. /\ p \in Process /\ p.pc = label /\ p.queue = worker[w].queue /\ p.rca = worker[w].rca
      /\ p.evidence = worker[w].evidence
      /\ p.rcas = worker[w].rcas /\ p.ais = worker[w].ais /\ p.report = worker[w].report
  BY <1>3, <1>6, ProcessFacts DEF Process
<1> HIDE DEF p
<1>9. Knows(p, rcas, ais)
  BY <1>1, <1>5, <1>6, <1>8 DEF Knows
<1> QED
  BY <1>1, <1>2, <1>8, <1>9, ProcessFacts, QuietKeeps

LEMMA AnalyzeKeeps ==
  ASSUME IInv, NEW w \in Workers, Analyze(w)
  PROVE  IInv'
<1> DEFINE e == incident[Current(w)].evidence
           p == [worker[w] EXCEPT !.pc = "insert", !.evidence = {e}]
<1>1. worker[w].pc = "analyze" /\ Set(w, p) /\ UNCHANGED tables /\ UNCHANGED printed
  BY DEF Analyze, At
<1>2. Clocked'
  BY <1>1, ClockedKept DEF Analyze, Step, tables
<1>3. e \in Evidence
  BY <1>1, ProcessFacts DEF IInv, Tables, Incident
<1> HIDE DEF e
<1>4. /\ p \in Process /\ p.pc = "insert" /\ p.queue = worker[w].queue /\ p.evidence = {e}
      /\ p.rcas = worker[w].rcas /\ p.ais = worker[w].ais /\ p.report = worker[w].report
  BY <1>3, ProcessFacts DEF Process
<1> HIDE DEF p
<1>5. Knows(p, rcas, ais)
  <2>1. Knows(worker[w], rcas, ais)
    BY ProcessFacts
  <2> QED
    BY <1>1, <1>3, <1>4, <2>1 DEF Knows
<1> QED
  BY <1>1, <1>2, <1>4, <1>5, ProcessFacts, QuietKeeps

\* No row of any process has the key of a row that is inserted: other processes' rows with
\* it would make w wait, and w sees all the rest.
LEMMA InsertAnalysisKeeps ==
  ASSUME IInv, NEW w \in Workers, InsertAnalysis(w)
  PROVE  IInv'
<1>1. PICK e \in worker[w].evidence :
        Set(w, [worker[w] EXCEPT !.pc = "read", !.rcas = @ \cup
                  {a \in {[incident |-> Current(w), evidence |-> e, at |-> worker[w].at]} :
                     ~\E b \in SeenRcas(w) : SameAnalysis(b, w)}])
  BY DEF InsertAnalysis
<1> DEFINE row == [incident |-> Current(w), evidence |-> e, at |-> worker[w].at]
           new == {a \in {row} : ~\E b \in SeenRcas(w) : SameAnalysis(b, w)}
           p == [worker[w] EXCEPT !.pc = "read", !.rcas = @ \cup new]
<1>2. /\ worker[w].pc = "insert" /\ ~Waits(w) /\ Set(w, p) /\ UNCHANGED tables /\ UNCHANGED printed
  BY <1>1 DEF InsertAnalysis, At
<1>3. Clocked'
  BY <1>2, ClockedKept DEF InsertAnalysis, Step, tables
<1>4. worker[w].evidence = {e} /\ e \in Evidence /\ worker[w].at \in Nat /\ worker[w] \in Process
  <2>1. Knows(worker[w], rcas, ais) /\ worker[w] \in Process
    BY ProcessFacts
  <2>2. PICK f \in Evidence : worker[w].evidence = {f}
    BY <1>2, <2>1 DEF Knows
  <2>3. worker[w].at \in Nat
    BY <2>1 DEF Process
  <2>4. e = f
    BY <2>2
  <2> QED
    BY <2>1, <2>2, <2>3, <2>4
<1>5. row \in Analysis /\ row.incident = Current(w) /\ row.evidence = e
  BY <1>2, <1>4, ProcessFacts DEF Analysis
<1> HIDE DEF row
<1>6. /\ new \subseteq {row} /\ new \subseteq Analysis /\ IsFiniteSet(new)
      /\ new # {} => ~\E b \in SeenRcas(w) : SameAnalysis(b, w)
      /\ new = {} => \E b \in SeenRcas(w) : SameAnalysis(b, w)
  <2>1. IsFiniteSet({row})
    BY FS_Singleton
  <2> QED
    BY <1>5, <2>1, FS_Subset
<1> HIDE DEF new
<1>7. /\ p \in Process /\ p.pc = "read" /\ p.queue = worker[w].queue
      /\ p.evidence = worker[w].evidence /\ p.rcas = worker[w].rcas \cup new
      /\ p.ais = worker[w].ais /\ p.report = worker[w].report
  BY <1>4, <1>6 DEF Process
<1> HIDE DEF p
<1>8. Fits(p)
  <2>1. IsFiniteSet(worker[w].rcas) /\ Len(worker[w].queue) <= MaxQueue
    BY ProcessFacts
  <2>2. IsFiniteSet(worker[w].rcas \cup new)
    BY <1>6, <2>1, FS_Union
  <2> QED
    BY <1>7, <2>1, <2>2 DEF Fits
<1>9. \E a \in rcas \cup p.rcas : a.incident = Head(p.queue)
  <2>1. CASE new = {}
    BY <1>6, <1>7, <2>1 DEF SeenRcas, SameAnalysis, Current
  <2>2. CASE new # {}
    BY <1>5, <1>6, <1>7, <2>2 DEF Current
  <2> QED
    BY <2>1, <2>2
<1>10. Knows(p, rcas, ais)
  <2>1. Knows(worker[w], rcas, ais) /\ worker[w].queue # <<>>
    BY <1>2, ProcessFacts
  <2>2. \A x \in p.ais : Grounded(x, rcas \cup p.rcas)
    BY <1>7, <2>1 DEF Knows, Grounded
  <2> QED
    BY <1>7, <1>9, <2>1, <2>2 DEF Knows
<1>11. \A b \in AllRcas : new # {} => ~(b.incident = Current(w) /\ b.evidence = e)
  <2> SUFFICES ASSUME NEW b \in AllRcas, new # {}, b.incident = Current(w), b.evidence = e
               PROVE  FALSE
    OBVIOUS
  <2>1. SameAnalysis(b, w)
    BY <1>4 DEF SameAnalysis
  <2>2. b \notin SeenRcas(w)
    BY <1>6, <2>1
  <2>3. PICK o \in Workers : o # w /\ b \in worker[o].rcas
    BY <2>2 DEF AllRcas, SeenRcas
  <2> QED
    BY <1>2, <2>1, <2>3 DEF Waits, WaitsFor, At
<1>12. OneRca(AllRcas \cup p.rcas)
  <2>1. OneRca(AllRcas) /\ AllRcas \cup p.rcas = AllRcas \cup new
    BY <1>7, RowsAmongAll DEF IInv
  <2>2. OneRca(AllRcas \cup new)
    BY <1>5, <1>6, <1>11, <2>1 DEF OneRca
  <2> QED
    BY <2>1, <2>2
<1>13. OneAi(AllAis \cup p.ais)
  <2>1. AllAis \cup p.ais = AllAis
    BY <1>7, RowsAmongAll
  <2> QED
    BY <2>1 DEF IInv
<1> QED
  BY <1>2, <1>3, <1>8, <1>10, <1>12, <1>13, SetKeeps

LEMMA LookupMissesKeeps ==
  ASSUME IInv, NEW w \in Workers, LookupMisses(w)
  PROVE  IInv'
<1> DEFINE p == [worker[w] EXCEPT !.pc = "route"]
<1>1. worker[w].pc = "lookup" /\ Set(w, p) /\ UNCHANGED tables /\ UNCHANGED printed
  BY DEF LookupMisses, At
<1>2. Clocked'
  BY <1>1, ClockedKept DEF LookupMisses, Step, tables
<1>3. /\ p \in Process /\ p.pc = "route" /\ p.queue = worker[w].queue /\ p.rca = worker[w].rca
      /\ p.evidence = worker[w].evidence
      /\ p.rcas = worker[w].rcas /\ p.ais = worker[w].ais /\ p.report = worker[w].report
  BY ProcessFacts DEF Process
<1> HIDE DEF p
<1>4. Knows(p, rcas, ais)
  <2>1. Knows(worker[w], rcas, ais)
    BY ProcessFacts
  <2> QED
    BY <1>1, <1>3, <2>1 DEF Knows
<1> QED
  BY <1>1, <1>2, <1>3, <1>4, ProcessFacts, QuietKeeps

LEMMA RouteKeeps ==
  ASSUME IInv, NEW w \in Workers, NEW asked \in 0..Providers, NEW status \in {"SUCCESS", "FALLBACK"},
         Route(w, asked, status)
  PROVE  IInv'
<1> DEFINE p == [worker[w] EXCEPT !.pc = "persist", !.status = status, !.calls = @ + asked]
<1>1. worker[w].pc = "route" /\ Set(w, p) /\ UNCHANGED tables /\ UNCHANGED printed
  BY DEF Route, At
<1>2. Clocked'
  BY <1>1, ClockedKept DEF Route, Step, tables
<1>3. worker[w].calls + asked \in Nat
  BY BoundAssumption, ProcessFacts DEF Process
<1>4. /\ p \in Process /\ p.pc = "persist" /\ p.queue = worker[w].queue /\ p.rca = worker[w].rca
      /\ p.evidence = worker[w].evidence
      /\ p.rcas = worker[w].rcas /\ p.ais = worker[w].ais /\ p.report = worker[w].report
  BY <1>3, ProcessFacts DEF Process
<1> HIDE DEF p
<1>5. Knows(p, rcas, ais)
  <2>1. Knows(worker[w], rcas, ais)
    BY ProcessFacts
  <2> QED
    BY <1>1, <1>4, <2>1 DEF Knows
<1> QED
  BY <1>1, <1>2, <1>4, <1>5, ProcessFacts, QuietKeeps

\* Process p is what w is before it answers: all that it knows but for its place.
\* The answer is reported, and after the last one everything is committed at once.
LEMMA AnsweredKeeps ==
  ASSUME IInv, NEW w \in Workers, NEW answer, NEW p, Answered(w, answer, p), Clocked',
         worker[w].pc \in {"lookup", "persist"}, Fits(p), Knows(p, rcas, ais),
         p.queue = worker[w].queue, answer \in ais \cup p.ais,
         OneRca(AllRcas \cup p.rcas), OneAi(AllAis \cup p.ais)
  PROVE  IInv'
<1> DEFINE done == [p EXCEPT !.report = @ \cup {answer}]
           next == [done EXCEPT !.pc = "read", !.queue = Tail(worker[w].queue), !.evidence = {}]
<1>1. p \in Process /\ answer \in Explanation
  <2>1. p \in Process
    BY DEF Fits
  <2> QED
    BY <2>1 DEF IInv, Tables, Process
<1>2. /\ done \in Process /\ done.rcas = p.rcas /\ done.ais = p.ais
      /\ done.report = p.report \cup {answer} /\ done.report \subseteq ais \cup done.ais
  BY <1>1 DEF Process, Knows
<1>3. CASE Len(worker[w].queue) > 1
  <2>1. Set(w, next) /\ UNCHANGED tables /\ UNCHANGED printed
    BY <1>3 DEF Answered
  <2> DEFINE rest == Tail(worker[w].queue)
  <2>2. rest \in Seq(Incidents) /\ Len(rest) = Len(worker[w].queue) - 1 /\ Len(rest) \in Nat
    <3>1. worker[w].queue \in Seq(Incidents) /\ worker[w].queue # <<>>
      BY ProcessFacts DEF Process
    <3>2. rest \in Seq(Incidents) /\ Len(rest) = Len(worker[w].queue) - 1
      BY <3>1, HeadTailProperties
    <3> QED
      BY <3>2
  <2>3. rest # <<>> /\ Len(rest) <= MaxQueue
    <3>1. Len(worker[w].queue) <= MaxQueue /\ MaxQueue \in Nat /\ Len(worker[w].queue) \in Nat
      BY BoundAssumption, ProcessFacts DEF MaxQueue, Process
    <3> HIDE DEF rest
    <3>2. rest = <<>> <=> Len(rest) = 0
      BY <2>2, EmptySeq
    <3> QED
      BY <1>3, <2>2, <3>1, <3>2
  <2> HIDE DEF rest, done
  <2>4. /\ next \in Process /\ next.pc = "read" /\ next.queue = rest /\ next.evidence = {}
        /\ next.rcas = done.rcas /\ next.ais = done.ais /\ next.report = done.report
    BY <1>2, <2>2 DEF Process, rest
  <2> HIDE DEF next
  <2>5. Fits(next)
    BY <1>2, <2>3, <2>4 DEF Fits
  <2>6. Knows(next, rcas, ais)
    BY <1>2, <2>3, <2>4 DEF Knows
  <2> QED
    BY <1>2, <2>1, <2>4, <2>5, <2>6, SetKeeps
<1>4. CASE ~(Len(worker[w].queue) > 1)
  <2>1. /\ worker' = [worker EXCEPT ![w] = Idle]
        /\ rcas' = rcas \cup p.rcas /\ ais' = ais \cup p.ais
        /\ printed' = printed \cup done.report /\ incident' = incident
    BY <1>2, <1>4 DEF Answered
  <2> HIDE DEF done
  <2>2. worker \in [Workers -> Process] /\ Tables
        /\ \A o \in Workers : Fits(worker[o]) /\ Knows(worker[o], rcas, ais)
    BY DEF IInv, Processes
  <2>3. /\ worker' \in [Workers -> Process] /\ worker'[w] = Idle
        /\ \A o \in Workers : o # w => worker'[o] = worker[o]
    BY <2>1, <2>2, IdleKnows DEF Fits
  <2>4. \A o \in Workers : Fits(worker'[o]) /\ Knows(worker'[o], rcas', ais')
    <3> SUFFICES ASSUME NEW o \in Workers PROVE Fits(worker'[o]) /\ Knows(worker'[o], rcas', ais')
      OBVIOUS
    <3>1. CASE o = w
      BY <2>3, <3>1, IdleKnows
    <3>2. CASE o # w
      <4>1. worker'[o] = worker[o] /\ Fits(worker[o]) /\ Knows(worker[o], rcas, ais)
        BY <2>2, <2>3, <3>2
      <4>2. rcas \subseteq rcas' /\ ais \subseteq ais'
        BY <2>1
      <4> QED
        BY <4>1, <4>2, KnowsLater
    <3> QED
      BY <3>1, <3>2
  <2>5. Tables'
    <3>1. p.rcas \subseteq Analysis /\ p.ais \subseteq Explanation /\ IsFiniteSet(p.rcas)
      BY <1>1 DEF Process, Fits
    <3>2. rcas' \subseteq Analysis /\ ais' \subseteq Explanation
      BY <2>1, <2>2, <3>1 DEF Tables
    <3>3. IsFiniteSet(rcas')
      BY <2>1, <2>2, <3>1, FS_Union DEF Tables
    <3>4. \A x \in ais' : Grounded(x, rcas')
      BY <2>1, <2>2 DEF Tables, Knows, Grounded
    <3>5. printed' \subseteq ais'
      BY <1>2, <2>1, <2>2 DEF Tables
    <3>6. incident' \in [Incidents -> Incident]
      BY <2>1, <2>2 DEF Tables
    <3> QED
      BY <3>2, <3>3, <3>4, <3>5, <3>6
         DEF Tables, Incident, Analysis, Explanation, Input, Grounded
  <2>6. rcas' \subseteq AllRcas \cup p.rcas /\ ais' \subseteq AllAis \cup p.ais
    BY <2>1, RowsAmongAll
  <2>7. \A o \in Workers : /\ worker'[o].rcas \subseteq AllRcas \cup p.rcas
                           /\ worker'[o].ais \subseteq AllAis \cup p.ais
    BY <2>3, RowsAmongAll, IdleKnows
  <2> QED
    BY <2>3, <2>4, <2>5, <2>6, <2>7, InvNow
<1> QED
  BY <1>3, <1>4

\* The explanation that is found is one the process sees.
LEMMA LookupHitsKeeps ==
  ASSUME IInv, NEW w \in Workers, LookupHits(w)
  PROVE  IInv'
<1>1. PICK e \in SeenAis(w) : Answered(w, e, worker[w])
  BY DEF LookupHits
<1>2. worker[w].pc = "lookup" /\ Step(w)
  BY DEF LookupHits, At
<1>3. incident' = incident
  BY <1>1 DEF Answered, tables
<1>4. Clocked'
  BY <1>2, <1>3, ClockedKept DEF Step
<1>5. AllRcas \cup worker[w].rcas = AllRcas /\ AllAis \cup worker[w].ais = AllAis
  BY RowsAmongAll
<1>6. OneRca(AllRcas) /\ OneAi(AllAis)
  BY DEF IInv
<1>7. e \in ais \cup worker[w].ais
  BY DEF SeenAis
<1> QED
  BY <1>1, <1>2, <1>4, <1>5, <1>6, <1>7, ProcessFacts, AnsweredKeeps

\* The explanation is grounded, and has no other with its key among the rows of any process.
LEMMA PersistKeeps ==
  ASSUME IInv, NEW w \in Workers, Persist(w)
  PROVE  IInv'
<1>1. worker[w].pc = "persist" /\ ~Waits(w) /\ Step(w)
  BY DEF Persist, At
<1>2. incident' = incident
  BY DEF Persist, Answered, tables
<1>3. Clocked'
  BY <1>1, <1>2, ClockedKept DEF Step
<1>4. OneRca(AllRcas) /\ OneAi(AllAis) /\ AllRcas \cup worker[w].rcas = AllRcas
      /\ AllAis \cup worker[w].ais = AllAis
  BY RowsAmongAll DEF IInv
<1>5. CASE Stored(w) # {}
  <2>1. PICK e \in Stored(w) : Answered(w, e, worker[w])
    BY <1>5 DEF Persist
  <2>2. e \in ais \cup worker[w].ais
    BY DEF Stored, SeenAis
  <2> QED
    BY <1>1, <1>3, <1>4, <2>1, <2>2, ProcessFacts, AnsweredKeeps
<1>6. CASE Stored(w) = {}
  <2> DEFINE made == Made(w)
             p == [worker[w] EXCEPT !.ais = @ \cup {made}]
  <2>1. Answered(w, made, p)
    BY <1>6 DEF Persist
  <2>2. Knows(worker[w], rcas, ais) /\ worker[w] \in Process /\ worker[w].queue # <<>>
        /\ Current(w) \in Incidents
    BY <1>1, ProcessFacts
  <2>3. worker[w].rca \in rcas \cup worker[w].rcas /\ worker[w].rca.incident = Current(w)
    BY <1>1, <2>2 DEF Knows, Current
  <2>4. worker[w].rca \in Analysis
    BY <2>2, <2>3 DEF IInv, Tables, Process
  <2>5. Fingerprint(w) \in Input /\ Fingerprint(w).rca = worker[w].rca
    BY <2>2, <2>4 DEF Fingerprint, Input, Process
  <2>6. made \in Explanation /\ made.incident = Current(w) /\ made.input = Fingerprint(w)
    BY <2>2, <2>5 DEF Made, Explanation, Process
  <2> HIDE DEF made
  <2>7. /\ p \in Process /\ p.pc = "persist" /\ p.queue = worker[w].queue /\ p.rca = worker[w].rca
        /\ p.evidence = worker[w].evidence /\ p.rcas = worker[w].rcas
        /\ p.ais = worker[w].ais \cup {made} /\ p.report = worker[w].report
    BY <1>1, <2>2, <2>6 DEF Process
  <2> HIDE DEF p
  <2>8. Fits(p)
    BY <2>7, ProcessFacts DEF Fits
  <2>9. Knows(p, rcas, ais)
    <3>1. Grounded(made, rcas \cup p.rcas)
      BY <2>3, <2>5, <2>6, <2>7 DEF Grounded
    <3>2. \A x \in p.ais : Grounded(x, rcas \cup p.rcas)
      BY <2>2, <2>7, <3>1 DEF Knows
    <3> QED
      BY <1>1, <2>2, <2>7, <3>2 DEF Knows
  <2>10. \A x \in AllAis : ~(x.incident = made.incident /\ x.input = made.input)
    <3> SUFFICES ASSUME NEW x \in AllAis, x.incident = made.incident, x.input = made.input
                 PROVE  FALSE
      OBVIOUS
    <3>1. SameInput(x, w)
      BY <2>6 DEF SameInput
    <3>2. x \notin SeenAis(w)
      BY <1>6, <3>1 DEF Stored
    <3>3. PICK o \in Workers : o # w /\ x \in worker[o].ais
      BY <3>2 DEF AllAis, SeenAis
    <3> QED
      BY <1>1, <3>1, <3>3 DEF Waits, WaitsFor, At
  <2>11. OneAi(AllAis \cup p.ais)
    <3>1. AllAis \cup p.ais = AllAis \cup {made}
      BY <1>4, <2>7
    <3>2. OneAi(AllAis \cup {made})
      BY <1>4, <2>10 DEF OneAi
    <3> QED
      BY <3>1, <3>2
  <2>12. OneRca(AllRcas \cup p.rcas)
    BY <1>4, <2>7
  <2>13. made \in ais \cup p.ais
    BY <2>7
  <2> QED
    BY <1>1, <1>3, <2>1, <2>7, <2>8, <2>9, <2>11, <2>12, <2>13, AnsweredKeeps
<1> QED
  BY <1>5, <1>6

\* A process that is ended leaves nothing behind.
LEMMA EndedKeeps ==
  ASSUME IInv, NEW w \in Workers, BreakDeadlock(w) \/ Die(w)
  PROVE  IInv'
<1>1. Set(w, Idle) /\ UNCHANGED tables /\ UNCHANGED printed
  BY DEF BreakDeadlock, Die, Set
<1>2. Clocked'
  BY <1>1, BoundAssumption DEF IInv, Clocked, BreakDeadlock, Die, Step, tables
<1> QED
  BY <1>1, <1>2, EndKeeps

-------------------------------------------------------------------------------
(***************************************************************************)
(* The other process.                                                      *)
(***************************************************************************)
\* It waits for every process with a row that refers to the incident, and so its analysis is
\* the only one of its evidence.
LEMMA ReconcileKeeps ==
  ASSUME IInv, NEW i \in Incidents, NEW e \in Evidence, Reconcile(i, e)
  PROVE  IInv'
<1> DEFINE row == [incident |-> i, evidence |-> e, at |-> clock + 1]
           new == rcas' \ rcas
<1>1. /\ ~Referred(i) /\ clock - starts < MaxTurns /\ clock' = clock + 1
      /\ rcas' = Analyzed(i, e) /\ UNCHANGED <<ais, worker, printed, starts, faults>>
  BY DEF Reconcile, MayChange
<1>2. Clocked /\ Tables /\ Processes /\ OneRca(AllRcas) /\ OneAi(AllAis)
  BY DEF IInv
<1>3. /\ clock \in Nat /\ starts \in Nat /\ clock + 1 \in Nat
      /\ incident \in [Incidents -> Incident] /\ incident[i].turn <= clock - starts
      /\ incident[i].turn \in Nat
  BY <1>2 DEF Clocked, Tables, Incident
<1>4. PICK c \in Incident : /\ incident' = [incident EXCEPT ![i] = c]
                            /\ c.turn = incident[i].turn + 1
  <2> DEFINE c == [status |-> "active", evidence |-> e, turn |-> incident[i].turn + 1, seen |-> clock + 1]
  <2>1. incident[i].turn + 1 \in 0..MaxTurns
    BY <1>1, <1>3, BoundAssumption
  <2>2. c \in Incident /\ c.turn = incident[i].turn + 1
    BY <1>3, <2>1 DEF Incident
  <2>3. incident' = [incident EXCEPT ![i] = c]
    BY DEF Reconcile
  <2> HIDE DEF c
  <2> QED
    BY <2>2, <2>3
<1>5. /\ incident' \in [Incidents -> Incident] /\ incident'[i] = c
      /\ \A j \in Incidents : j # i => incident'[j] = incident[j]
  BY <1>3, <1>4
<1>6. Clocked'
  <2>1. \A j \in Incidents : incident'[j].turn <= clock' - starts'
    <3> SUFFICES ASSUME NEW j \in Incidents PROVE incident'[j].turn <= clock' - starts'
      OBVIOUS
    <3>1. clock' - starts' = clock - starts + 1
      BY <1>1, <1>3
    <3>2. CASE j = i
      BY <1>3, <1>4, <1>5, <3>1, <3>2
    <3>3. CASE j # i
      <4>1. incident[j].turn <= clock - starts /\ incident[j].turn \in Nat
        BY <1>2, <1>3 DEF Clocked, Incident
      <4> QED
        BY <1>3, <1>5, <3>1, <3>3, <4>1
    <3> QED
      BY <3>2, <3>3
  <2> QED
    BY <1>1, <1>2, <1>3, <2>1, BoundAssumption DEF Clocked
<1>7. row \in Analysis /\ row.incident = i /\ row.evidence = e
  BY <1>3 DEF Analysis
<1> HIDE DEF row
<1>8. /\ rcas \subseteq rcas' /\ new \subseteq {row} /\ rcas' = rcas \cup new
      /\ new # {} => ~\E a \in rcas : a.incident = i /\ a.evidence = e
  BY <1>1 DEF Analyzed, row
<1>9. rcas' \subseteq Analysis /\ IsFiniteSet(rcas')
  <2>1. IsFiniteSet({row}) /\ IsFiniteSet(rcas) /\ rcas \subseteq Analysis
    BY <1>2, FS_Singleton DEF Tables
  <2>2. IsFiniteSet(rcas \cup {row}) /\ rcas' \subseteq rcas \cup {row}
    BY <1>8, <2>1, FS_Union
  <2> QED
    BY <1>7, <2>1, <2>2, FS_Subset
<1> HIDE DEF new
<1>10. Tables'
  <2>1. ais \subseteq Explanation /\ printed \subseteq ais /\ \A x \in ais : Grounded(x, rcas')
    BY <1>2, <1>8 DEF Tables, Grounded
  <2> QED
    BY <1>1, <1>5, <1>9, <2>1 DEF Tables, Incident, Analysis, Explanation, Input, Grounded
<1>11. /\ worker' \in [Workers -> Process]
       /\ \A w \in Workers : Fits(worker'[w]) /\ Knows(worker'[w], rcas', ais')
  BY <1>1, <1>2, <1>8, KnowsLater DEF Processes
<1>12. OneRca(AllRcas \cup new)
  <2>1. \A a \in AllRcas : new # {} => ~(a.incident = i /\ a.evidence = e)
    <3>1. \A w \in Workers : \A a \in worker[w].rcas : a.incident # i
      BY <1>1 DEF Referred
    <3> QED
      BY <1>8, <3>1 DEF AllRcas
  <2> QED
    BY <1>2, <1>7, <1>8, <2>1 DEF OneRca
<1>13. /\ rcas' \subseteq AllRcas \cup new /\ ais' \subseteq AllAis
       /\ \A w \in Workers : worker'[w].rcas \subseteq AllRcas \cup new /\ worker'[w].ais \subseteq AllAis
  BY <1>1, <1>8, RowsAmongAll
<1> QED
  BY <1>2, <1>6, <1>10, <1>11, <1>12, <1>13, InvNow

LEMMA ResolveKeeps ==
  ASSUME IInv, NEW i \in Incidents, Resolve(i)
  PROVE  IInv'
<1>1. /\ clock - starts < MaxTurns /\ clock' = clock + 1
      /\ UNCHANGED <<rcas, ais, worker, printed, starts, faults>>
  BY DEF Resolve, MayChange
<1>2. Clocked /\ Tables /\ Processes /\ OneRca(AllRcas) /\ OneAi(AllAis)
  BY DEF IInv
<1>3. /\ clock \in Nat /\ starts \in Nat /\ clock + 1 \in Nat
      /\ incident \in [Incidents -> Incident] /\ incident[i].turn <= clock - starts
      /\ incident[i].turn \in Nat /\ incident[i] \in Incident
  BY <1>2 DEF Clocked, Tables, Incident
<1>4. PICK c \in Incident : /\ incident' = [incident EXCEPT ![i] = c]
                            /\ c.turn = incident[i].turn + 1
  <2> DEFINE c == [incident[i] EXCEPT !.status = "resolved", !.turn = @ + 1, !.seen = clock + 1]
  <2>1. incident[i].turn + 1 \in 0..MaxTurns
    BY <1>1, <1>3, BoundAssumption
  <2>2. c \in Incident /\ c.turn = incident[i].turn + 1
    BY <1>3, <2>1 DEF Incident
  <2>3. incident' = [incident EXCEPT ![i] = c]
    BY <1>3 DEF Resolve, Incident
  <2> HIDE DEF c
  <2> QED
    BY <2>2, <2>3
<1>5. /\ incident' \in [Incidents -> Incident] /\ incident'[i] = c
      /\ \A j \in Incidents : j # i => incident'[j] = incident[j]
  BY <1>3, <1>4
<1>6. Clocked'
  <2>1. \A j \in Incidents : incident'[j].turn <= clock' - starts'
    <3> SUFFICES ASSUME NEW j \in Incidents PROVE incident'[j].turn <= clock' - starts'
      OBVIOUS
    <3>1. clock' - starts' = clock - starts + 1
      BY <1>1, <1>3
    <3>2. CASE j = i
      BY <1>3, <1>4, <1>5, <3>1, <3>2
    <3>3. CASE j # i
      <4>1. incident[j].turn <= clock - starts /\ incident[j].turn \in Nat
        BY <1>2, <1>3 DEF Clocked, Incident
      <4> QED
        BY <1>3, <1>5, <3>1, <3>3, <4>1
    <3> QED
      BY <3>2, <3>3
  <2> QED
    BY <1>1, <1>2, <1>3, <2>1, BoundAssumption DEF Clocked
<1>7. Tables'
  BY <1>1, <1>2, <1>5 DEF Tables, Incident, Analysis, Explanation, Input, Grounded
<1>8. /\ worker' \in [Workers -> Process]
      /\ \A w \in Workers : Fits(worker'[w]) /\ Knows(worker'[w], rcas', ais')
  BY <1>1, <1>2 DEF Processes
<1>9. /\ rcas' \subseteq AllRcas /\ ais' \subseteq AllAis
      /\ \A w \in Workers : worker'[w].rcas \subseteq AllRcas /\ worker'[w].ais \subseteq AllAis
  BY <1>1, RowsAmongAll
<1> QED
  BY <1>2, <1>6, <1>7, <1>8, <1>9, InvNow

-------------------------------------------------------------------------------
(***************************************************************************)
(* The specification.                                                      *)
(***************************************************************************)
LEMMA InitIInv == Init => IInv
<1> SUFFICES ASSUME Init PROVE IInv
  OBVIOUS
<1>1. /\ rcas = {} /\ ais = {} /\ printed = {} /\ clock = 0 /\ starts = 0 /\ faults = 0
      /\ worker = [w \in Workers |-> Idle]
  BY DEF Init
<1>2. 0 \in 0..MaxTurns /\ 0 \in 0..MaxStarts /\ 0 \in 0..MaxFaults
  BY BoundAssumption
<1>3. incident \in [Incidents -> Incident] /\ \A i \in Incidents : incident[i].turn = 0
  <2> DEFINE new == {[status |-> s, evidence |-> e, turn |-> 0, seen |-> 0] :
                       s \in {"absent", "active"}, e \in Evidence}
  <2>1. \A c \in new : c \in Incident /\ c.turn = 0
    BY <1>2 DEF Incident
  <2>2. incident \in [Incidents -> new]
    BY DEF Init
  <2> HIDE DEF new
  <2> QED
    BY <2>1, <2>2
<1>4. Clocked
  BY <1>1, <1>2, <1>3, BoundAssumption DEF Clocked
<1>5. Tables
  BY <1>1, <1>3, FS_EmptySet DEF Tables
<1>6. Processes
  BY <1>1, IdleKnows DEF Processes, Fits
<1>7. \A w \in Workers : worker[w].rcas = {} /\ worker[w].ais = {}
  BY <1>1, IdleKnows
<1>8. AllRcas = {} /\ AllAis = {}
  BY <1>1, <1>7 DEF AllRcas, AllAis
<1> QED
  BY <1>4, <1>5, <1>6, <1>8 DEF IInv, OneRca, OneAi

LEMMA NextIInv == IInv /\ [Next]_vars => IInv'
<1> SUFFICES ASSUME IInv, [Next]_vars PROVE IInv'
  OBVIOUS
<1>1. CASE UNCHANGED vars
  <2>1. /\ rcas' = rcas /\ ais' = ais /\ worker' = worker
        /\ UNCHANGED <<incident, clock, printed, starts, faults>>
    BY <1>1 DEF vars, tables
  <2>2. Clocked /\ Tables /\ Processes /\ OneRca(AllRcas) /\ OneAi(AllAis)
    BY DEF IInv
  <2>3. Clocked'
    BY <2>1, <2>2 DEF Clocked
  <2>4. Tables'
    BY <2>1, <2>2 DEF Tables, Incident, Analysis, Explanation, Input, Grounded
  <2>5. /\ worker' \in [Workers -> Process]
        /\ \A w \in Workers : Fits(worker'[w]) /\ Knows(worker'[w], rcas', ais')
    BY <2>1, <2>2 DEF Processes
  <2> QED
    BY <2>1, <2>2, <2>3, <2>4, <2>5, RowsAmongAll, InvNow
<1>2. CASE \E i \in Incidents : Resolve(i) \/ \E e \in Evidence : Reconcile(i, e)
  BY <1>2, ReconcileKeeps, ResolveKeeps
<1>3. ASSUME NEW w \in Workers,
             StartBatch(w) \/ (\E i \in Incidents, force \in BOOLEAN : StartOne(w, i, force))
      PROVE  IInv'
  BY <1>3, BeginKeeps
<1>4. ASSUME NEW w \in Workers, WorkerStep(w) \/ Die(w)
      PROVE  IInv'
  <2>1. CASE \/ Select(w, Limit) \/ ReadIncident(w) \/ ReadAnalysis(w) \/ ReadTimeline(w)
             \/ Analyze(w) \/ InsertAnalysis(w)
    BY <2>1, SelectKeeps, ReadIncidentKeeps, ReadAnalysisKeeps, ReadTimelineKeeps, AnalyzeKeeps,
       InsertAnalysisKeeps
  <2>2. CASE LookupHits(w) \/ LookupMisses(w) \/ Persist(w)
    BY <2>2, LookupHitsKeeps, LookupMissesKeeps, PersistKeeps
  <2>3. CASE \E asked \in 0..Providers, status \in {"SUCCESS", "FALLBACK"} : Route(w, asked, status)
    BY <2>3, RouteKeeps
  <2>4. CASE BreakDeadlock(w) \/ Die(w)
    BY <2>4, EndedKeeps
  <2> QED
    BY <1>4, <2>1, <2>2, <2>3, <2>4 DEF WorkerStep
<1> QED
  BY <1>1, <1>2, <1>3, <1>4 DEF Next

\* The invariant holds in every reachable state.
THEOREM Invariant == Spec => []IInv
BY InitIInv, NextIInv, PTL DEF Spec

\* The tables and the processes stay within their types, the queue of a batch within the limit
\* (AI_MAX_CALLS_PER_RUN) and the turns of an incident within the changes that were made.
THEOREM TypeCorrect == Spec => []TypeOK
<1>1. IInv => TypeOK
  BY DEF IInv, Clocked, Tables, Processes, Fits, MaxQueue, Incident, TypeOK
<1> QED
  BY Invariant, <1>1, PTL

\* One analysis of the same evidence and one explanation of the same input are ever stored,
\* though processes insert them into transactions that others do not see (the unique
\* constraints of migrations 004 and 006, and ON CONFLICT DO NOTHING).
THEOREM StoredOnceHolds == Spec => []StoredOnce
<1>1. IInv => StoredOnce
  BY RowsAmongAll DEF IInv, OneRca, OneAi, StoredOnce
<1> QED
  BY Invariant, <1>1, PTL

\* The deterministic analysis an explanation rests on is committed before it or with it
\* (analyze_incident of ai/service.py).
THEOREM GroundedInAnalysisHolds == Spec => []GroundedInAnalysis
<1>1. IInv => GroundedInAnalysis
  BY DEF IInv, Tables, Grounded, GroundedInAnalysis
<1> QED
  BY Invariant, <1>1, PTL

\* What a process prints is what the database holds (persist of ai/repository.py).
THEOREM ReportsAreStoredHolds == Spec => []ReportsAreStored
<1>1. IInv => ReportsAreStored
  BY DEF IInv, Tables, ReportsAreStored
<1> QED
  BY Invariant, <1>1, PTL

\* What was explained is not taken again before its incident has another analysis
\* (pending_incidents of ai/repository.py).
THEOREM ExplainedIsNotPendingHolds == Spec => []ExplainedIsNotPending
<1>1. IInv => ExplainedIsNotPending
  BY DEF IInv, Tables, IsPending, ExplainedIsNotPending
<1> QED
  BY Invariant, <1>1, PTL
===============================================================================
