------------------------ MODULE IncidentLifecycleProofs ------------------------
(***************************************************************************)
(* Proofs about IncidentLifecycle for every set of keys, workers, lineages *)
(* and every bound.                                                        *)
(***************************************************************************)
EXTENDS IncidentLifecycle, FiniteSetTheorems, TLAPS

-------------------------------------------------------------------------------
(***************************************************************************)
(* Rows have their types.                                                  *)
(***************************************************************************)
\* A freshly inserted incident is a row of the table.
LEMMA OpenedType ==
  ASSUME TypeOK, NEW w \in Workers, NEW k \in Keys
  PROVE  Opened(w, k) \in Incident
<1>1. at[w] \in Nat /\ verdict[w] \in AllVerdicts /\ lineage \in Lineages
  BY DEF TypeOK
<1>2. KindOf(verdict[w]) \in IncidentKind
  BY DEF KindOf, IncidentKind
<1>3. <<[type |-> "OPENED", from |-> "NONE", to |-> "OPEN", at |-> at[w]]>> \in Seq(Event)
  BY <1>1 DEF Event, IncidentEventType, IncidentStatus, Active
<1> QED
  BY <1>1, <1>2, <1>3 DEF Opened, Incident, IncidentStatus, Active

\* Observing and resolving keep a row a row, and so does acknowledging.
LEMMA UpdatedType ==
  ASSUME NEW row \in Incident, TypeOK, NEW w \in Workers, NEW k \in Keys
  PROVE  /\ Observed(w, k, row) \in Incident
         /\ Resolved(w, row) \in Incident
<1>1. at[w] \in Nat
  BY DEF TypeOK
<1>2. /\ row.status \in IncidentStatus /\ row.events \in Seq(Event)
      /\ row.occurrences \in Nat
  BY DEF Incident
<1>3. Observed(w, k, row) \in Incident
  <2> DEFINE kind == IF k \in DriftKeys THEN "DATA_DRIFT" ELSE row.kind
             events == Append(row.events, [type |-> "OBSERVED_AGAIN", from |-> row.status,
                                           to |-> row.status, at |-> at[w]])
  <2>1. events \in Seq(Event)
    BY <1>1, <1>2 DEF Event, IncidentEventType, IncidentStatus, Active
  <2>2. kind \in IncidentKind
    BY DEF Incident, IncidentKind
  <2>3. row.occurrences + 1 \in Nat
    BY <1>2
  <2>4. Observed(w, k, row) =
          [row EXCEPT !.kind = kind, !.lastSeenAt = at[w],
                      !.occurrences = row.occurrences + 1, !.events = events]
    BY DEF Observed
  <2> HIDE DEF kind, events
  <2> QED
    BY <1>1, <2>1, <2>2, <2>3, <2>4 DEF Incident
<1>4. Resolved(w, row) \in Incident
  <2>1. Append(row.events, [type |-> "RESOLVED", from |-> row.status,
                            to |-> "RESOLVED", at |-> at[w]]) \in Seq(Event)
    BY <1>1, <1>2 DEF Event, IncidentEventType, IncidentStatus, Active
  <2> QED
    BY <1>1, <1>2, <2>1 DEF Resolved, Incident, IncidentStatus
<1> QED
  BY <1>3, <1>4

LEMMA AcknowledgedType ==
  ASSUME NEW row \in Incident
  PROVE  Acknowledged(row) \in Incident
<1>1. row.events \in Seq(Event)
  BY DEF Incident
<1>2. Append(row.events, [type |-> "ACKNOWLEDGED", from |-> "OPEN",
                          to |-> "ACKNOWLEDGED", at |-> 0]) \in Seq(Event)
  BY <1>1 DEF Event, IncidentEventType, IncidentStatus, Active
<1> QED
  BY <1>2 DEF Acknowledged, Incident, IncidentStatus, Active

\* What a transaction reads of a key is a history.
LEMMA ViewType ==
  ASSUME TypeOK, NEW w \in Workers, NEW k \in Keys
  PROVE  View(w, k) \in Seq(Incident)
BY DEF TypeOK, View

-------------------------------------------------------------------------------
(***************************************************************************)
(* Type correctness.                                                       *)
(***************************************************************************)
LEMMA AnyKeyType == AnyKey \in Keys
BY KeyAssumption DEF AnyKey

\* Writing a history leaves the two database copies well typed.
LEMMA WriteType ==
  ASSUME TypeOK, NEW w \in Workers, NEW k \in Keys, NEW h \in Seq(Incident), Write(w, k, h)
  PROVE  /\ working' \in [Keys -> Seq(Incident)]
         /\ owner' \in [Keys -> Workers \cup {NoWorker}]
BY DEF TypeOK, Write

\* So does a rollback.
LEMMA DiscardType ==
  ASSUME TypeOK, NEW w \in Workers, Discard(w)
  PROVE  /\ working' \in [Keys -> Seq(Incident)]
         /\ owner' \in [Keys -> Workers \cup {NoWorker}]
         /\ ruleOwner' \in [Keys -> Workers \cup {NoWorker}]
         /\ written' \in [Workers -> SUBSET (1..clock)]
BY DEF TypeOK, Discard

\* A process that ends leaves a well typed program state.
LEMMA ExitType ==
  ASSUME TypeOK, NEW w \in Workers, Exit(w), clock' = clock
  PROVE  /\ pc' \in [Workers -> {"idle", "between", "next", "insert", "observe",
                                 "observeWait", "rca", "resolve", "resolveWait", "failed"}]
         /\ stage' \in [Workers -> Nat]
         /\ at' \in [Workers -> 0..clock']
         /\ todo' \in [Workers -> SUBSET Keys]
         /\ key' \in [Workers -> Keys]
         /\ cand' \in [Workers -> Nat]
         /\ verdict' \in [Workers -> AllVerdicts]
         /\ lost' \in [Workers -> BOOLEAN]
BY AnyKeyType DEF TypeOK, Exit, AllVerdicts

LEMMA InitTypeOK == Init => TypeOK
BY AnyKeyType DEF Init, TypeOK, AllVerdicts

LEMMA NextTypeOK == TypeOK /\ [Next]_vars => TypeOK'
<1> SUFFICES ASSUME TypeOK, [Next]_vars PROVE TypeOK'
  OBVIOUS
<1> USE DEF dbVars, workerVars, Goto
<1>1. ASSUME NEW w \in Workers, NEW s \in {StageOf[k] : k \in Keys}, BeginStage(w, s)
      PROVE  TypeOK'
  <2>1. s \in Nat
    BY KeyAssumption
  <2>2. 0..clock \subseteq 0..(clock + 1) /\ 1..clock \subseteq 1..(clock + 1)
        /\ clock + 1 \in 1..(clock + 1) /\ clock + 1 \in 0..(clock + 1)
    BY DEF TypeOK
  <2>3. at' \in [Workers -> 0..clock'] /\ written' \in [Workers -> SUBSET (1..clock')]
    BY <1>1, <2>2 DEF TypeOK, BeginStage
  <2> QED
    BY <1>1, <2>1, <2>2, <2>3 DEF TypeOK, BeginStage
<1>2. ASSUME NEW w \in Workers, TakeResult(w) PROVE TypeOK'
  <2>1. PICK k \in todo[w] :
          /\ ruleOwner' = IF k \in DriftKeys /\ ~lost[w]
                          THEN [ruleOwner EXCEPT ![k] = w] ELSE ruleOwner
          /\ key' = [key EXCEPT ![w] = k]
          /\ todo' = [todo EXCEPT ![w] = @ \ {k}]
          /\ \E v \in Verdicts(k) :
               /\ verdict' = [verdict EXCEPT ![w] = v]
               /\ Goto(w, IF Alarms(k, v) THEN "insert"
                          ELSE IF Recovers(k, v) THEN "resolve" ELSE "next")
    BY <1>2 DEF TakeResult
  <2>2. k \in Keys /\ Verdicts(k) \subseteq AllVerdicts
    BY DEF TypeOK, Verdicts, AllVerdicts
  <2>3. verdict' \in [Workers -> AllVerdicts]
    BY <2>1, <2>2 DEF TypeOK
  <2>4. ruleOwner' \in [Keys -> Workers \cup {NoWorker}]
    BY <2>1, <2>2 DEF TypeOK
  <2> QED
    BY <1>2, <2>1, <2>2, <2>3, <2>4 DEF TypeOK, TakeResult
<1>3. ASSUME NEW w \in Workers, Insert(w) PROVE TypeOK'
  <2>1. key[w] \in Keys
    BY DEF TypeOK
  <2>2. Append(View(w, key[w]), Opened(w, key[w])) \in Seq(Incident)
    BY <2>1, OpenedType, ViewType
  <2>3. working' \in [Keys -> Seq(Incident)] /\ owner' \in [Keys -> Workers \cup {NoWorker}]
    BY <1>3, <2>1, <2>2, WriteType DEF Insert, TypeOK
  <2> QED
    BY <1>3, <2>3 DEF TypeOK, Insert
<1>4. ASSUME NEW w \in Workers, SelectActive(w) PROVE TypeOK'
  <2>1. ActiveRows(View(w, key[w])) \subseteq Nat
    <3>1. View(w, key[w]) \in Seq(Incident)
      BY ViewType DEF TypeOK
    <3> QED
      BY <3>1 DEF ActiveRows
  <2> QED
    BY <1>4, <2>1 DEF TypeOK, SelectActive
<1>5. ASSUME NEW w \in Workers, Observe(w) PROVE TypeOK'
  <2> DEFINE k == key[w]
             h == View(w, k)
             i == cand[w]
  <2>1. k \in Keys /\ h \in Seq(Incident)
    BY ViewType DEF TypeOK
  <2>2. ASSUME i \in ActiveRows(h)
        PROVE  [h EXCEPT ![i] = Observed(w, k, h[i])] \in Seq(Incident)
    <3>1. i \in DOMAIN h /\ h[i] \in Incident
      BY <2>1, <2>2 DEF ActiveRows
    <3>2. Observed(w, k, h[i]) \in Incident
      BY <2>1, <3>1, UpdatedType
    <3> QED
      BY <2>1, <3>1, <3>2
  <2>3. working' \in [Keys -> Seq(Incident)] /\ owner' \in [Keys -> Workers \cup {NoWorker}]
    BY <1>5, <2>1, <2>2, WriteType DEF Observe, TypeOK
  <2> QED
    BY <1>5, <2>3 DEF TypeOK, Observe
<1>6. ASSUME NEW w \in Workers, Resolve(w) PROVE TypeOK'
  <2> DEFINE k == key[w]
             h == View(w, k)
             i == cand[w]
  <2>1. k \in Keys /\ h \in Seq(Incident)
    BY ViewType DEF TypeOK
  <2>2. ASSUME i \in ActiveRows(h)
        PROVE  [h EXCEPT ![i] = Resolved(w, h[i])] \in Seq(Incident)
    <3>1. i \in DOMAIN h /\ h[i] \in Incident
      BY <2>1, <2>2 DEF ActiveRows
    <3>2. Resolved(w, h[i]) \in Incident
      BY <2>1, <3>1, UpdatedType
    <3> QED
      BY <2>1, <3>1, <3>2
  <2>3. working' \in [Keys -> Seq(Incident)] /\ owner' \in [Keys -> Workers \cup {NoWorker}]
    BY <1>6, <2>1, <2>2, WriteType DEF Resolve, TypeOK
  <2> QED
    BY <1>6, <2>3 DEF TypeOK, Resolve
<1>7. ASSUME NEW w \in Workers, AnalyzeSucceeds(w) \/ EndStage(w) \/ SkipStage(w)
      PROVE  TypeOK'
  BY <1>7 DEF TypeOK, AnalyzeSucceeds, EndStage, SkipStage
<1>8. ASSUME NEW w \in Workers, AnalyzeFails(w) PROVE TypeOK'
  BY <1>8, DiscardType DEF TypeOK, AnalyzeFails
<1>9. ASSUME NEW w \in Workers, Commit(w) PROVE TypeOK'
  <2>1. /\ committed' \in [Keys -> Seq(Incident)]
        /\ owner' \in [Keys -> Workers \cup {NoWorker}]
        /\ ruleOwner' \in [Keys -> Workers \cup {NoWorker}]
        /\ stored' \subseteq 1..clock'
        /\ written' \in [Workers -> SUBSET (1..clock')]
    BY <1>9 DEF TypeOK, Commit
  <2> QED
    BY <1>9, <2>1, ExitType DEF TypeOK, Commit
<1>10. ASSUME NEW w \in Workers, Abort(w) PROVE TypeOK'
  BY <1>10, DiscardType, ExitType DEF TypeOK, Abort
<1>11. ASSUME NEW k \in Keys, NEW i \in DOMAIN committed[k], Acknowledge(k, i) PROVE TypeOK'
  <2>1. ASSUME NEW h \in Seq(Incident)
        PROVE  [h EXCEPT ![i] = Acknowledged(h[i])] \in Seq(Incident)
    <3>1. CASE i \in DOMAIN h
      <4>1. h[i] \in Incident
        BY <3>1
      <4>2. Acknowledged(h[i]) \in Incident
        BY <4>1, AcknowledgedType
      <4> QED
        BY <3>1, <4>2
    <3>2. CASE i \notin DOMAIN h
      <4> DEFINE g == [h EXCEPT ![i] = Acknowledged(h[i])]
      <4>1. g = [j \in DOMAIN h |-> h[j]]
        BY <3>2
      <4>2. Len(h) \in Nat /\ DOMAIN h = 1..Len(h) /\ \A j \in DOMAIN h : h[j] \in Incident
        OBVIOUS
      <4>3. g \in [1..Len(h) -> Incident]
        BY <4>1, <4>2
      <4> HIDE DEF g
      <4>4. g \in Seq(Incident)
        BY <4>2, <4>3
      <4> QED
        BY <4>4 DEF g
    <3> QED
      BY <3>1, <3>2
  <2>2. /\ committed[k] \in Seq(Incident) /\ working[k] \in Seq(Incident)
    BY DEF TypeOK
  <2>3. /\ committed' = [committed EXCEPT ![k] = [committed[k] EXCEPT ![i] = Acknowledged(committed[k][i])]]
        /\ working' = [working EXCEPT ![k] = [working[k] EXCEPT ![i] = Acknowledged(working[k][i])]]
    BY <1>11 DEF Acknowledge
  <2>4. committed' \in [Keys -> Seq(Incident)] /\ working' \in [Keys -> Seq(Incident)]
    BY <2>1, <2>2, <2>3 DEF TypeOK
  <2> QED
    BY <1>11, <2>4 DEF TypeOK, Acknowledge
<1>12. ASSUME NEW g \in Lineages, SeedLineage(g) PROVE TypeOK'
  BY <1>12 DEF TypeOK, SeedLineage
<1>13. CASE UNCHANGED vars
  BY <1>13 DEF TypeOK, vars
<1> QED
  BY <1>1, <1>2, <1>3, <1>4, <1>5, <1>6, <1>7, <1>8, <1>9, <1>10, <1>11, <1>12, <1>13
     DEF Next, WorkerStep

\* The program state and the tables keep their types, whatever the interleaving.
THEOREM TypeCorrect == Spec => []TypeOK
BY InitTypeOK, NextTypeOK, PTL DEF Spec

-------------------------------------------------------------------------------
(***************************************************************************)
(* Histories.  OneActive and LedgerMatchesRow speak of what is committed;  *)
(* they are inductive together with the same facts about what open         *)
(* transactions have written, and with the fact that a key nobody holds    *)
(* reads the same everywhere.                                              *)
(***************************************************************************)
\* A history in which every row replays and only the newest row can be active.
SoundHistory(h) ==
  /\ \A i \in DOMAIN h : Replays(h[i])
  /\ \A i, j \in DOMAIN h : i < j => h[i].status = "RESOLVED"

\* A key without an open writer has one value.
Synced == \A k \in Keys : owner[k] = NoWorker => working[k] = committed[k]

Sound == \A k \in Keys : SoundHistory(committed[k]) /\ SoundHistory(working[k])

\* What an open transaction wrote continues what is committed.
Continued == \A k \in Keys : Continues(committed[k], working[k])

DatabaseSound == Synced /\ Sound /\ Continued

IInv == TypeOK /\ DatabaseSound

\* Only finitely many events of a row are evidence.
LEMMA EvidenceFinite ==
  ASSUME NEW row \in Incident
  PROVE  /\ IsFiniteSet(EvidenceEvents(row))
         /\ EvidenceEvents(row) \subseteq 1..Len(row.events)
<1>1. Len(row.events) \in Nat /\ DOMAIN row.events = 1..Len(row.events)
  BY DEF Incident
<1>2. EvidenceEvents(row) \subseteq 1..Len(row.events)
  BY <1>1 DEF EvidenceEvents
<1>3. IsFiniteSet(1..Len(row.events))
  BY <1>1, FS_Interval
<1> QED
  BY <1>2, <1>3, FS_Subset

\* One more event that starts from the row's status keeps the row explained.
LEMMA ReplaysAppend ==
  ASSUME NEW row \in Incident, Replays(row), row.status \in Active,
         NEW e \in Event, e.from = row.status,
         NEW new \in Incident, new.events = Append(row.events, e), new.status = e.to,
         new.occurrences = IF e.type \in {"OPENED", "OBSERVED_AGAIN"}
                           THEN row.occurrences + 1 ELSE row.occurrences
  PROVE  Replays(new)
<1> DEFINE n == Len(row.events)
<1>1. row.events \in Seq(Event) /\ n \in Nat /\ row.events # <<>> /\ n >= 1
  BY DEF Incident, Replays
<1>2. /\ Len(new.events) = n + 1
      /\ \A i \in 1..n : new.events[i] = row.events[i]
      /\ new.events[n + 1] = e
      /\ DOMAIN new.events = 1..(n + 1) /\ DOMAIN row.events = 1..n
  BY <1>1
<1>3. \A i \in 1..(Len(new.events) - 1) :
         new.events[i + 1].from = new.events[i].to /\ new.events[i].to \in Active
  <2> SUFFICES ASSUME NEW i \in 1..n
               PROVE  new.events[i + 1].from = new.events[i].to /\ new.events[i].to \in Active
    BY <1>1, <1>2
  <2>1. CASE i = n
    BY <1>1, <1>2, <2>1 DEF Replays
  <2>2. CASE i < n
    <3>1. i \in 1..(n - 1) /\ i + 1 \in 1..n
      BY <1>1, <2>2
    <3> QED
      BY <1>2, <3>1 DEF Replays
  <2> QED
    BY <1>1, <2>1, <2>2
<1>4. new.occurrences = Cardinality(EvidenceEvents(new))
  <2>1. IsFiniteSet(EvidenceEvents(row)) /\ n + 1 \notin EvidenceEvents(row)
    BY <1>1, EvidenceFinite
  <2>2. CASE e.type \in {"OPENED", "OBSERVED_AGAIN"}
    <3>1. EvidenceEvents(new) = EvidenceEvents(row) \cup {n + 1}
      BY <1>1, <1>2, <2>2 DEF EvidenceEvents
    <3> QED
      BY <2>1, <2>2, <3>1, FS_AddElement DEF Replays
  <2>3. CASE e.type \notin {"OPENED", "OBSERVED_AGAIN"}
    <3>1. EvidenceEvents(new) = EvidenceEvents(row)
      BY <1>1, <1>2, <2>3 DEF EvidenceEvents
    <3> QED
      BY <2>3, <3>1 DEF Replays
  <2> QED
    BY <2>2, <2>3
<1>5. /\ new.events # <<>> /\ new.events[1].from = "NONE" /\ new.events[1].type = "OPENED"
      /\ new.events[Len(new.events)].to = new.status
  BY <1>1, <1>2 DEF Replays
<1> QED
  BY <1>3, <1>4, <1>5 DEF Replays

\* The three updates of an active row keep it explained by its events.
LEMMA UpdatedReplays ==
  ASSUME NEW row \in Incident, Replays(row), row.status \in Active,
         TypeOK, NEW w \in Workers, NEW k \in Keys
  PROVE  Replays(Observed(w, k, row)) /\ Replays(Resolved(w, row))
<1> USE DEF Event, IncidentEventType, IncidentStatus, Active
<1>1. at[w] \in Nat
  BY DEF TypeOK
<1>2. Replays(Observed(w, k, row))
  <2> DEFINE e == [type |-> "OBSERVED_AGAIN", from |-> row.status, to |-> row.status, at |-> at[w]]
  <2>1. e \in Event
    BY <1>1
  <2>2. /\ Observed(w, k, row).events = Append(row.events, e)
        /\ Observed(w, k, row).status = row.status
        /\ Observed(w, k, row).occurrences = row.occurrences + 1
    BY DEF Observed, Incident
  <2> QED
    BY <2>1, <2>2, UpdatedType, ReplaysAppend
<1>3. Replays(Resolved(w, row))
  <2> DEFINE e == [type |-> "RESOLVED", from |-> row.status, to |-> "RESOLVED", at |-> at[w]]
  <2>1. e \in Event
    BY <1>1
  <2>2. /\ Resolved(w, row).events = Append(row.events, e)
        /\ Resolved(w, row).status = "RESOLVED"
        /\ Resolved(w, row).occurrences = row.occurrences
    BY DEF Resolved, Incident
  <2> QED
    BY <2>1, <2>2, UpdatedType, ReplaysAppend
<1> QED
  BY <1>2, <1>3

LEMMA AcknowledgedReplays ==
  ASSUME NEW row \in Incident, Replays(row), row.status = "OPEN"
  PROVE  Replays(Acknowledged(row))
<1> DEFINE e == [type |-> "ACKNOWLEDGED", from |-> "OPEN", to |-> "ACKNOWLEDGED", at |-> 0]
<1>1. e \in Event /\ row.status \in Active
  BY DEF Event, IncidentEventType, IncidentStatus, Active
<1>2. /\ Acknowledged(row).events = Append(row.events, e)
      /\ Acknowledged(row).status = "ACKNOWLEDGED"
      /\ Acknowledged(row).occurrences = row.occurrences
  BY DEF Acknowledged, Incident
<1> QED
  BY <1>1, <1>2, AcknowledgedType, ReplaysAppend

\* A new row starts with its OPENED event.
LEMMA OpenedReplays ==
  ASSUME TypeOK, NEW w \in Workers, NEW k \in Keys
  PROVE  Replays(Opened(w, k))
<1> DEFINE row == Opened(w, k)
           e == [type |-> "OPENED", from |-> "NONE", to |-> "OPEN", at |-> at[w]]
<1>1. row.events = <<e>> /\ row.status = "OPEN" /\ row.occurrences = 1
  BY DEF Opened
<1>2. e.type = "OPENED" /\ e.from = "NONE" /\ e.to = "OPEN"
  OBVIOUS
<1> HIDE DEF row, e
<1>3. /\ Len(row.events) = 1 /\ row.events # <<>> /\ DOMAIN row.events = {1}
      /\ row.events[1] = e
  BY <1>1
<1>4. EvidenceEvents(row) = {1}
  BY <1>2, <1>3 DEF EvidenceEvents
<1>5. Cardinality({1}) = 1
  BY FS_Singleton
<1>6. Replays(row)
  BY <1>1, <1>2, <1>3, <1>4, <1>5 DEF Replays
<1> QED
  BY <1>6 DEF row

-------------------------------------------------------------------------------
(***************************************************************************)
(* Histories under their two changes: a new row, an update of the active   *)
(* row.                                                                    *)
(***************************************************************************)
\* The index lets a row in only when no row of the key is active.
LEMMA AppendSound ==
  ASSUME NEW h \in Seq(Incident), SoundHistory(h), ~Conflict(h),
         NEW new \in Incident, Replays(new)
  PROVE  SoundHistory(Append(h, new)) /\ Continues(h, Append(h, new))
<1> DEFINE g == Append(h, new) n == Len(h)
<1>1. /\ n \in Nat /\ DOMAIN h = 1..n /\ DOMAIN g = 1..(n + 1)
      /\ \A i \in 1..n : g[i] = h[i]
      /\ g[n + 1] = new
  OBVIOUS
<1> HIDE DEF g, n
<1>2. \A i \in 1..n : h[i].status = "RESOLVED"
  <2> SUFFICES ASSUME NEW i \in 1..n PROVE h[i].status = "RESOLVED"
    OBVIOUS
  <2>1. h[i] \in Incident
    BY <1>1
  <2>2. h[i].status \in IncidentStatus
    BY <2>1 DEF Incident
  <2>3. h[i].status \notin Active
    BY <1>1 DEF Conflict, ActiveRows
  <2> QED
    BY <2>2, <2>3 DEF IncidentStatus
<1>3. \A i \in DOMAIN g : Replays(g[i])
  BY <1>1 DEF SoundHistory
<1>4. \A i, j \in DOMAIN g : i < j => g[i].status = "RESOLVED"
  BY <1>1, <1>2
<1>5. SoundHistory(g)
  BY <1>3, <1>4 DEF SoundHistory
<1>6. Continues(h, g)
  BY <1>1 DEF Continues
<1> QED
  BY <1>5, <1>6 DEF g

\* An update of the active row that appends to its events and keeps its opening
\* time and its impacts.
LEMMA UpdateSound ==
  ASSUME NEW h \in Seq(Incident), SoundHistory(h), NEW i \in ActiveRows(h),
         NEW new \in Incident, Replays(new), NEW e \in Event,
         new.events = Append(h[i].events, e),
         new.openedAt = h[i].openedAt, new.impacts = h[i].impacts
  PROVE  /\ [h EXCEPT ![i] = new] \in Seq(Incident)
         /\ SoundHistory([h EXCEPT ![i] = new])
         /\ Continues(h, [h EXCEPT ![i] = new])
<1> DEFINE g == [h EXCEPT ![i] = new]
<1>1. /\ i \in DOMAIN h /\ h[i].status # "RESOLVED" /\ h[i] \in Incident
      /\ DOMAIN h = 1..Len(h) /\ Len(h) \in Nat
  BY DEF ActiveRows, Active
<1>2. g \in Seq(Incident)
  BY <1>1
<1>3. DOMAIN g = DOMAIN h /\ g[i] = new /\ \A j \in DOMAIN h : j # i => g[j] = h[j]
  BY <1>1
<1> HIDE DEF g
<1>4. SoundHistory(g)
  <2>1. \A j \in DOMAIN g : Replays(g[j])
    BY <1>3 DEF SoundHistory
  <2>2. \A j, m \in DOMAIN g : j < m => g[j].status = "RESOLVED"
    <3> SUFFICES ASSUME NEW j \in DOMAIN g, NEW m \in DOMAIN g, j < m
                 PROVE  g[j].status = "RESOLVED"
      OBVIOUS
    <3>1. h[j].status = "RESOLVED"
      BY <1>3 DEF SoundHistory
    <3> QED
      BY <1>1, <1>3, <3>1
  <2> QED
    BY <2>1, <2>2 DEF SoundHistory
<1>5. \A n \in DOMAIN h[i].events : n \in DOMAIN new.events /\ new.events[n] = h[i].events[n]
  <2>1. h[i].events \in Seq(Event)
    BY <1>1 DEF Incident
  <2> QED
    BY <2>1
<1>6. Continues(h, g)
  BY <1>1, <1>3, <1>5 DEF Continues
<1> QED
  BY <1>2, <1>4, <1>6 DEF g

LEMMA ContinuesReflexive == ASSUME NEW h PROVE Continues(h, h)
BY DEF Continues

LEMMA ContinuesTransitive ==
  ASSUME NEW f, NEW g, NEW h, Continues(f, g), Continues(g, h)
  PROVE  Continues(f, h)
BY DEF Continues

-------------------------------------------------------------------------------
(***************************************************************************)
(* Transactions keep the two copies sound.                                 *)
(***************************************************************************)
\* Who may write a key reads the copy he is going to write.
LEMMA ViewIsWorking ==
  ASSUME Synced, NEW w \in Workers, NEW k \in Keys, Free(w, k)
  PROVE  View(w, k) = working[k]
BY WorkerAssumption DEF Synced, View, Free

LEMMA WriteKeeps ==
  ASSUME TypeOK, DatabaseSound, NEW w \in Workers, NEW k \in Keys,
         NEW h \in Seq(Incident), SoundHistory(h), Continues(working[k], h),
         Write(w, k, h), committed' = committed
  PROVE  DatabaseSound'
<1>1. /\ working'[k] = h /\ owner'[k] = w
      /\ \A j \in Keys : j # k => working'[j] = working[j] /\ owner'[j] = owner[j]
  BY DEF Write, TypeOK
<1>2. Continues(committed[k], h)
  BY ContinuesTransitive DEF DatabaseSound, Continued
<1>3. Synced'
  BY <1>1, WorkerAssumption DEF DatabaseSound, Synced
<1>4. Sound'
  BY <1>1 DEF DatabaseSound, Sound
<1>5. Continued'
  BY <1>1, <1>2 DEF DatabaseSound, Continued
<1> QED
  BY <1>3, <1>4, <1>5 DEF DatabaseSound

LEMMA DiscardKeeps ==
  ASSUME TypeOK, DatabaseSound, NEW w \in Workers, Discard(w), committed' = committed
  PROVE  DatabaseSound'
<1>1. \A k \in Keys : \/ working'[k] = committed[k]
                      \/ working'[k] = working[k] /\ owner'[k] = owner[k]
  BY DEF Discard, TypeOK
<1>2. Synced'
  BY <1>1 DEF DatabaseSound, Synced
<1>3. Sound'
  BY <1>1 DEF DatabaseSound, Sound
<1>4. Continued'
  BY <1>1, ContinuesReflexive DEF DatabaseSound, Continued
<1> QED
  BY <1>2, <1>3, <1>4 DEF DatabaseSound

\* Locking a row needs a key nobody holds, and changes both copies alike.
LEMMA AcknowledgeKeeps ==
  ASSUME TypeOK, DatabaseSound, NEW k \in Keys, NEW i \in DOMAIN committed[k], Acknowledge(k, i)
  PROVE  /\ DatabaseSound'
         /\ \A j \in Keys : Continues(committed[j], committed'[j])
<1> DEFINE h == committed[k]
           g == [h EXCEPT ![i] = Acknowledged(h[i])]
           e == [type |-> "ACKNOWLEDGED", from |-> "OPEN", to |-> "ACKNOWLEDGED", at |-> 0]
<1>1. /\ h \in Seq(Incident) /\ working[k] = h /\ SoundHistory(h)
      /\ i \in DOMAIN h /\ h[i].status = "OPEN" /\ owner[k] = NoWorker
  BY DEF TypeOK, DatabaseSound, Synced, Sound, Acknowledge
<1>2. h[i] \in Incident /\ i \in ActiveRows(h) /\ Replays(h[i])
  BY <1>1 DEF ActiveRows, Active, SoundHistory
<1>3. Acknowledged(h[i]) \in Incident /\ Replays(Acknowledged(h[i]))
  BY <1>1, <1>2, AcknowledgedType, AcknowledgedReplays
<1>4. e \in Event
  BY DEF Event, IncidentEventType, IncidentStatus, Active
<1>5. /\ Acknowledged(h[i]).events = Append(h[i].events, e)
      /\ Acknowledged(h[i]).openedAt = h[i].openedAt
      /\ Acknowledged(h[i]).impacts = h[i].impacts
  BY <1>2 DEF Acknowledged, Incident
<1> HIDE DEF e
<1>6. SoundHistory(g) /\ Continues(h, g)
  BY <1>1, <1>2, <1>3, <1>4, <1>5, UpdateSound
<1>7. /\ committed' = [committed EXCEPT ![k] = g] /\ working' = [working EXCEPT ![k] = g]
      /\ owner' = owner
  BY <1>1 DEF Acknowledge
<1> HIDE DEF g
<1>8. /\ committed'[k] = g /\ working'[k] = g
      /\ \A j \in Keys : j # k => committed'[j] = committed[j] /\ working'[j] = working[j]
  BY <1>7 DEF TypeOK
<1>9. Synced' /\ Sound'
  BY <1>6, <1>7, <1>8 DEF DatabaseSound, Synced, Sound
<1>10. Continued'
  BY <1>8, ContinuesReflexive DEF DatabaseSound, Continued
<1>11. \A j \in Keys : Continues(committed[j], committed'[j])
  BY <1>6, <1>8, ContinuesReflexive
<1> QED
  BY <1>9, <1>10, <1>11 DEF DatabaseSound

\* A commit publishes what the transaction wrote, which continues what was there.
LEMMA CommitKeeps ==
  ASSUME TypeOK, DatabaseSound, NEW w \in Workers, Commit(w)
  PROVE  /\ DatabaseSound'
         /\ \A k \in Keys : Continues(committed[k], committed'[k])
<1>1. \A k \in Keys :
        /\ owner[k] = w => committed'[k] = working[k] /\ owner'[k] = NoWorker
        /\ owner[k] # w => committed'[k] = committed[k] /\ owner'[k] = owner[k]
        /\ working'[k] = working[k]
  BY DEF Commit, TypeOK
<1>2. Synced'
  BY <1>1 DEF DatabaseSound, Synced
<1>3. Sound'
  BY <1>1 DEF DatabaseSound, Sound
<1>4. Continued'
  BY <1>1, ContinuesReflexive DEF DatabaseSound, Continued
<1>5. \A k \in Keys : Continues(committed[k], committed'[k])
  BY <1>1, ContinuesReflexive DEF DatabaseSound, Continued
<1> QED
  BY <1>2, <1>3, <1>4, <1>5 DEF DatabaseSound

\* The INSERT writes a sound history or nothing.
LEMMA InsertKeeps ==
  ASSUME TypeOK, DatabaseSound, NEW w \in Workers, Insert(w)
  PROVE  DatabaseSound'
<1> DEFINE k == key[w]
<1>1. k \in Keys /\ committed' = committed
  BY DEF TypeOK, Insert
<1>2. CASE UNCHANGED <<working, owner>>
  BY <1>1, <1>2 DEF DatabaseSound, Synced, Sound, Continued
<1>3. CASE ~Conflict(View(w, k)) /\ Write(w, k, Append(View(w, k), Opened(w, k)))
  <2>1. View(w, k) = working[k]
    BY <1>1, ViewIsWorking DEF DatabaseSound, Insert
  <2>2. working[k] \in Seq(Incident) /\ SoundHistory(working[k])
    BY <1>1 DEF TypeOK, DatabaseSound, Sound
  <2>3. Opened(w, k) \in Incident /\ Replays(Opened(w, k))
    BY <1>1, OpenedType, OpenedReplays
  <2> DEFINE g == Append(working[k], Opened(w, k))
  <2>4. g \in Seq(Incident) /\ SoundHistory(g) /\ Continues(working[k], g)
    BY <1>3, <2>1, <2>2, <2>3, AppendSound
  <2>5. Write(w, k, g)
    BY <1>3, <2>1
  <2> HIDE DEF g, k
  <2> QED
    BY <1>1, <2>4, <2>5, WriteKeeps
<1> QED
  BY <1>2, <1>3 DEF Insert

\* An UPDATE of the active row writes a sound history.
LEMMA UpdateKeeps ==
  ASSUME TypeOK, DatabaseSound, NEW w \in Workers, NEW k \in Keys, Free(w, k),
         NEW i \in ActiveRows(View(w, k)), NEW new, committed' = committed,
         new \in {Observed(w, k, View(w, k)[i]), Resolved(w, View(w, k)[i])},
         Write(w, k, [View(w, k) EXCEPT ![i] = new])
  PROVE  DatabaseSound'
<1> DEFINE h == View(w, k)
           e == IF new = Observed(w, k, h[i])
                THEN [type |-> "OBSERVED_AGAIN", from |-> h[i].status, to |-> h[i].status,
                      at |-> at[w]]
                ELSE [type |-> "RESOLVED", from |-> h[i].status, to |-> "RESOLVED",
                      at |-> at[w]]
<1>1. h = working[k] /\ h \in Seq(Incident) /\ SoundHistory(h)
  BY ViewIsWorking DEF TypeOK, DatabaseSound, Sound
<1> HIDE DEF h
<1>2. /\ i \in ActiveRows(h) /\ i \in DOMAIN h /\ h[i] \in Incident /\ Replays(h[i])
      /\ h[i].status \in Active /\ at[w] \in Nat
  BY <1>1 DEF ActiveRows, SoundHistory, TypeOK, h
<1>3. new \in {Observed(w, k, h[i]), Resolved(w, h[i])}
  BY DEF h
<1>4. new \in Incident /\ Replays(new)
  BY <1>2, <1>3, UpdatedType, UpdatedReplays
<1>5. e \in Event
  BY <1>2 DEF Event, IncidentEventType, IncidentStatus, Active
<1>6. new.events = Append(h[i].events, e)
  BY <1>2, <1>3 DEF Observed, Resolved, Incident
<1>7. new.openedAt = h[i].openedAt /\ new.impacts = h[i].impacts
  BY <1>2, <1>3 DEF Observed, Resolved, Incident
<1> HIDE DEF e
<1> DEFINE g == [h EXCEPT ![i] = new]
<1>8. g \in Seq(Incident) /\ SoundHistory(g) /\ Continues(h, g)
  BY <1>1, <1>2, <1>4, <1>5, <1>6, <1>7, UpdateSound
<1>9. Write(w, k, g)
  BY DEF h
<1> HIDE DEF g
<1> QED
  BY <1>1, <1>8, <1>9, WriteKeeps

-------------------------------------------------------------------------------
(***************************************************************************)
(* The inductive invariant and what follows from it.                       *)
(***************************************************************************)
LEMMA InitIInv == Init => IInv
<1> SUFFICES ASSUME Init PROVE IInv
  OBVIOUS
<1>1. SoundHistory(<<>>) /\ Continues(<<>>, <<>>)
  BY ContinuesReflexive DEF SoundHistory
<1> QED
  BY <1>1, InitTypeOK DEF IInv, DatabaseSound, Synced, Sound, Continued, Init

LEMMA NextIInv == IInv /\ [Next]_vars => IInv'
<1> SUFFICES ASSUME TypeOK, DatabaseSound, [Next]_vars PROVE DatabaseSound'
  BY NextTypeOK DEF IInv
<1> DEFINE Kept == UNCHANGED <<committed, working, owner>>
<1>1. ASSUME Kept PROVE DatabaseSound'
  BY <1>1 DEF DatabaseSound, Synced, Sound, Continued
<1>2. ASSUME NEW w \in Workers, NEW s, BeginStage(w, s) PROVE Kept
  BY <1>2 DEF BeginStage, dbVars
<1>3. ASSUME NEW w \in Workers, TakeResult(w) PROVE Kept
  BY <1>3 DEF TakeResult
<1>4. ASSUME NEW w \in Workers, Insert(w) PROVE DatabaseSound'
  BY <1>4, InsertKeeps
<1>5. ASSUME NEW w \in Workers, SelectActive(w) PROVE Kept
  BY <1>5 DEF SelectActive, dbVars
<1>6. ASSUME NEW w \in Workers, Observe(w) PROVE DatabaseSound'
  <2>1. key[w] \in Keys
    BY DEF TypeOK
  <2>2. CASE Kept
    BY <1>1, <2>2
  <2>3. CASE /\ cand[w] \in ActiveRows(View(w, key[w]))
             /\ Write(w, key[w], [View(w, key[w]) EXCEPT
                        ![cand[w]] = Observed(w, key[w], View(w, key[w])[cand[w]])])
    BY <1>6, <2>1, <2>3, UpdateKeeps DEF Observe
  <2> QED
    BY <1>6, <2>2, <2>3 DEF Observe
<1>7. ASSUME NEW w \in Workers, Resolve(w) PROVE DatabaseSound'
  <2>1. key[w] \in Keys
    BY DEF TypeOK
  <2>2. CASE Kept
    BY <1>1, <2>2
  <2>3. CASE /\ cand[w] \in ActiveRows(View(w, key[w]))
             /\ Write(w, key[w], [View(w, key[w]) EXCEPT
                        ![cand[w]] = Resolved(w, View(w, key[w])[cand[w]])])
    BY <1>7, <2>1, <2>3, UpdateKeeps DEF Resolve
  <2> QED
    BY <1>7, <2>2, <2>3 DEF Resolve
<1>8. ASSUME NEW w \in Workers, AnalyzeSucceeds(w) \/ EndStage(w) \/ SkipStage(w) PROVE Kept
  BY <1>8 DEF AnalyzeSucceeds, EndStage, SkipStage, dbVars
<1>9. ASSUME NEW w \in Workers, AnalyzeFails(w) \/ Abort(w) PROVE DatabaseSound'
  BY <1>9, DiscardKeeps DEF AnalyzeFails, Abort
<1>10. ASSUME NEW w \in Workers, Commit(w) PROVE DatabaseSound'
  BY <1>10, CommitKeeps
<1>11. ASSUME NEW k \in Keys, NEW i \in DOMAIN committed[k], Acknowledge(k, i)
       PROVE  DatabaseSound'
  BY <1>11, AcknowledgeKeeps
<1>12. ASSUME NEW g \in Lineages, SeedLineage(g) PROVE Kept
  BY <1>12 DEF SeedLineage, dbVars
<1>13. CASE UNCHANGED vars
  BY <1>1, <1>13 DEF vars
<1> HIDE DEF Kept
<1> QED
  BY <1>1, <1>2, <1>3, <1>4, <1>5, <1>6, <1>7, <1>8, <1>9, <1>10, <1>11, <1>12, <1>13
     DEF Next, WorkerStep

LEMMA InvariantHolds == Spec => []IInv
BY InitIInv, NextIInv, PTL DEF Spec

\* At most one committed incident of a key is active, whatever the races.
THEOREM OneActiveHolds == Spec => []OneActive
<1>1. IInv => OneActive
  <2> SUFFICES ASSUME IInv, NEW k \in Keys,
                      NEW i \in ActiveRows(committed[k]), NEW j \in ActiveRows(committed[k]), i # j
               PROVE  FALSE
    BY DEF OneActive
  <2>1. committed[k] \in Seq(Incident) /\ SoundHistory(committed[k])
    BY DEF IInv, TypeOK, DatabaseSound, Sound
  <2>2. i \in DOMAIN committed[k] /\ j \in DOMAIN committed[k] /\ i \in Nat /\ j \in Nat
    BY <2>1 DEF ActiveRows
  <2>3. committed[k][i].status # "RESOLVED" /\ committed[k][j].status # "RESOLVED"
    BY DEF ActiveRows, Active
  <2> QED
    BY <2>1, <2>2, <2>3 DEF SoundHistory
<1> QED
  BY <1>1, InvariantHolds, PTL

\* Every committed incident is explained by its event log.
THEOREM LedgerHolds == Spec => []LedgerMatchesRow
<1>1. IInv => LedgerMatchesRow
  BY DEF IInv, DatabaseSound, Sound, SoundHistory, LedgerMatchesRow
<1> QED
  BY <1>1, InvariantHolds, PTL

\* What a reader has seen of an incident is never rewritten.
THEOREM HistoryKept == Spec => HistoryIsKept
<1>1. IInv /\ [Next]_vars => [\A k \in Keys : Continues(committed[k], committed'[k])]_vars
  <2> SUFFICES ASSUME TypeOK, DatabaseSound, Next
               PROVE  \A k \in Keys : Continues(committed[k], committed'[k])
    BY DEF IInv
  <2>1. CASE committed' = committed
    BY <2>1, ContinuesReflexive
  <2>2. ASSUME NEW w \in Workers, Commit(w)
        PROVE  \A k \in Keys : Continues(committed[k], committed'[k])
    BY <2>2, CommitKeeps
  <2>3. ASSUME NEW k \in Keys, NEW i \in DOMAIN committed[k], Acknowledge(k, i)
        PROVE  \A j \in Keys : Continues(committed[j], committed'[j])
    BY <2>3, AcknowledgeKeeps
  <2>4. ASSUME NEW w \in Workers, WorkerStep(w) \/ Abort(w), ~Commit(w)
        PROVE  committed' = committed
    BY <2>4 DEF WorkerStep, BeginStage, TakeResult, Insert, SelectActive, Observe, Resolve,
                AnalyzeSucceeds, AnalyzeFails, EndStage, SkipStage, Abort, dbVars
  <2>5. ASSUME NEW g \in Lineages, SeedLineage(g) PROVE committed' = committed
    BY <2>5 DEF SeedLineage, dbVars
  <2> QED
    BY <2>1, <2>2, <2>3, <2>4, <2>5 DEF Next
<1> QED
  BY <1>1, InvariantHolds, PTL DEF Spec, HistoryIsKept
===============================================================================
