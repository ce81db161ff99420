----------------------- MODULE IncidentTransactionProofs -----------------------
(***************************************************************************)
(* Proofs about what the processes of IncidentLifecycle do to one another: *)
(* what a transaction rests on, what it finds when it gets a lock, and     *)
(* what its commit shows to a reader.                                      *)
(***************************************************************************)
EXTENDS IncidentLifecycleProofs

-------------------------------------------------------------------------------
(***************************************************************************)
(* The inductive invariant, over that of IncidentLifecycleProofs.          *)
(***************************************************************************)
\* A result is in hand that is going to read or write the incidents of its key.
InHand == {"insert", "observe", "observeWait", "resolve", "resolveWait"}

\* A worker meets a key once in a transaction: the stages ascend, and a stage takes each key once.
Once(w) ==
  /\ pc[w] = "idle" => \A k \in Keys : owner[k] # w /\ ruleOwner[k] # w
  /\ \A k \in todo[w] : StageOf[k] = stage[w]
  /\ \A k \in Keys : owner[k] = w => k \notin todo[w] /\ StageOf[k] <= stage[w]
  /\ pc[w] \in InHand =>
       owner[key[w]] # w /\ key[w] \notin todo[w] /\ StageOf[key[w]] = stage[w]

\* While a run is not lost it is among those the transaction commits.
Backed(w) == pc[w] \notin {"idle", "between"} /\ ~lost[w] => at[w] \in written[w]

\* Who works on a drift key, its run not lost, holds the rule and finds what the INSERT met.
Serialised(w) ==
  key[w] \in DriftKeys /\ ~lost[w] =>
    /\ pc[w] \in InHand => ruleOwner[key[w]] = w
    /\ pc[w] = "observe" => ActiveRows(View(w, key[w])) # {}
    /\ pc[w] = "observeWait" => cand[w] \in ActiveRows(View(w, key[w]))
    /\ pc[w] # "failed"

\* The events of history h are of the evaluation runs in s, or of an operator.
RestsOn(h, s) ==
  \A i \in DOMAIN h : \A n \in DOMAIN h[i].events : h[i].events[n].at \in s \cup {0}

\* What the contract sees of a history.
Seen(h) == [i \in DOMAIN h |-> [status |-> h[i].status, occurrences |-> h[i].occurrences]]

\* History g is at most one step of the contract after h.
OneStep(h, g) ==
  LET live == h # <<>> /\ h[Len(h)].status \in Active
  IN  \/ Seen(g) = Seen(h)
      \/ ~live /\ Seen(g) = Append(Seen(h), [status |-> "OPEN", occurrences |-> 1])
      \/ live /\ Seen(g) = [Seen(h) EXCEPT ![Len(h)].occurrences = @ + 1]
      \/ live /\ Seen(g) = [Seen(h) EXCEPT ![Len(h)].status = "RESOLVED"]

\* What worker w has written of key k.
Writes(w, k) ==
  owner[k] = w =>
    /\ RestsOn(working[k], stored \cup written[w])
    /\ OneStep(committed[k], working[k])
    /\ k \in DriftKeys => ruleOwner[k] = w

Transactions ==
  /\ \A w \in Workers : Once(w) /\ Backed(w) /\ Serialised(w) /\ \A k \in Keys : Writes(w, k)
  /\ \A k \in Keys : RestsOn(committed[k], stored)

TInv == IInv /\ Transactions

-------------------------------------------------------------------------------
(***************************************************************************)
(* Histories: what a change rests on, and what the contract sees of it.    *)
(***************************************************************************)
LEMMA RestsOnMore ==
  ASSUME NEW h, NEW s, NEW t, s \subseteq t, RestsOn(h, s)
  PROVE  RestsOn(h, t)
BY DEF RestsOn

\* A row that is added rests on the event it starts with.
LEMMA AppendRests ==
  ASSUME NEW h \in Seq(Incident), NEW new \in Incident, NEW s, RestsOn(h, s),
         NEW e \in Event, new.events = <<e>>, e.at \in s \cup {0}
  PROVE  RestsOn(Append(h, new), s)
<1> DEFINE g == Append(h, new)
<1>1. DOMAIN g = 1..(Len(h) + 1) /\ Len(h) \in Nat /\ DOMAIN h = 1..Len(h)
  OBVIOUS
<1>2. g[Len(h) + 1] = new /\ \A i \in DOMAIN h : g[i] = h[i]
  OBVIOUS
<1>3. DOMAIN new.events = {1} /\ new.events[1] = e
  OBVIOUS
<1> HIDE DEF g
<1>4. RestsOn(g, s)
  BY <1>1, <1>2, <1>3 DEF RestsOn
<1> QED
  BY <1>4 DEF g

\* A row that is updated rests on the event that is appended.
LEMMA UpdateRests ==
  ASSUME NEW h \in Seq(Incident), NEW i \in DOMAIN h, NEW new \in Incident, NEW s,
         RestsOn(h, s), NEW e \in Event, new.events = Append(h[i].events, e),
         e.at \in s \cup {0}
  PROVE  RestsOn([h EXCEPT ![i] = new], s)
<1> DEFINE g == [h EXCEPT ![i] = new]
<1>1. DOMAIN g = DOMAIN h /\ g[i] = new /\ \A j \in DOMAIN h : j # i => g[j] = h[j]
  OBVIOUS
<1>2. h[i].events \in Seq(Event)
  <2>1. h[i] \in Incident
    OBVIOUS
  <2> QED
    BY <2>1 DEF Incident
<1>3. \A n \in DOMAIN new.events : new.events[n].at \in s \cup {0}
  <2> DEFINE m == Len(h[i].events)
  <2>1. /\ m \in Nat /\ DOMAIN h[i].events = 1..m /\ DOMAIN new.events = 1..(m + 1)
        /\ new.events[m + 1] = e /\ \A n \in 1..m : new.events[n] = h[i].events[n]
    BY <1>2
  <2>2. \A n \in 1..m : h[i].events[n].at \in s \cup {0}
    BY <2>1 DEF RestsOn
  <2> QED
    BY <2>1, <2>2
<1> HIDE DEF g
<1>4. RestsOn(g, s)
  BY <1>1, <1>3 DEF RestsOn
<1> QED
  BY <1>4 DEF g

\* The active row of a sound history is its newest one.
LEMMA ActiveIsNewest ==
  ASSUME NEW h \in Seq(Incident), SoundHistory(h), NEW i \in ActiveRows(h)
  PROVE  h # <<>> /\ i = Len(h) /\ h[Len(h)].status \in Active
<1>1. /\ i \in DOMAIN h /\ h[i].status \in Active /\ DOMAIN h = 1..Len(h) /\ Len(h) \in Nat
      /\ h[i].status # "RESOLVED"
  BY DEF ActiveRows, Active
<1>2. i = Len(h)
  BY <1>1 DEF SoundHistory
<1> QED
  BY <1>1, <1>2

LEMMA SeenFacts ==
  ASSUME NEW h \in Seq(Incident)
  PROVE  /\ DOMAIN Seen(h) = DOMAIN h /\ Len(Seen(h)) = Len(h)
         /\ Seen(h) \in Seq([status : IncidentStatus, occurrences : Nat])
         /\ \A i \in DOMAIN h : /\ Seen(h)[i].status = h[i].status
                                /\ Seen(h)[i].occurrences = h[i].occurrences
<1>1. /\ Len(h) \in Nat /\ DOMAIN h = 1..Len(h)
      /\ \A i \in DOMAIN h : h[i].status \in IncidentStatus /\ h[i].occurrences \in Nat
  <2>1. Len(h) \in Nat /\ DOMAIN h = 1..Len(h) /\ \A i \in DOMAIN h : h[i] \in Incident
    OBVIOUS
  <2> QED
    BY <2>1 DEF Incident
<1>2. Seen(h) \in [1..Len(h) -> [status : IncidentStatus, occurrences : Nat]]
  BY <1>1 DEF Seen
<1>3. Seen(h) \in Seq([status : IncidentStatus, occurrences : Nat])
  <2>1. \A n \in Nat : \A x, S : x \in [1..n -> S] => x \in Seq(S)
    OBVIOUS
  <2> QED
    BY <1>1, <1>2, <2>1, Zenon
<1>4. DOMAIN Seen(h) = DOMAIN h
  BY DEF Seen
<1>5. Len(Seen(h)) = Len(h)
  BY <1>1, <1>3, <1>4
<1> QED
  BY <1>3, <1>4, <1>5 DEF Seen

\* Opening an incident is one step of the contract.
LEMMA OpeningIsAStep ==
  ASSUME NEW h \in Seq(Incident), ~Conflict(h),
         NEW new \in Incident, new.status = "OPEN", new.occurrences = 1
  PROVE  OneStep(h, Append(h, new))
<1> DEFINE g == Append(h, new)
<1>1. /\ Len(h) \in Nat /\ DOMAIN h = 1..Len(h) /\ DOMAIN g = 1..(Len(h) + 1)
      /\ g \in Seq(Incident) /\ g[Len(h) + 1] = new /\ \A i \in DOMAIN h : g[i] = h[i]
  OBVIOUS
<1> HIDE DEF g
<1>2. ~(h # <<>> /\ h[Len(h)].status \in Active)
  BY <1>1 DEF Conflict, ActiveRows
<1> DEFINE s == Append(Seen(h), [status |-> "OPEN", occurrences |-> 1])
<1>3. /\ DOMAIN s = 1..(Len(h) + 1) /\ s[Len(h) + 1] = [status |-> "OPEN", occurrences |-> 1]
      /\ \A i \in DOMAIN h : s[i] = Seen(h)[i]
      /\ s = [i \in DOMAIN s |-> s[i]]
  BY <1>1, SeenFacts
<1> HIDE DEF s
<1>4. Seen(g) = s
  <2>1. DOMAIN Seen(g) = DOMAIN s
    BY <1>1, <1>3 DEF Seen
  <2>2. \A i \in DOMAIN s : Seen(g)[i] = s[i]
    <3>1. \A i \in DOMAIN h : Seen(g)[i] = Seen(h)[i]
      BY <1>1 DEF Seen
    <3>2. Seen(g)[Len(h) + 1] = [status |-> "OPEN", occurrences |-> 1]
      BY <1>1 DEF Seen
    <3> QED
      BY <1>1, <1>3, <3>1, <3>2
  <2>3. Seen(g) = [i \in DOMAIN Seen(g) |-> Seen(g)[i]]
    BY DEF Seen
  <2> QED
    BY <1>3, <2>1, <2>2, <2>3
<1>5. OneStep(h, g)
  BY <1>2, <1>4 DEF OneStep, s
<1> QED
  BY <1>5 DEF g

\* An update of the active row is one step of the contract when it counts one more
\* observation, or when it resolves the incident.
LEMMA UpdateIsAStep ==
  ASSUME NEW h \in Seq(Incident), SoundHistory(h), NEW i \in ActiveRows(h),
         NEW new \in Incident,
         \/ new.status = h[i].status /\ new.occurrences = h[i].occurrences + 1
         \/ new.status = "RESOLVED" /\ new.occurrences = h[i].occurrences
  PROVE  OneStep(h, [h EXCEPT ![i] = new])
<1> DEFINE g == [h EXCEPT ![i] = new]
<1>1. /\ i \in DOMAIN h /\ i = Len(h) /\ h # <<>> /\ h[Len(h)].status \in Active
      /\ DOMAIN g = DOMAIN h /\ g[i] = new /\ \A j \in DOMAIN h : j # i => g[j] = h[j]
  BY ActiveIsNewest DEF ActiveRows
<1> HIDE DEF g
<1>2. /\ Seen(h) = [j \in DOMAIN h |-> [status |-> h[j].status, occurrences |-> h[j].occurrences]]
      /\ Seen(g) = [j \in DOMAIN h |-> [status |-> g[j].status, occurrences |-> g[j].occurrences]]
  BY <1>1 DEF Seen
<1>3. CASE new.status = h[i].status /\ new.occurrences = h[i].occurrences + 1
  <2>1. Seen(g) = [Seen(h) EXCEPT ![Len(h)].occurrences = @ + 1]
    BY <1>1, <1>2, <1>3
  <2> QED
    BY <1>1, <2>1 DEF OneStep, g
<1>4. CASE new.status = "RESOLVED" /\ new.occurrences = h[i].occurrences
  <2> DEFINE s == [Seen(h) EXCEPT ![i] = [Seen(h)[i] EXCEPT !.status = "RESOLVED"]]
  <2>2. /\ DOMAIN Seen(h) = DOMAIN h
        /\ Seen(h)[i] = [status |-> h[i].status, occurrences |-> h[i].occurrences]
    BY <1>1 DEF Seen
  <2>3. [Seen(h)[i] EXCEPT !.status = "RESOLVED"] =
          [status |-> "RESOLVED", occurrences |-> h[i].occurrences]
    BY <2>2
  <2>4. Seen(g) = s
    BY <1>1, <1>2, <1>4, <2>2, <2>3
  <2>1. Seen(g) = [Seen(h) EXCEPT ![Len(h)].status = "RESOLVED"]
    BY <1>1, <2>4, Zenon
  <2> QED
    BY <1>1, <2>1 DEF OneStep, g
<1> QED
  BY <1>3, <1>4

-------------------------------------------------------------------------------
(***************************************************************************)
(* What a step of worker w leaves alone.                                   *)
(***************************************************************************)
WorkerActs(w) == WorkerStep(w) \/ Abort(w)

\* The program state of another worker u.
StateKept(u) ==
  /\ pc'[u] = pc[u] /\ stage'[u] = stage[u] /\ at'[u] = at[u] /\ todo'[u] = todo[u]
  /\ key'[u] = key[u] /\ cand'[u] = cand[u] /\ verdict'[u] = verdict[u]
  /\ written'[u] = written[u] /\ lost'[u] = lost[u]

\* What worker u holds of the database, and what is committed of the keys w does not hold.
HoldingsKept(w, u) ==
  /\ stored \subseteq stored'
  /\ \A k \in Keys :
       /\ owner'[k] = u <=> owner[k] = u
       /\ ruleOwner'[k] = u <=> ruleOwner[k] = u
       /\ owner[k] = u => working'[k] = working[k]
       /\ owner[k] # w => committed'[k] = committed[k]

LEMMA OthersState ==
  ASSUME TypeOK, NEW w \in Workers, NEW u \in Workers, u # w, WorkerActs(w)
  PROVE  StateKept(u)
<1> USE DEF dbVars, workerVars, Goto, Exit, Discard, TypeOK, StateKept
<1>1. ASSUME NEW s, BeginStage(w, s) PROVE StateKept(u)
  BY <1>1 DEF BeginStage
<1>2. ASSUME TakeResult(w) PROVE StateKept(u)
  BY <1>2 DEF TakeResult
<1>3. ASSUME Insert(w) PROVE StateKept(u)
  BY <1>3 DEF Insert
<1>4. ASSUME SelectActive(w) PROVE StateKept(u)
  BY <1>4 DEF SelectActive
<1>5. ASSUME Observe(w) PROVE StateKept(u)
  BY <1>5 DEF Observe
<1>6. ASSUME Resolve(w) PROVE StateKept(u)
  BY <1>6 DEF Resolve
<1>7. ASSUME AnalyzeSucceeds(w) \/ AnalyzeFails(w) \/ EndStage(w) \/ SkipStage(w)
      PROVE  StateKept(u)
  BY <1>7 DEF AnalyzeSucceeds, AnalyzeFails, EndStage, SkipStage
<1>8. ASSUME Commit(w) PROVE StateKept(u)
  BY <1>8 DEF Commit
<1>9. ASSUME Abort(w) PROVE StateKept(u)
  BY <1>9 DEF Abort
<1> QED
  BY <1>1, <1>2, <1>3, <1>4, <1>5, <1>6, <1>7, <1>8, <1>9 DEF WorkerActs, WorkerStep

LEMMA OthersHoldings ==
  ASSUME TypeOK, NEW w \in Workers, NEW u \in Workers, u # w, WorkerActs(w)
  PROVE  HoldingsKept(w, u)
<1> USE DEF dbVars, Discard, HoldingsKept
<1>1. ASSUME UNCHANGED dbVars PROVE HoldingsKept(w, u)
  BY <1>1
<1>2. ASSUME TakeResult(w) PROVE HoldingsKept(w, u)
  <2>1. PICK k \in todo[w] :
          /\ RuleFree(w, k)
          /\ ruleOwner' = IF k \in DriftKeys /\ ~lost[w]
                          THEN [ruleOwner EXCEPT ![k] = w] ELSE ruleOwner
    BY <1>2 DEF TakeResult
  <2>2. \A j \in Keys : ruleOwner'[j] = u <=> ruleOwner[j] = u
    BY <2>1, WorkerAssumption DEF RuleFree, TypeOK
  <2> QED
    BY <1>2, <2>2 DEF TakeResult
<1>3. ASSUME Free(w, key[w]), NEW h, Write(w, key[w], h), UNCHANGED <<committed, ruleOwner, stored>>
      PROVE  HoldingsKept(w, u)
  <2>1. key[w] \in Keys
    BY DEF TypeOK
  <2>2. \A j \in Keys : j # key[w] => working'[j] = working[j] /\ owner'[j] = owner[j]
    BY <1>3 DEF Write, TypeOK
  <2>3. owner'[key[w]] = w /\ owner[key[w]] \in {NoWorker, w}
    BY <1>3, <2>1 DEF Write, TypeOK, Free
  <2> QED
    BY <1>3, <2>2, <2>3, WorkerAssumption
<1>4. ASSUME Insert(w) PROVE HoldingsKept(w, u)
  BY <1>1, <1>3, <1>4 DEF Insert
<1>5. ASSUME Observe(w) PROVE HoldingsKept(w, u)
  BY <1>1, <1>3, <1>5 DEF Observe
<1>6. ASSUME Resolve(w) PROVE HoldingsKept(w, u)
  BY <1>1, <1>3, <1>6 DEF Resolve
<1>7. ASSUME AnalyzeFails(w) \/ Abort(w) PROVE HoldingsKept(w, u)
  BY <1>7, WorkerAssumption DEF AnalyzeFails, Abort, TypeOK
<1>8. ASSUME Commit(w) PROVE HoldingsKept(w, u)
  BY <1>8, WorkerAssumption DEF Commit, TypeOK
<1>9. ASSUME NEW s, BeginStage(w, s) PROVE UNCHANGED dbVars
  BY <1>9 DEF BeginStage
<1>10. ASSUME SelectActive(w) \/ AnalyzeSucceeds(w) \/ EndStage(w) \/ SkipStage(w)
       PROVE  UNCHANGED dbVars
  BY <1>10 DEF SelectActive, AnalyzeSucceeds, EndStage, SkipStage
<1> QED
  BY <1>1, <1>2, <1>4, <1>5, <1>6, <1>7, <1>8, <1>9, <1>10 DEF WorkerActs, WorkerStep

\* What the invariant says of a worker.
Holds(w) == Once(w) /\ Backed(w) /\ Serialised(w) /\ \A k \in Keys : Writes(w, k)

\* Whatever worker w does, the facts about another worker u stay.
LEMMA OthersHold ==
  ASSUME TInv, NEW w \in Workers, NEW u \in Workers, u # w, WorkerActs(w)
  PROVE  Holds(u)'
<1>1. StateKept(u) /\ HoldingsKept(w, u) /\ Holds(u) /\ TypeOK
      /\ \A k \in Keys : Writes(w, k)
  BY OthersState, OthersHoldings DEF TInv, IInv, Transactions, Holds
<1>2. key[u] \in Keys
  BY <1>1 DEF TypeOK
<1>3. Once(u)'
  BY <1>1, <1>2 DEF StateKept, HoldingsKept, Holds, Once
<1>4. Backed(u)'
  BY <1>1 DEF StateKept, HoldingsKept, Holds, Backed
<1>5. ASSUME ruleOwner[key[u]] = u, key[u] \in DriftKeys
      PROVE  View(u, key[u])' = View(u, key[u])
  <2>1. owner[key[u]] # w
    BY <1>1, <1>2, <1>5 DEF Writes
  <2> QED
    BY <1>1, <1>2, <2>1 DEF StateKept, HoldingsKept, View
<1>6. Serialised(u)'
  <2>1. ASSUME key[u] \in DriftKeys, ~lost[u], pc[u] \in InHand
        PROVE  ruleOwner[key[u]] = u /\ View(u, key[u])' = View(u, key[u])
    BY <1>1, <1>5, <2>1 DEF Holds, Serialised
  <2>2. pc'[u] = pc[u] /\ key'[u] = key[u] /\ cand'[u] = cand[u] /\ lost'[u] = lost[u]
        /\ (ruleOwner'[key[u]] = u <=> ruleOwner[key[u]] = u)
    BY <1>1, <1>2 DEF StateKept, HoldingsKept
  <2>3. "observe" \in InHand /\ "observeWait" \in InHand
    BY DEF InHand
  <2>4. ASSUME key[u] \in DriftKeys, ~lost[u], pc[u] \in InHand
        PROVE  ActiveRows(View(u, key[u]))' = ActiveRows(View(u, key[u]))
    BY <2>1, <2>4 DEF ActiveRows
  <2> QED
    BY <1>1, <2>1, <2>2, <2>3, <2>4 DEF Holds, Serialised
<1>7. ASSUME NEW k \in Keys PROVE Writes(u, k)'
  <2> SUFFICES ASSUME owner'[k] = u PROVE Writes(u, k)'
    BY DEF Writes
  <2>1. owner[k] = u /\ working'[k] = working[k] /\ committed'[k] = committed[k]
        /\ (ruleOwner'[k] = u <=> ruleOwner[k] = u)
    BY <1>1 DEF HoldingsKept
  <2>2. stored \cup written[u] \subseteq stored' \cup written'[u]
    BY <1>1 DEF HoldingsKept, StateKept
  <2>3. RestsOn(working[k], stored \cup written[u]) /\ OneStep(committed[k], working[k])
        /\ (k \in DriftKeys => ruleOwner[k] = u)
    BY <1>1, <2>1 DEF Holds, Writes
  <2>4. RestsOn(working[k], stored' \cup written'[u])
    BY <2>2, <2>3, RestsOnMore
  <2> QED
    BY <2>1, <2>3, <2>4 DEF Writes, RestsOn, OneStep, Seen
<1> QED
  BY <1>3, <1>4, <1>6, <1>7 DEF Holds

-------------------------------------------------------------------------------
(***************************************************************************)
(* What a step of worker w makes of the facts about w.                     *)
(***************************************************************************)
\* Who has the key's row to itself for the first time reads what is committed.
LEMMA FirstTouch ==
  ASSUME TInv, NEW w \in Workers, pc[w] \in InHand, Free(w, key[w])
  PROVE  /\ key[w] \in Keys /\ owner[key[w]] = NoWorker
         /\ View(w, key[w]) = committed[key[w]] /\ working[key[w]] = committed[key[w]]
         /\ committed[key[w]] \in Seq(Incident) /\ SoundHistory(committed[key[w]])
         /\ RestsOn(committed[key[w]], stored \cup written[w])
<1>1. key[w] \in Keys /\ committed[key[w]] \in Seq(Incident)
  BY DEF TInv, IInv, TypeOK
<1>2. owner[key[w]] # w
  BY DEF TInv, Transactions, Once
<1>3. owner[key[w]] = NoWorker
  BY <1>2 DEF Free
<1>4. working[key[w]] = committed[key[w]]
  BY <1>1, <1>3 DEF TInv, IInv, DatabaseSound, Synced
<1>5. SoundHistory(committed[key[w]])
  BY <1>1 DEF TInv, IInv, DatabaseSound, Sound
<1>6. RestsOn(committed[key[w]], stored)
  BY <1>1 DEF TInv, Transactions
<1>7. RestsOn(committed[key[w]], stored \cup written[w])
  BY <1>6, RestsOnMore
<1> QED
  BY <1>1, <1>2, <1>3, <1>4, <1>5, <1>7 DEF View

LEMMA WritesNow ==
  ASSUME NEW w, NEW k,
         owner'[k] = w => /\ RestsOn(working'[k], stored' \cup written'[w])
                          /\ OneStep(committed'[k], working'[k])
                          /\ k \in DriftKeys => ruleOwner'[k] = w
  PROVE  Writes(w, k)'
<1>1. RestsOn(working[k], stored \cup written[w])' <=> RestsOn(working'[k], stored' \cup written'[w])
  BY DEF RestsOn
<1>2. OneStep(committed[k], working[k])' <=> OneStep(committed'[k], working'[k])
  BY DEF OneStep, Seen
<1> QED
  BY <1>1, <1>2 DEF Writes

\* The worker writes the key of its result, one step after what is committed, and
\* has no result in hand any more.
LEMMA OwnWrite ==
  ASSUME TInv, NEW w \in Workers, pc[w] \in InHand, Free(w, key[w]), ~lost[w],
         NEW h, RestsOn(h, stored \cup written[w]), OneStep(committed[key[w]], h),
         Write(w, key[w], h), NEW p \in {"rca", "next"}, Goto(w, p),
         UNCHANGED <<committed, ruleOwner, stored, lineage, clock,
                     stage, at, todo, key, cand, verdict, written, lost>>
  PROVE  Holds(w)'
<1> DEFINE k == key[w]
<1>1. /\ k \in Keys /\ TypeOK /\ Once(w) /\ Backed(w) /\ Serialised(w)
      /\ \A j \in Keys : Writes(w, j)
  BY DEF TInv, IInv, TypeOK, Transactions
<1>2. /\ k \notin todo[w] /\ StageOf[k] = stage[w] /\ StageOf[k] \in Nat
      /\ pc[w] \notin {"idle", "between"}
  BY <1>1, KeyAssumption DEF Once, InHand
<1>3. /\ working'[k] = h /\ owner'[k] = w
      /\ \A j \in Keys : j # k => working'[j] = working[j] /\ owner'[j] = owner[j]
  BY <1>1 DEF Write, TypeOK
<1>4. pc'[w] = p /\ pc'[w] \notin InHand /\ pc'[w] \notin {"idle", "failed", "between"}
  BY <1>1 DEF Goto, TypeOK, InHand
<1>5. Once(w)'
  BY <1>1, <1>2, <1>3, <1>4 DEF Once
<1>6. Backed(w)'
  BY <1>1, <1>2, <1>4 DEF Backed
<1>7. Serialised(w)'
  BY <1>4 DEF Serialised, InHand
<1>8. ASSUME NEW j \in Keys PROVE Writes(w, j)'
  <2>1. CASE j = k
    <3>1. k \in DriftKeys => ruleOwner[k] = w
      BY <1>1 DEF Serialised
    <3>2. RestsOn(working'[k], stored' \cup written'[w])
      BY <1>3
    <3>3. OneStep(committed'[k], working'[k])
      BY <1>3
    <3> QED
      BY <2>1, <3>1, <3>2, <3>3, WritesNow
  <2>2. CASE j # k
    <3>1. committed'[j] = committed[j] /\ ruleOwner' = ruleOwner /\ stored' = stored
          /\ written' = written /\ working'[j] = working[j] /\ owner'[j] = owner[j]
      BY <1>3, <2>2
    <3> QED
      BY <1>1, <3>1, WritesNow DEF Writes
  <2> QED
    BY <2>1, <2>2
<1> QED
  BY <1>5, <1>6, <1>7, <1>8 DEF Holds

\* What is committed rests on committed runs, as long as neither changes.
LEMMA CommittedRests ==
  ASSUME TInv, UNCHANGED <<committed, stored>>
  PROVE  \A k \in Keys : RestsOn(committed[k], stored)'
BY DEF TInv, Transactions, RestsOn

LEMMA WritesKept ==
  ASSUME TInv, NEW w \in Workers, UNCHANGED <<committed, working, owner, stored>>,
         written[w] \subseteq written'[w],
         \A k \in Keys : ruleOwner[k] = w => ruleOwner'[k] = w
  PROVE  \A k \in Keys : Writes(w, k)'
<1> SUFFICES ASSUME NEW k \in Keys, owner[k] = w PROVE Writes(w, k)'
  BY DEF Writes
<1>1. RestsOn(working[k], stored \cup written[w]) /\ OneStep(committed[k], working[k])
      /\ (k \in DriftKeys => ruleOwner[k] = w)
  BY DEF TInv, Transactions, Writes
<1>2. RestsOn(working[k], stored \cup written'[w])
  BY <1>1, RestsOnMore
<1> QED
  BY <1>1, <1>2 DEF Writes, RestsOn, OneStep, Seen

LEMMA BeginStageHolds ==
  ASSUME TInv, NEW w \in Workers, NEW s \in {StageOf[k] : k \in Keys}, BeginStage(w, s)
  PROVE  Holds(w)'
<1>1. /\ TypeOK /\ Once(w) /\ UNCHANGED <<committed, working, owner, ruleOwner, stored>>
      /\ pc[w] \in {"idle", "between"} /\ stage[w] < s
  BY DEF TInv, IInv, Transactions, BeginStage, dbVars
<1>2. /\ pc'[w] = "next" /\ stage'[w] = s /\ at'[w] = clock + 1
      /\ todo'[w] = {k \in Keys : StageOf[k] = s}
      /\ written'[w] = written[w] \cup {clock + 1}
  BY <1>1 DEF BeginStage, TypeOK, Goto
<1>3. stage[w] \in Nat /\ s \in Nat /\ \A k \in Keys : StageOf[k] \in Nat
  BY <1>1, KeyAssumption DEF TypeOK
<1>4. Once(w)'
  BY <1>1, <1>2, <1>3 DEF Once, InHand
<1>5. Backed(w)'
  BY <1>2 DEF Backed
<1>6. Serialised(w)'
  BY <1>2 DEF Serialised, InHand
<1>7. \A k \in Keys : Writes(w, k)'
  BY <1>1, <1>2, WritesKept
<1> QED
  BY <1>4, <1>5, <1>6, <1>7 DEF Holds

LEMMA TakeResultHolds ==
  ASSUME TInv, NEW w \in Workers, TakeResult(w)
  PROVE  Holds(w)'
<1>1. /\ TypeOK /\ Once(w) /\ Backed(w) /\ pc[w] = "next"
      /\ UNCHANGED <<committed, working, owner, stored, stage, at, written, lost>>
  BY DEF TInv, IInv, Transactions, TakeResult
<1>2. PICK k \in todo[w] :
        /\ ruleOwner' = IF k \in DriftKeys /\ ~lost[w]
                        THEN [ruleOwner EXCEPT ![k] = w] ELSE ruleOwner
        /\ key' = [key EXCEPT ![w] = k]
        /\ todo' = [todo EXCEPT ![w] = @ \ {k}]
        /\ \E v \in Verdicts(k) :
             Goto(w, IF Alarms(k, v) THEN "insert"
                     ELSE IF Recovers(k, v) THEN "resolve" ELSE "next")
  BY DEF TakeResult
<1>3. k \in Keys /\ key'[w] = k /\ todo'[w] = todo[w] \ {k}
      /\ pc'[w] \in {"insert", "resolve", "next"}
  BY <1>1, <1>2 DEF TypeOK, Goto
<1>4. owner[k] # w /\ StageOf[k] = stage[w]
  BY <1>1, <1>3 DEF Once
<1>5. /\ k \in DriftKeys /\ ~lost[w] => ruleOwner'[k] = w
      /\ \A j \in Keys : ruleOwner[j] = w => ruleOwner'[j] = w
  BY <1>1, <1>2, <1>3 DEF TypeOK
<1>6. Once(w)'
  BY <1>1, <1>3, <1>4 DEF Once, InHand
<1>7. Backed(w)'
  BY <1>1, <1>3 DEF Backed
<1>8. Serialised(w)'
  BY <1>1, <1>3, <1>5 DEF Serialised
<1>9. \A j \in Keys : Writes(w, j)'
  BY <1>1, <1>5, WritesKept
<1> QED
  BY <1>6, <1>7, <1>8, <1>9 DEF Holds

\* Moving on without writing: the worker's transaction is as it was.
LEMMA MoveHolds ==
  ASSUME TInv, NEW w \in Workers, pc[w] \notin {"idle", "between"},
         UNCHANGED <<dbVars, stage, at, key, written, lost>>,
         todo'[w] \in {todo[w], {}},
         pc'[w] \in InHand => pc[w] \in InHand,
         pc'[w] # "idle", Serialised(w)'
  PROVE  Holds(w)'
<1>1. Once(w) /\ Backed(w)
  BY DEF TInv, Transactions
<1>2. Once(w)'
  BY <1>1 DEF Once, dbVars
<1>3. Backed(w)'
  BY <1>1 DEF Backed
<1>4. \A k \in Keys : Writes(w, k)'
  BY WritesKept DEF dbVars
<1> QED
  BY <1>2, <1>3, <1>4 DEF Holds

LEMMA InsertHolds ==
  ASSUME TInv, NEW w \in Workers, Insert(w)
  PROVE  Holds(w)'
<1> DEFINE k == key[w]  h == committed[k]
<1>1. /\ TypeOK /\ Once(w) /\ Serialised(w) /\ Backed(w) /\ pc[w] = "insert" /\ Free(w, k)
      /\ UNCHANGED <<committed, ruleOwner, stored, lineage, clock,
                     stage, at, todo, key, cand, verdict, written, lost>>
  BY DEF TInv, IInv, Transactions, Insert
<1>2. /\ pc[w] \in InHand /\ pc[w] \notin {"idle", "between"}
  BY <1>1 DEF InHand
<1>3. /\ k \in Keys /\ View(w, k) = h /\ working[k] = h /\ h \in Seq(Incident)
      /\ RestsOn(h, stored \cup written[w]) /\ owner[k] = NoWorker
  BY <1>1, <1>2, FirstTouch
<1>4. ASSUME Conflict(h), Goto(w, "observe"), UNCHANGED <<working, owner>>
      PROVE  Holds(w)'
  <2>1. pc'[w] = "observe" /\ pc'[w] \in InHand
    BY <1>1, <1>4 DEF Goto, TypeOK, InHand
  <2>2. View(w, k)' = h
    BY <1>1, <1>3, <1>4, WorkerAssumption DEF View
  <2>3. ActiveRows(View(w, k))' # {}
    BY <1>4, <2>2 DEF Conflict, ActiveRows
  <2>4. Serialised(w)'
    BY <1>1, <1>2, <2>1, <2>3 DEF Serialised
  <2> QED
    BY <1>1, <1>2, <1>4, <2>1, <2>4, MoveHolds DEF dbVars
<1>5. ASSUME ~Conflict(h), ~lost[w], Write(w, k, Append(h, Opened(w, k))), Goto(w, "rca")
      PROVE  Holds(w)'
  <2> DEFINE new == Opened(w, k)
             e == [type |-> "OPENED", from |-> "NONE", to |-> "OPEN", at |-> at[w]]
  <2>1. at[w] \in written[w] /\ at[w] \in Nat
    BY <1>1, <1>2, <1>5 DEF Backed, TypeOK
  <2>2. new \in Incident
    BY <1>1, <1>3, OpenedType
  <2>3. e \in Event /\ e.at = at[w]
    BY <2>1 DEF Event, IncidentEventType, IncidentStatus, Active
  <2>4. new.events = <<e>> /\ new.status = "OPEN" /\ new.occurrences = 1
    BY DEF Opened
  <2> HIDE DEF new, e
  <2>5. RestsOn(Append(h, new), stored \cup written[w])
    BY <1>3, <2>1, <2>2, <2>3, <2>4, AppendRests
  <2>6. OneStep(h, Append(h, new))
    BY <1>3, <1>5, <2>2, <2>4, OpeningIsAStep
  <2>7. Write(w, k, Append(h, new))
    BY <1>5 DEF new
  <2> DEFINE g == Append(h, new)
  <2>8. RestsOn(g, stored \cup written[w]) /\ OneStep(h, g) /\ Write(w, k, g)
    BY <2>5, <2>6, <2>7
  <2> HIDE DEF g
  <2> QED
    BY <1>1, <1>2, <1>5, <2>8, OwnWrite
<1>6. ASSUME lost[w], Goto(w, "failed"), UNCHANGED <<working, owner>>
      PROVE  Holds(w)'
  <2>1. pc'[w] = "failed" /\ pc'[w] \notin InHand
    BY <1>1, <1>6 DEF Goto, TypeOK, InHand
  <2>2. Serialised(w)'
    BY <1>1, <1>6, <2>1 DEF Serialised
  <2> QED
    BY <1>1, <1>2, <1>6, <2>1, <2>2, MoveHolds DEF dbVars
<1> QED
  BY <1>3, <1>4, <1>5, <1>6 DEF Insert

LEMMA SelectActiveHolds ==
  ASSUME TInv, NEW w \in Workers, SelectActive(w)
  PROVE  Holds(w)'
<1> DEFINE h == View(w, key[w])
<1>1. /\ TypeOK /\ Once(w) /\ Serialised(w) /\ pc[w] \in {"observe", "resolve"}
      /\ UNCHANGED <<dbVars, lineage, clock, stage, at, todo, key, verdict, written, lost>>
      /\ pc[w] \in InHand /\ pc[w] \notin {"idle", "between"}
  BY DEF TInv, IInv, Transactions, SelectActive, InHand
<1>2. ActiveRows(h)' = ActiveRows(h)
  BY <1>1 DEF View, ActiveRows, dbVars
<1>3. ASSUME NEW i \in ActiveRows(h), cand' = [cand EXCEPT ![w] = i],
             Goto(w, IF pc[w] = "observe" THEN "observeWait" ELSE "resolveWait")
      PROVE  Holds(w)'
  <2>1. pc'[w] \in {"observeWait", "resolveWait"} /\ cand'[w] = i
    BY <1>1, <1>3 DEF Goto, TypeOK
  <2>2. Serialised(w)'
    BY <1>1, <1>2, <2>1 DEF Serialised, dbVars
  <2> QED
    BY <1>1, <2>1, <2>2, MoveHolds
<1>4. ASSUME ActiveRows(h) = {}, Goto(w, IF pc[w] = "observe" THEN "failed" ELSE "next")
      PROVE  Holds(w)'
  <2>1. pc'[w] = IF pc[w] = "observe" THEN "failed" ELSE "next"
    BY <1>1, <1>4 DEF Goto, TypeOK
  <2>2. pc'[w] \notin InHand /\ pc'[w] # "idle"
    BY <2>1 DEF InHand
  <2>3. Serialised(w)'
    BY <1>1, <1>4, <2>1, <2>2 DEF Serialised, InHand
  <2> QED
    BY <1>1, <2>2, <2>3, MoveHolds
<1> QED
  BY <1>3, <1>4 DEF SelectActive

\* The update of the row under the lock.
LEMMA UpdateHolds ==
  ASSUME TInv, NEW w \in Workers, pc[w] \in InHand, Free(w, key[w]), ~lost[w],
         NEW i \in ActiveRows(View(w, key[w])), NEW new,
         new \in {Observed(w, key[w], View(w, key[w])[i]), Resolved(w, View(w, key[w])[i])},
         Write(w, key[w], [View(w, key[w]) EXCEPT ![i] = new]),
         NEW p \in {"rca", "next"}, Goto(w, p),
         UNCHANGED <<committed, ruleOwner, stored, lineage, clock,
                     stage, at, todo, key, cand, verdict, written, lost>>
  PROVE  Holds(w)'
<1> DEFINE k == key[w]
           h == committed[k]
           e == IF new = Observed(w, k, h[i])
                THEN [type |-> "OBSERVED_AGAIN", from |-> h[i].status, to |-> h[i].status,
                      at |-> at[w]]
                ELSE [type |-> "RESOLVED", from |-> h[i].status, to |-> "RESOLVED",
                      at |-> at[w]]
           g == [h EXCEPT ![i] = new]
<1>1. /\ k \in Keys /\ View(w, k) = h /\ working[k] = h /\ h \in Seq(Incident)
      /\ SoundHistory(h) /\ RestsOn(h, stored \cup written[w]) /\ TypeOK
  BY FirstTouch DEF TInv, IInv
<1>2. at[w] \in written[w] /\ at[w] \in Nat
  <2>1. Backed(w) /\ TypeOK
    BY DEF TInv, IInv, Transactions
  <2> QED
    BY <2>1 DEF Backed, InHand, TypeOK
<1> HIDE DEF h
<1>3. /\ i \in ActiveRows(h) /\ i \in DOMAIN h /\ h[i] \in Incident /\ h[i].status \in Active
  BY <1>1 DEF ActiveRows
<1>4. new \in {Observed(w, k, h[i]), Resolved(w, h[i])}
  BY <1>1
<1>5. new \in Incident
  BY <1>1, <1>3, <1>4, UpdatedType
<1>6. e \in Event /\ e.at = at[w]
  BY <1>2, <1>3 DEF Event, IncidentEventType, IncidentStatus, Active
<1>7. /\ new.events = Append(h[i].events, e)
      /\ \/ new.status = h[i].status /\ new.occurrences = h[i].occurrences + 1
         \/ new.status = "RESOLVED" /\ new.occurrences = h[i].occurrences
  BY <1>3, <1>4 DEF Observed, Resolved, Incident
<1> HIDE DEF e
<1>8. RestsOn(g, stored \cup written[w])
  BY <1>1, <1>2, <1>3, <1>5, <1>6, <1>7, UpdateRests
<1>9. OneStep(h, g)
  BY <1>1, <1>3, <1>5, <1>7, UpdateIsAStep
<1>10. Write(w, k, g)
  BY <1>1
<1> HIDE DEF g
<1> QED
  BY <1>8, <1>9, <1>10, OwnWrite DEF h

LEMMA ObserveHolds ==
  ASSUME TInv, NEW w \in Workers, Observe(w)
  PROVE  Holds(w)'
<1> DEFINE k == key[w]  h == View(w, k)
<1>1. /\ TypeOK /\ Serialised(w) /\ pc[w] = "observeWait" /\ pc[w] \in InHand /\ Free(w, k)
      /\ UNCHANGED <<committed, ruleOwner, stored, lineage, clock,
                     stage, at, todo, key, cand, verdict, written, lost>>
  BY DEF TInv, IInv, Transactions, Observe, InHand
<1>2. ASSUME cand[w] \in ActiveRows(h), ~lost[w], Goto(w, "rca"),
             Write(w, k, [h EXCEPT ![cand[w]] = Observed(w, k, h[cand[w]])])
      PROVE  Holds(w)'
  BY <1>1, <1>2, UpdateHolds
<1>3. ASSUME cand[w] \notin ActiveRows(h) \/ lost[w], Goto(w, "failed"),
             UNCHANGED <<working, owner>>
      PROVE  Holds(w)'
  <2>1. pc'[w] = "failed" /\ pc'[w] \notin InHand
    BY <1>1, <1>3 DEF Goto, TypeOK, InHand
  <2>2. Serialised(w)'
    BY <1>1, <1>3, <2>1 DEF Serialised
  <2> QED
    BY <1>1, <1>3, <2>1, <2>2, MoveHolds DEF dbVars
<1> QED
  BY <1>2, <1>3 DEF Observe

LEMMA ResolveHolds ==
  ASSUME TInv, NEW w \in Workers, Resolve(w)
  PROVE  Holds(w)'
<1> DEFINE k == key[w]  h == View(w, k)
<1>1. /\ TypeOK /\ Serialised(w) /\ pc[w] = "resolveWait" /\ pc[w] \in InHand /\ Free(w, k)
      /\ UNCHANGED <<committed, ruleOwner, stored, lineage, clock,
                     stage, at, todo, key, cand, verdict, written, lost>>
  BY DEF TInv, IInv, Transactions, Resolve, InHand
<1>2. ASSUME cand[w] \in ActiveRows(h), ~lost[w], Goto(w, "next"),
             Write(w, k, [h EXCEPT ![cand[w]] = Resolved(w, h[cand[w]])])
      PROVE  Holds(w)'
  BY <1>1, <1>2, UpdateHolds
<1>3. ASSUME UNCHANGED <<working, owner>>, NEW p \in {"next", "failed"}, Goto(w, p),
             p = "failed" => lost[w]
      PROVE  Holds(w)'
  <2>1. pc'[w] = p /\ pc'[w] \notin InHand /\ pc'[w] # "idle"
    BY <1>1, <1>3 DEF Goto, TypeOK, InHand
  <2>2. Serialised(w)'
    BY <1>1, <1>3, <2>1 DEF Serialised, InHand
  <2> QED
    BY <1>1, <1>3, <2>1, <2>2, MoveHolds DEF dbVars
<1> QED
  BY <1>2, <1>3 DEF Resolve

LEMMA LoopHolds ==
  ASSUME TInv, NEW w \in Workers, AnalyzeSucceeds(w) \/ EndStage(w) \/ SkipStage(w)
  PROVE  Holds(w)'
<1>1. /\ TypeOK /\ pc[w] \in {"rca", "next", "failed"}
      /\ pc'[w] \in {"next", "between"} /\ todo'[w] \in {todo[w], {}}
      /\ UNCHANGED <<dbVars, stage, at, key, written, lost>>
  BY DEF TInv, IInv, TypeOK, AnalyzeSucceeds, EndStage, SkipStage, Goto
<1>2. Serialised(w)'
  BY <1>1 DEF Serialised, InHand
<1> QED
  BY <1>1, <1>2, MoveHolds DEF InHand

\* After a rollback or a commit the worker holds nothing.
LEMMA ReleaseHolds ==
  ASSUME TInv, NEW w \in Workers, AnalyzeFails(w) \/ Commit(w) \/ Abort(w)
  PROVE  Holds(w)'
<1>1. TypeOK /\ Once(w)
  BY DEF TInv, IInv, Transactions
<1>2. \A k \in Keys : owner'[k] # w /\ ruleOwner'[k] # w
  <2>1. /\ owner' = [k \in Keys |-> IF owner[k] = w THEN NoWorker ELSE owner[k]]
        /\ ruleOwner' = [k \in Keys |-> IF ruleOwner[k] = w THEN NoWorker ELSE ruleOwner[k]]
    BY DEF AnalyzeFails, Commit, Abort, Discard
  <2> QED
    BY <2>1, WorkerAssumption
<1>3. \/ pc'[w] = "next" /\ todo'[w] = todo[w] /\ stage' = stage /\ lost'[w]
      \/ pc'[w] = "idle" /\ todo'[w] = {}
  BY <1>1 DEF TypeOK, AnalyzeFails, Commit, Abort, Exit, Goto
<1>4. Once(w)'
  BY <1>1, <1>2, <1>3 DEF Once, InHand
<1>5. Backed(w)' /\ Serialised(w)' /\ \A k \in Keys : Writes(w, k)'
  BY <1>2, <1>3 DEF Backed, Serialised, InHand, Writes
<1> QED
  BY <1>4, <1>5 DEF Holds

\* A step of w keeps the facts about w.
LEMMA OwnHold ==
  ASSUME TInv, NEW w \in Workers, WorkerActs(w)
  PROVE  Holds(w)'
BY BeginStageHolds, TakeResultHolds, InsertHolds, SelectActiveHolds, ObserveHolds, ResolveHolds,
   LoopHolds, ReleaseHolds DEF WorkerActs, WorkerStep

\* And what it commits rests on the runs it commits.
LEMMA ActsRest ==
  ASSUME TInv, NEW w \in Workers, WorkerActs(w)
  PROVE  \A k \in Keys : RestsOn(committed[k], stored)'
<1>1. CASE Commit(w)
  <2> SUFFICES ASSUME NEW k \in Keys PROVE RestsOn(committed'[k], stored')
    BY DEF RestsOn
  <2>1. stored' = stored \cup written[w] /\ committed'[k] = IF owner[k] = w THEN working[k] ELSE committed[k]
    BY <1>1 DEF Commit, TInv, IInv, TypeOK
  <2>2. CASE owner[k] = w
    BY <2>1, <2>2 DEF TInv, Transactions, Writes
  <2>3. CASE owner[k] # w
    <3>1. RestsOn(committed[k], stored) /\ stored \subseteq stored'
      BY <2>1 DEF TInv, Transactions
    <3> QED
      BY <2>1, <2>3, <3>1, RestsOnMore
  <2> QED
    BY <2>2, <2>3
<1>2. CASE ~Commit(w)
  <2>1. UNCHANGED <<committed, stored>>
    BY <1>2 DEF WorkerActs, WorkerStep, BeginStage, TakeResult, Insert, SelectActive, Observe,
                Resolve, AnalyzeSucceeds, AnalyzeFails, EndStage, SkipStage, Abort, dbVars
  <2> QED
    BY <2>1, CommittedRests
<1> QED
  BY <1>1, <1>2

-------------------------------------------------------------------------------
(***************************************************************************)
(* The invariant.                                                          *)
(***************************************************************************)
\* An operator acknowledges an incident that no transaction holds.
LEMMA AcknowledgeTransactions ==
  ASSUME TInv, NEW k \in Keys, NEW i \in DOMAIN committed[k], Acknowledge(k, i)
  PROVE  Transactions'
<1> DEFINE h == committed[k]
           g == [h EXCEPT ![i] = Acknowledged(h[i])]
           e == [type |-> "ACKNOWLEDGED", from |-> "OPEN", to |-> "ACKNOWLEDGED", at |-> 0]
<1>1. /\ TypeOK /\ h \in Seq(Incident) /\ owner[k] = NoWorker
      /\ i \in DOMAIN h /\ h[i].status = "OPEN" /\ RestsOn(h, stored)
  BY DEF TInv, IInv, TypeOK, Transactions, Acknowledge
<1>2. /\ committed' = [committed EXCEPT ![k] = g]
      /\ \A j \in Keys : j # k => committed'[j] = committed[j] /\ working'[j] = working[j]
      /\ committed'[k] = g
      /\ UNCHANGED <<owner, ruleOwner, stored, pc, stage, at, todo, key, cand, verdict, written, lost>>
  BY <1>1 DEF Acknowledge, TypeOK, workerVars
<1>3. h[i] \in Incident
  BY <1>1
<1>4. Acknowledged(h[i]) \in Incident /\ Acknowledged(h[i]).events = Append(h[i].events, e)
      /\ Acknowledged(h[i]).status = "ACKNOWLEDGED"
  BY <1>3, AcknowledgedType DEF Acknowledged, Incident
<1>5. e \in Event /\ e.at = 0
  BY DEF Event, IncidentEventType, IncidentStatus, Active
<1>6. RestsOn(g, stored)
  <2> DEFINE new == Acknowledged(h[i])
  <2> HIDE DEF e, new, h
  <2> QED
    BY <1>1, <1>4, <1>5, UpdateRests DEF new
<1>7. ActiveRows(g) = ActiveRows(h)
  <2> DEFINE new == Acknowledged(h[i])
  <2>1. DOMAIN g = DOMAIN h /\ g[i] = new /\ \A j \in DOMAIN h : j # i => g[j] = h[j]
    BY <1>1
  <2>2. new.status \in Active /\ h[i].status \in Active
    BY <1>1, <1>4 DEF Active
  <2> HIDE DEF g, new
  <2> QED
    BY <2>1, <2>2 DEF ActiveRows
<1> HIDE DEF g, h
<1>8. ASSUME NEW u \in Workers PROVE Holds(u)'
  <2>1. Holds(u) /\ key[u] \in Keys
    BY DEF TInv, IInv, TypeOK, Transactions, Holds
  <2>2. Once(u)' /\ Backed(u)'
    BY <1>2, <2>1 DEF Holds, Once, Backed
  <2>3. ActiveRows(View(u, key[u]))' = ActiveRows(View(u, key[u]))
    <3>1. CASE key[u] = k
      <4>1. View(u, key[u]) = h /\ View(u, key[u])' = g
        BY <1>1, <1>2, <3>1, WorkerAssumption DEF View, h
      <4> QED
        BY <1>7, <4>1 DEF ActiveRows
    <3>2. CASE key[u] # k
      <4>1. View(u, key[u])' = View(u, key[u])
        BY <1>2, <2>1, <3>2 DEF View
      <4> QED
        BY <4>1 DEF ActiveRows
    <3> QED
      BY <3>1, <3>2
  <2>4. Serialised(u)'
    BY <1>2, <2>1, <2>3 DEF Holds, Serialised
  <2>5. ASSUME NEW j \in Keys PROVE Writes(u, j)'
    <3>1. CASE j = k
      BY <1>1, <1>2, <3>1, WorkerAssumption DEF Writes
    <3>2. CASE j # k
      BY <1>2, <2>1, <3>2, WritesNow DEF Holds, Writes
    <3> QED
      BY <3>1, <3>2
  <2> QED
    BY <2>2, <2>4, <2>5 DEF Holds
<1>9. ASSUME NEW j \in Keys PROVE RestsOn(committed[j], stored)'
  <2>1. RestsOn(committed'[j], stored')
    <3>1. RestsOn(committed[j], stored)
      BY DEF TInv, Transactions
    <3> QED
      BY <1>2, <1>6, <3>1
  <2> QED
    BY <2>1 DEF RestsOn
<1> QED
  BY <1>8, <1>9 DEF Transactions, Holds

LEMMA InitTInv == Init => TInv
<1> SUFFICES ASSUME Init PROVE Transactions
  BY InitIInv DEF TInv
<1>1. ASSUME NEW w \in Workers PROVE Holds(w)
  BY <1>1, WorkerAssumption DEF Init, Holds, Once, Backed, Serialised, Writes, InHand
<1>2. \A k \in Keys : RestsOn(committed[k], stored)
  BY DEF Init, RestsOn
<1> QED
  BY <1>1, <1>2 DEF Transactions, Holds

LEMMA NextTInv == TInv /\ [Next]_vars => TInv'
<1> SUFFICES ASSUME TInv, [Next]_vars PROVE Transactions'
  BY NextIInv DEF TInv
<1>1. ASSUME NEW w \in Workers, WorkerActs(w) PROVE Transactions'
  <2>1. \A u \in Workers : Holds(u)'
    BY <1>1, OwnHold, OthersHold
  <2>2. \A k \in Keys : RestsOn(committed[k], stored)'
    BY <1>1, ActsRest
  <2> QED
    BY <2>1, <2>2 DEF Transactions, Holds
<1>2. ASSUME NEW k \in Keys, NEW i \in DOMAIN committed[k], Acknowledge(k, i)
      PROVE  Transactions'
  BY <1>2, AcknowledgeTransactions
<1>3. CASE UNCHANGED <<dbVars, workerVars>>
  <2>1. \A w \in Workers : (Once(w) <=> Once(w)') /\ (Backed(w) <=> Backed(w)')
    BY <1>3 DEF Once, Backed, dbVars, workerVars
  <2>2. \A w \in Workers : Serialised(w) <=> Serialised(w)'
    BY <1>3 DEF Serialised, View, ActiveRows, dbVars, workerVars
  <2>3. \A w \in Workers : \A k \in Keys : Writes(w, k)'
    BY <1>3, WritesNow DEF TInv, Transactions, Writes, dbVars, workerVars
  <2>4. \A k \in Keys : RestsOn(committed[k], stored)'
    BY <1>3, CommittedRests DEF dbVars
  <2> QED
    BY <2>1, <2>2, <2>3, <2>4 DEF TInv, Transactions
<1>4. ASSUME NEW g \in Lineages, SeedLineage(g) PROVE UNCHANGED <<dbVars, workerVars>>
  BY <1>4 DEF SeedLineage
<1>5. CASE UNCHANGED vars
  BY <1>3, <1>5 DEF vars, dbVars, workerVars
<1> QED
  BY <1>1, <1>2, <1>3, <1>4, <1>5 DEF Next, WorkerActs

\* The facts about transactions hold in every reachable state.
THEOREM TransactionInvariant == Spec => []TInv
BY InitTInv, NextTInv, PTL DEF Spec

\* A committed incident rests only on committed evaluation runs, although an analysis that
\* fails rolls back the run and everything else its transaction wrote.
THEOREM EvidencePersistedHolds == Spec => []EvidencePersisted
<1>1. TInv => EvidencePersisted
  BY DEF TInv, Transactions, RestsOn, EvidencePersisted
<1> QED
  BY <1>1, TransactionInvariant, PTL

\* The update of the drift rule's row serialises the processes: a drift alarm fails to be
\* recorded only after its evaluation run was rolled back.
THEOREM DriftFailureIsRecordedHolds == Spec => []DriftFailureIsRecorded
<1>1. TInv => DriftFailureIsRecorded
  BY DEF TInv, Transactions, Serialised, DriftFailureIsRecorded
<1> QED
  BY <1>1, TransactionInvariant, PTL

-------------------------------------------------------------------------------
(***************************************************************************)
(* What readers see is the contract.                                       *)
(***************************************************************************)
ContractStep(k) ==
  \/ Abstracted'[k] = Abstracted[k]
  \/ Contract!Open(k) \/ Contract!ObserveAgain(k) \/ Contract!Acknowledge(k) \/ Contract!Resolve(k)

LEMMA AbstractedIsSeen ==
  ASSUME NEW k \in Keys
  PROVE  Abstracted[k] = Seen(committed[k]) /\ Abstracted'[k] = Seen(committed'[k])
BY DEF Abstracted, Seen

\* The contract's newest incident is the code's active row.
LEMMA LiveIsActive ==
  ASSUME TypeOK, NEW k \in Keys
  PROVE  /\ Contract!Live(k) <=>
              committed[k] # <<>> /\ committed[k][Len(committed[k])].status \in Active
         /\ Len(Abstracted[k]) = Len(committed[k])
         /\ committed[k] # <<>> =>
              Abstracted[k][Len(committed[k])].status = committed[k][Len(committed[k])].status
<1> DEFINE h == committed[k]
<1>1. h \in Seq(Incident)
  BY DEF TypeOK
<1>2. Abstracted[k] = Seen(h)
  BY AbstractedIsSeen
<1> HIDE DEF h
<1>3. Len(h) \in Nat /\ DOMAIN h = 1..Len(h) /\ (h # <<>> <=> Len(h) # 0)
  BY <1>1
<1>4. /\ Len(Seen(h)) = Len(h) /\ Seen(h) \in Seq([status : IncidentStatus, occurrences : Nat])
      /\ \A i \in DOMAIN h : Seen(h)[i].status = h[i].status
  BY <1>1, SeenFacts
<1>5. Seen(h) # <<>> <=> Len(Seen(h)) # 0
  BY <1>4
<1> QED
  BY <1>2, <1>3, <1>4, <1>5 DEF Contract!Live, Active, h

\* At most one step of a history is a step of the contract.
LEMMA OneStepIsContract ==
  ASSUME TypeOK, NEW k \in Keys, OneStep(committed[k], committed'[k])
  PROVE  ContractStep(k)
<1> DEFINE h == committed[k]  g == committed'[k]
<1>1. /\ Abstracted[k] = Seen(h) /\ Abstracted'[k] = Seen(g)
      /\ Contract!Live(k) <=> h # <<>> /\ h[Len(h)].status \in Active
      /\ Len(Abstracted[k]) = Len(h)
  BY AbstractedIsSeen, LiveIsActive
<1> HIDE DEF h, g
<1>2. CASE Seen(g) = Seen(h)
  BY <1>1, <1>2 DEF ContractStep
<1>3. CASE ~Contract!Live(k) /\ Seen(g) = Append(Seen(h), [status |-> "OPEN", occurrences |-> 1])
  BY <1>1, <1>3, Zenon DEF ContractStep, Contract!Open
<1>4. CASE Contract!Live(k) /\ Seen(g) = [Seen(h) EXCEPT ![Len(h)].occurrences = @ + 1]
  BY <1>1, <1>4, Zenon DEF ContractStep, Contract!ObserveAgain
<1>5. CASE Contract!Live(k) /\ Seen(g) = [Seen(h) EXCEPT ![Len(h)].status = "RESOLVED"]
  BY <1>1, <1>5, Zenon DEF ContractStep, Contract!Resolve
<1> QED
  BY <1>1, <1>2, <1>3, <1>4, <1>5 DEF OneStep, h, g

LEMMA AcknowledgeIsContract ==
  ASSUME TInv, NEW k \in Keys, NEW i \in DOMAIN committed[k], Acknowledge(k, i)
  PROVE  \A j \in Keys : ContractStep(j)
<1> DEFINE h == committed[k]
           new == Acknowledged(h[i])
           g == [h EXCEPT ![i] = new]
<1>1. /\ TypeOK /\ h \in Seq(Incident) /\ SoundHistory(h) /\ i \in DOMAIN h /\ h[i].status = "OPEN"
      /\ h[i] \in Incident
  BY DEF TInv, IInv, TypeOK, DatabaseSound, Sound, Acknowledge
<1>2. /\ committed'[k] = g
      /\ \A j \in Keys : j # k => committed'[j] = committed[j]
  BY <1>1 DEF Acknowledge, TypeOK
<1>3. i \in ActiveRows(h) /\ new.status = "ACKNOWLEDGED" /\ new.occurrences = h[i].occurrences
  BY <1>1 DEF ActiveRows, Active, Acknowledged, Incident
<1>4. i = Len(h) /\ h # <<>>
  BY <1>1, <1>3, ActiveIsNewest
<1>5. DOMAIN g = DOMAIN h /\ g[i] = new /\ \A j \in DOMAIN h : j # i => g[j] = h[j]
  BY <1>1
<1>6. /\ Abstracted[k] = Seen(h) /\ Abstracted'[k] = Seen(g) /\ Len(Abstracted[k]) = i
      /\ Contract!Live(k) /\ Abstracted[k][i].status = "OPEN"
  BY <1>1, <1>2, <1>3, <1>4, AbstractedIsSeen, LiveIsActive DEF ActiveRows
<1> HIDE DEF g, new, h
<1>7. /\ DOMAIN Seen(h) = DOMAIN h
      /\ Seen(h)[i] = [status |-> h[i].status, occurrences |-> h[i].occurrences]
  BY <1>1 DEF Seen
<1>8. [Seen(h)[i] EXCEPT !.status = "ACKNOWLEDGED"] =
        [status |-> "ACKNOWLEDGED", occurrences |-> h[i].occurrences]
  BY <1>7
<1>9. Seen(g) = [Seen(h) EXCEPT ![i] = [Seen(h)[i] EXCEPT !.status = "ACKNOWLEDGED"]]
  BY <1>1, <1>3, <1>5, <1>7, <1>8 DEF Seen
<1>10. Seen(g) = [Seen(h) EXCEPT ![i].status = "ACKNOWLEDGED"]
  BY <1>9, Zenon
<1>11. ContractStep(k)
  BY <1>6, <1>10, Zenon DEF ContractStep, Contract!Acknowledge
<1>12. ASSUME NEW j \in Keys, j # k PROVE ContractStep(j)
  BY <1>2, <1>12, AbstractedIsSeen DEF ContractStep
<1> QED
  BY <1>11, <1>12

LEMMA StutterIsContract ==
  ASSUME committed' = committed
  PROVE  \A k \in Keys : ContractStep(k)
BY AbstractedIsSeen DEF ContractStep

LEMMA CommitIsContract ==
  ASSUME TInv, NEW w \in Workers, Commit(w)
  PROVE  \A k \in Keys : ContractStep(k)
<1> SUFFICES ASSUME NEW k \in Keys PROVE ContractStep(k)
  OBVIOUS
<1>1. TypeOK /\ committed'[k] = IF owner[k] = w THEN working[k] ELSE committed[k]
  BY DEF TInv, IInv, Commit
<1>2. CASE owner[k] = w
  <2>1. OneStep(committed[k], committed'[k])
    BY <1>1, <1>2 DEF TInv, Transactions, Writes
  <2> QED
    BY <1>1, <2>1, OneStepIsContract
<1>3. CASE owner[k] # w
  BY <1>1, <1>3, AbstractedIsSeen DEF ContractStep
<1> QED
  BY <1>2, <1>3

\* Every commit and every acknowledgement is at most one step of the contract for each
\* key it shows.
THEOREM ImplementsContractHolds == Spec => ImplementsContract
<1>1. Init => Contract!Init
  <2> SUFFICES ASSUME Init PROVE Abstracted = [k \in Keys |-> <<>>]
    BY DEF Contract!Init
  <2>1. \A k \in Keys : committed[k] = <<>>
    BY DEF Init
  <2>2. DOMAIN <<>> = {}
    OBVIOUS
  <2>3. ASSUME NEW f(_) PROVE [i \in {} |-> f(i)] = <<>>
    OBVIOUS
  <2> QED
    BY <2>1, <2>2 DEF Abstracted
<1>2. TInv /\ [Next]_vars => [Contract!Next]_Abstracted
  <2> SUFFICES ASSUME TInv, [Next]_vars PROVE Contract!Next
    OBVIOUS
  <2>1. \A k \in Keys : ContractStep(k)
    <3>1. ASSUME NEW w \in Workers, Commit(w) PROVE \A k \in Keys : ContractStep(k)
      BY <3>1, CommitIsContract
    <3>2. ASSUME NEW k \in Keys, NEW i \in DOMAIN committed[k], Acknowledge(k, i)
          PROVE  \A j \in Keys : ContractStep(j)
      BY <3>2, AcknowledgeIsContract
    <3>3. ASSUME NEW w \in Workers, WorkerActs(w), ~Commit(w) PROVE committed' = committed
      BY <3>3 DEF WorkerActs, WorkerStep, BeginStage, TakeResult, Insert, SelectActive, Observe,
                  Resolve, AnalyzeSucceeds, AnalyzeFails, EndStage, SkipStage, Abort, dbVars
    <3>4. ASSUME NEW g \in Lineages, SeedLineage(g) PROVE committed' = committed
      BY <3>4 DEF SeedLineage, dbVars
    <3>5. CASE UNCHANGED vars
      BY <3>5, StutterIsContract DEF vars
    <3> QED
      BY <3>1, <3>2, <3>3, <3>4, <3>5, StutterIsContract DEF Next, WorkerActs
  <2>2. DOMAIN Abstracted' = Keys
    BY DEF Abstracted
  <2> QED
    BY <2>1, <2>2 DEF ContractStep, Contract!Next
<1> QED
  BY <1>1, <1>2, TransactionInvariant, PTL DEF Spec, ImplementsContract, Contract!Spec

-------------------------------------------------------------------------------
(***************************************************************************)
(* One process at a time.  With a single worker the newest evaluation is   *)
(* the worker's, and everything committed is older than it.                *)
(***************************************************************************)
\* The times of history h are in order, and none is later than t.
Ordered(h, t) ==
  \A i \in DOMAIN h :
    /\ h[i].openedAt <= h[i].lastSeenAt /\ h[i].lastSeenAt <= t /\ h[i].resolvedAt <= t
    /\ h[i].status = "RESOLVED" <=> h[i].resolvedAt > h[i].lastSeenAt
    /\ \A j \in 1..(i - 1) : h[j].resolvedAt < h[i].openedAt

\* The worker's evaluation is the newest, and what it has not published is of now.
Newest(w) ==
  /\ pc[w] # "idle" => at[w] = clock /\ \A k \in Keys : Ordered(committed[k], clock - 1)
  /\ pc[w] # "idle" => clock # 0
  /\ \A k \in Keys : Ordered(committed[k], clock) /\ Ordered(working[k], clock)

SerialInv(w) == TInv /\ Newest(w)

LEMMA OrderedLater ==
  ASSUME NEW h \in Seq(Incident), NEW t \in Int, NEW u \in Int, t <= u, Ordered(h, t)
  PROVE  Ordered(h, u)
<1> SUFFICES ASSUME NEW i \in DOMAIN h
             PROVE  h[i].lastSeenAt <= u /\ h[i].resolvedAt <= u
  BY DEF Ordered
<1>1. h[i] \in Incident
  OBVIOUS
<1>2. h[i].lastSeenAt \in Nat /\ h[i].resolvedAt \in Nat
  BY <1>1 DEF Incident
<1> QED
  BY <1>2 DEF Ordered

\* An incident opened now comes after every earlier one.
LEMMA AppendOrdered ==
  ASSUME NEW h \in Seq(Incident), NEW t \in Nat, Ordered(h, t - 1),
         NEW new \in Incident, new.openedAt = t, new.lastSeenAt = t, new.resolvedAt = 0,
         new.status = "OPEN"
  PROVE  Ordered(Append(h, new), t)
<1> DEFINE g == Append(h, new)
<1>1. /\ Len(h) \in Nat /\ DOMAIN h = 1..Len(h) /\ DOMAIN g = 1..(Len(h) + 1)
      /\ g[Len(h) + 1] = new /\ \A i \in DOMAIN h : g[i] = h[i]
  OBVIOUS
<1>2. Ordered(h, t)
  BY OrderedLater
<1>3. \A i \in DOMAIN h : h[i].resolvedAt < t
  <2> SUFFICES ASSUME NEW i \in DOMAIN h PROVE h[i].resolvedAt < t
    OBVIOUS
  <2>1. h[i] \in Incident
    OBVIOUS
  <2>2. h[i].resolvedAt \in Nat
    BY <2>1 DEF Incident
  <2> QED
    BY <2>2 DEF Ordered
<1> HIDE DEF g
<1> SUFFICES ASSUME NEW i \in DOMAIN g
             PROVE  /\ g[i].openedAt <= g[i].lastSeenAt /\ g[i].lastSeenAt <= t
                    /\ g[i].resolvedAt <= t
                    /\ g[i].status = "RESOLVED" <=> g[i].resolvedAt > g[i].lastSeenAt
                    /\ \A j \in 1..(i - 1) : g[j].resolvedAt < g[i].openedAt
  BY DEF Ordered, g
<1>4. CASE i \in DOMAIN h
  <2>1. \A j \in 1..(i - 1) : g[j] = h[j]
    BY <1>1, <1>4
  <2> QED
    BY <1>1, <1>2, <1>4, <2>1 DEF Ordered
<1>5. CASE i = Len(h) + 1
  <2>1. \A j \in 1..(i - 1) : j \in DOMAIN h
    BY <1>1, <1>5
  <2> QED
    BY <1>1, <1>3, <1>5, <2>1
<1> QED
  BY <1>1, <1>4, <1>5

\* The newest incident is observed or resolved now, after all that was seen.
LEMMA UpdateOrdered ==
  ASSUME NEW h \in Seq(Incident), NEW t \in Nat, SoundHistory(h), Ordered(h, t - 1),
         NEW i \in ActiveRows(h), NEW new \in Incident, new.openedAt = h[i].openedAt,
         \/ /\ new.status = h[i].status /\ new.lastSeenAt = t
            /\ new.resolvedAt = h[i].resolvedAt
         \/ /\ new.status = "RESOLVED" /\ new.lastSeenAt = h[i].lastSeenAt
            /\ new.resolvedAt = t
  PROVE  Ordered([h EXCEPT ![i] = new], t)
<1> DEFINE g == [h EXCEPT ![i] = new]
<1>1. /\ i \in DOMAIN h /\ i = Len(h) /\ DOMAIN h = 1..Len(h) /\ Len(h) \in Nat
      /\ DOMAIN g = DOMAIN h /\ g[i] = new /\ \A j \in DOMAIN h : j # i => g[j] = h[j]
      /\ h[i].status # "RESOLVED"
  BY ActiveIsNewest DEF ActiveRows, Active
<1>2. Ordered(h, t)
  BY OrderedLater
<1>3. /\ h[i] \in Incident
  BY <1>1
<1>4. h[i].openedAt \in Nat /\ h[i].lastSeenAt \in Nat /\ h[i].resolvedAt \in Nat
  BY <1>3 DEF Incident
<1>5. h[i].openedAt <= h[i].lastSeenAt /\ h[i].lastSeenAt <= t - 1
      /\ ~(h[i].resolvedAt > h[i].lastSeenAt) /\ h[i].resolvedAt <= t - 1
      /\ \A j \in 1..(i - 1) : h[j].resolvedAt < h[i].openedAt
  BY <1>1 DEF Ordered
<1> HIDE DEF g
<1> SUFFICES ASSUME NEW n \in DOMAIN g
             PROVE  /\ g[n].openedAt <= g[n].lastSeenAt /\ g[n].lastSeenAt <= t
                    /\ g[n].resolvedAt <= t
                    /\ g[n].status = "RESOLVED" <=> g[n].resolvedAt > g[n].lastSeenAt
                    /\ \A j \in 1..(n - 1) : g[j].resolvedAt < g[n].openedAt
  BY DEF Ordered, g
<1>6. \A j \in 1..(n - 1) : g[j] = h[j]
  BY <1>1
<1>7. CASE n # i
  BY <1>1, <1>2, <1>6, <1>7 DEF Ordered
<1>8. CASE n = i
  BY <1>1, <1>4, <1>5, <1>6, <1>8
<1> QED
  BY <1>7, <1>8

LEMMA AcknowledgeOrdered ==
  ASSUME NEW h \in Seq(Incident), NEW t, Ordered(h, t), NEW i \in DOMAIN h,
         h[i].status = "OPEN"
  PROVE  Ordered([h EXCEPT ![i] = Acknowledged(h[i])], t)
<1> DEFINE new == Acknowledged(h[i])
           g == [h EXCEPT ![i] = new]
<1>1. /\ DOMAIN h = 1..Len(h) /\ Len(h) \in Nat
      /\ DOMAIN g = DOMAIN h /\ g[i] = new /\ \A j \in DOMAIN h : j # i => g[j] = h[j]
  OBVIOUS
<1>2. h[i] \in Incident
  OBVIOUS
<1>3. /\ new.status = "ACKNOWLEDGED" /\ new.openedAt = h[i].openedAt
      /\ new.lastSeenAt = h[i].lastSeenAt /\ new.resolvedAt = h[i].resolvedAt
  BY <1>2 DEF Acknowledged, Incident
<1> HIDE DEF g, new
<1>4. \A n \in DOMAIN g : /\ g[n].openedAt = h[n].openedAt /\ g[n].lastSeenAt = h[n].lastSeenAt
                          /\ g[n].resolvedAt = h[n].resolvedAt
                          /\ g[n].status = "RESOLVED" <=> h[n].status = "RESOLVED"
  BY <1>1, <1>3
<1>5. \A n \in DOMAIN g : \A j \in 1..(n - 1) : j \in DOMAIN g
  BY <1>1
<1>6. Ordered(g, t)
  BY <1>1, <1>4, <1>5 DEF Ordered
<1> QED
  BY <1>6 DEF g, new

\* Writing a history whose times are in order, with no later change of the clock.
LEMMA WriteNewest ==
  ASSUME NEW w \in Workers, SerialInv(w), pc[w] # "idle", NEW k \in Keys, NEW h,
         Ordered(h, clock), Write(w, k, h), UNCHANGED <<committed, clock, at>>,
         pc'[w] # "idle"
  PROVE  Newest(w)'
<1>1. working'[k] = h /\ \A j \in Keys : j # k => working'[j] = working[j]
  BY DEF SerialInv, TInv, IInv, TypeOK, Write
<1>2. \A j \in Keys : Ordered(working'[j], clock) /\ Ordered(committed'[j], clock')
                      /\ Ordered(committed'[j], clock' - 1)
  BY <1>1 DEF SerialInv, Newest
<1> QED
  BY <1>2 DEF SerialInv, Newest, Ordered

\* A step that touches neither the database nor the clock.
LEMMA MoveNewest ==
  ASSUME NEW w \in Workers, SerialInv(w), UNCHANGED <<committed, working, clock, at>>,
         pc'[w] # "idle" => pc[w] # "idle"
  PROVE  Newest(w)'
BY DEF SerialInv, Newest, Ordered

LEMMA InsertNewest ==
  ASSUME NEW w \in Workers, SerialInv(w), Insert(w)
  PROVE  Newest(w)'
<1> DEFINE k == key[w]  h == committed[k]  new == Opened(w, k)
<1>1. /\ TypeOK /\ TInv /\ pc[w] = "insert" /\ pc[w] \in InHand /\ Free(w, k)
      /\ UNCHANGED <<committed, clock, at>>
      /\ at[w] = clock /\ clock \in Nat /\ \A j \in Keys : Ordered(committed[j], clock - 1)
  BY DEF SerialInv, TInv, IInv, TypeOK, Newest, Insert, InHand
<1>2. k \in Keys /\ View(w, k) = h /\ h \in Seq(Incident)
  BY <1>1, FirstTouch
<1>3. pc'[w] # "idle"
  BY <1>1 DEF Insert, Goto, TypeOK
<1>4. new \in Incident /\ new.openedAt = clock /\ new.lastSeenAt = clock /\ new.resolvedAt = 0
      /\ new.status = "OPEN"
  BY <1>1, <1>2, OpenedType DEF Opened
<1>5. CASE UNCHANGED <<working, owner>>
  BY <1>1, <1>5, MoveNewest
<1>6. CASE Write(w, k, Append(h, new))
  <2>1. Ordered(Append(h, new), clock)
    <3> HIDE DEF new, h
    <3>1. Ordered(h, clock - 1)
      BY <1>1, <1>2 DEF h
    <3> QED
      BY <1>1, <1>2, <1>4, <3>1, AppendOrdered
  <2> DEFINE g == Append(h, new)
  <2> HIDE DEF g, k
  <2> QED
    BY <1>1, <1>2, <1>3, <1>6, <2>1, WriteNewest DEF g
<1> QED
  BY <1>2, <1>5, <1>6 DEF Insert

LEMMA UpdateNewest ==
  ASSUME NEW w \in Workers, SerialInv(w), pc[w] \in InHand, Free(w, key[w]),
         NEW i \in ActiveRows(View(w, key[w])), NEW new,
         new \in {Observed(w, key[w], View(w, key[w])[i]), Resolved(w, View(w, key[w])[i])},
         Write(w, key[w], [View(w, key[w]) EXCEPT ![i] = new]),
         UNCHANGED <<committed, clock, at>>, pc'[w] # "idle"
  PROVE  Newest(w)'
<1> DEFINE k == key[w]  h == committed[k]  g == [h EXCEPT ![i] = new]
<1>1. /\ TypeOK /\ TInv /\ pc[w] # "idle"
      /\ at[w] = clock /\ clock \in Nat /\ \A j \in Keys : Ordered(committed[j], clock - 1)
  BY DEF SerialInv, TInv, IInv, TypeOK, Newest, InHand
<1>2. k \in Keys /\ View(w, k) = h /\ h \in Seq(Incident) /\ SoundHistory(h)
  BY <1>1, FirstTouch
<1>3. Ordered(h, clock - 1)
  BY <1>1, <1>2
<1>4. Write(w, k, g) /\ i \in ActiveRows(h) /\ new \in {Observed(w, k, h[i]), Resolved(w, h[i])}
  BY <1>2
<1> HIDE DEF h
<1>5. i \in DOMAIN h /\ h[i] \in Incident
  BY <1>2, <1>4 DEF ActiveRows
<1>6. /\ new \in Incident /\ new.openedAt = h[i].openedAt
      /\ \/ /\ new.status = h[i].status /\ new.lastSeenAt = clock
            /\ new.resolvedAt = h[i].resolvedAt
         \/ /\ new.status = "RESOLVED" /\ new.lastSeenAt = h[i].lastSeenAt
            /\ new.resolvedAt = clock
  <2>1. new \in Incident
    BY <1>1, <1>2, <1>4, <1>5, UpdatedType
  <2> QED
    BY <1>1, <1>4, <1>5, <2>1 DEF Observed, Resolved, Incident
<1>7. Ordered(g, clock)
  BY <1>1, <1>2, <1>3, <1>4, <1>6, UpdateOrdered
<1> HIDE DEF g, k
<1> QED
  BY <1>1, <1>2, <1>4, <1>7, WriteNewest

LEMMA ActsNewest ==
  ASSUME NEW w \in Workers, SerialInv(w), WorkerActs(w)
  PROVE  Newest(w)'
<1>1. TypeOK /\ Newest(w) /\ clock \in Nat
  BY DEF SerialInv, TInv, IInv, TypeOK
<1>2. ASSUME NEW s, BeginStage(w, s) PROVE Newest(w)'
  <2>1. /\ clock' = clock + 1 /\ at'[w] = clock + 1 /\ committed' = committed /\ working' = working
    BY <1>1, <1>2 DEF BeginStage, dbVars, TypeOK
  <2>2. \A k \in Keys : /\ Ordered(committed[k], clock + 1) /\ Ordered(working[k], clock + 1)
                        /\ Ordered(committed[k], (clock + 1) - 1)
    <3> SUFFICES ASSUME NEW k \in Keys
                 PROVE  /\ Ordered(committed[k], clock + 1) /\ Ordered(working[k], clock + 1)
                        /\ Ordered(committed[k], (clock + 1) - 1)
      OBVIOUS
    <3>1. committed[k] \in Seq(Incident) /\ working[k] \in Seq(Incident)
      BY <1>1 DEF TypeOK
    <3>2. Ordered(committed[k], clock) /\ Ordered(working[k], clock)
      BY <1>1 DEF Newest
    <3>3. (clock + 1) - 1 = clock /\ clock <= clock + 1 /\ clock + 1 \in Int /\ clock \in Int
      BY <1>1
    <3> QED
      BY <3>1, <3>2, <3>3, OrderedLater
  <2>3. clock + 1 # 0
    BY <1>1
  <2> QED
    BY <2>1, <2>2, <2>3 DEF Newest, Ordered
<1>3. ASSUME TakeResult(w) PROVE Newest(w)'
  BY <1>3, MoveNewest DEF TakeResult
<1>4. ASSUME SelectActive(w) \/ AnalyzeSucceeds(w) \/ EndStage(w) \/ SkipStage(w)
      PROVE  Newest(w)'
  <2>1. UNCHANGED <<committed, working, clock, at>> /\ pc[w] # "idle"
    BY <1>4 DEF SelectActive, AnalyzeSucceeds, EndStage, SkipStage, dbVars
  <2> QED
    BY <2>1, MoveNewest
<1>5. ASSUME Observe(w) PROVE Newest(w)'
  <2>1. /\ pc[w] = "observeWait" /\ pc[w] \in InHand /\ Free(w, key[w])
        /\ UNCHANGED <<committed, clock, at>> /\ pc'[w] # "idle"
    BY <1>1, <1>5 DEF Observe, InHand, Goto, TypeOK
  <2>2. CASE UNCHANGED <<working, owner>>
    BY <2>1, <2>2, MoveNewest
  <2>3. CASE /\ cand[w] \in ActiveRows(View(w, key[w]))
             /\ Write(w, key[w], [View(w, key[w]) EXCEPT
                        ![cand[w]] = Observed(w, key[w], View(w, key[w])[cand[w]])])
    BY <2>1, <2>3, UpdateNewest
  <2> QED
    BY <1>5, <2>2, <2>3 DEF Observe
<1>6. ASSUME Resolve(w) PROVE Newest(w)'
  <2>1. /\ pc[w] = "resolveWait" /\ pc[w] \in InHand /\ Free(w, key[w])
        /\ UNCHANGED <<committed, clock, at>> /\ pc'[w] # "idle"
    BY <1>1, <1>6 DEF Resolve, InHand, Goto, TypeOK
  <2>2. CASE UNCHANGED <<working, owner>>
    BY <2>1, <2>2, MoveNewest
  <2>3. CASE /\ cand[w] \in ActiveRows(View(w, key[w]))
             /\ Write(w, key[w], [View(w, key[w]) EXCEPT
                        ![cand[w]] = Resolved(w, View(w, key[w])[cand[w]])])
    BY <2>1, <2>3, UpdateNewest
  <2> QED
    BY <1>6, <2>2, <2>3 DEF Resolve
<1>7. ASSUME AnalyzeFails(w) \/ Commit(w) \/ Abort(w) PROVE Newest(w)'
  <2>1. /\ \A k \in Keys : /\ committed'[k] \in {committed[k], working[k]}
                           /\ working'[k] \in {committed[k], working[k]}
        /\ clock' = clock
        /\ \/ pc'[w] = "idle"
           \/ pc[w] # "idle" /\ at' = at /\ committed' = committed
    BY <1>1, <1>7 DEF AnalyzeFails, Commit, Abort, Discard, Exit, TypeOK
  <2>2. \A k \in Keys : Ordered(committed'[k], clock) /\ Ordered(working'[k], clock)
    BY <1>1, <2>1 DEF Newest
  <2>3. pc'[w] # "idle" => /\ at'[w] = clock /\ clock # 0
                           /\ \A k \in Keys : Ordered(committed'[k], clock - 1)
    BY <1>1, <2>1 DEF Newest
  <2> QED
    BY <2>1, <2>2, <2>3 DEF Newest, Ordered
<1> QED
  BY <1>2, <1>3, <1>4, <1>5, <1>6, <1>7, InsertNewest DEF WorkerActs, WorkerStep

LEMMA SerialInvKept ==
  ASSUME NEW w, Workers = {w}, SerialInv(w), [Next]_vars
  PROVE  SerialInv(w)'
<1>1. TInv' /\ Newest(w) /\ w \in Workers
  BY NextTInv DEF SerialInv
<1>2. ASSUME NEW u \in Workers, WorkerActs(u) PROVE Newest(w)'
  BY <1>1, <1>2, ActsNewest
<1>3. ASSUME NEW k \in Keys, NEW i \in DOMAIN committed[k], Acknowledge(k, i)
      PROVE  Newest(w)'
  <2> DEFINE h == committed[k]
             g == [h EXCEPT ![i] = Acknowledged(h[i])]
  <2>1. /\ TypeOK /\ h \in Seq(Incident) /\ working[k] = h /\ h[i].status = "OPEN"
    BY <1>3 DEF SerialInv, TInv, IInv, TypeOK, DatabaseSound, Synced, Acknowledge
  <2>2. /\ committed' = [committed EXCEPT ![k] = g] /\ working' = [working EXCEPT ![k] = g]
        /\ UNCHANGED <<clock, pc, at>>
    BY <1>3, <2>1 DEF Acknowledge, workerVars
  <2>3. \A t : Ordered(h, t) => Ordered(g, t)
    BY <2>1, AcknowledgeOrdered
  <2> HIDE DEF g
  <2>4. \A j \in Keys : \/ committed'[j] = committed[j] /\ working'[j] = working[j]
                        \/ j = k /\ committed'[j] = g /\ working'[j] = g
    BY <2>1, <2>2 DEF TypeOK
  <2>5. \A j \in Keys : \A t :
           /\ Ordered(committed[j], t) => Ordered(committed'[j], t)
           /\ Ordered(committed[j], t) /\ Ordered(working[j], t) => Ordered(working'[j], t)
    BY <2>3, <2>4
  <2>6. /\ \A j \in Keys : Ordered(committed'[j], clock) /\ Ordered(working'[j], clock)
        /\ pc[w] # "idle" => at[w] = clock /\ \A j \in Keys : Ordered(committed'[j], clock - 1)
        /\ pc[w] # "idle" => clock # 0
    BY <1>1, <2>5 DEF Newest
  <2> QED
    BY <2>2, <2>6 DEF Newest, Ordered
<1>4. ASSUME UNCHANGED <<committed, working, clock, at, pc>> PROVE Newest(w)'
  BY <1>1, <1>4, MoveNewest DEF SerialInv
<1>5. ASSUME NEW g \in Lineages, SeedLineage(g)
      PROVE  UNCHANGED <<committed, working, clock, at, pc>>
  BY <1>5 DEF SeedLineage, dbVars, workerVars
<1>6. ASSUME UNCHANGED vars PROVE Newest(w)'
  BY <1>4, <1>6 DEF vars
<1>7. \/ \E u \in Workers : WorkerActs(u)
      \/ \E k \in Keys : \E i \in DOMAIN committed[k] : Acknowledge(k, i)
      \/ \E g \in Lineages : SeedLineage(g)
      \/ UNCHANGED vars
  BY DEF Next, WorkerActs
<1>8. Newest(w)'
  BY <1>2, <1>3, <1>4, <1>5, <1>6, <1>7
<1> QED
  BY <1>1, <1>8 DEF SerialInv

\* With one process at a time, as the scheduled workflow runs them, each incident is opened
\* before it is seen, resolved after it was last seen, and before the next one is opened.
THEOREM TimesInOrderHolds ==
  ASSUME NEW w, Workers = {w}
  PROVE  Spec => []TimesInOrder
<1>1. Init => SerialInv(w)
  <2> SUFFICES ASSUME Init PROVE Newest(w)
    BY InitTInv DEF SerialInv
  <2>1. pc[w] = "idle" /\ \A k \in Keys : committed[k] = <<>> /\ working[k] = <<>>
    BY DEF Init
  <2> QED
    BY <2>1 DEF Newest, Ordered
<1>2. SerialInv(w) /\ [Next]_vars => SerialInv(w)'
  BY SerialInvKept
<1>3. SerialInv(w) => TimesInOrder
  BY DEF SerialInv, Newest, Ordered, TimesInOrder
<1> QED
  BY <1>1, <1>2, <1>3, PTL DEF Spec
===============================================================================
