---------------------------- MODULE AssessmentProofs ----------------------------
(***************************************************************************)
(* What the program decides without writing is what it means, for every    *)
(* input: the verdicts of the quality rules, the statuses the pages derive *)
(* from them, the ranking of causes, the drift results, and the two        *)
(* lineage walks, which agree.                                             *)
(*                                                                         *)
(* A walk lists entries and takes turns with them in order.  Its invariant *)
(* speaks of the list with the root in front, and of the number k of turns *)
(* taken: the queue is the list from entry k + 1 on, distances rise along  *)
(* it by one at most, and all below the first k entries is listed.  The    *)
(* second walk repeats the first one turn by turn if it reads all that the *)
(* first one reaches: how long the list was after each turn determines it. *)
(* The rest asks one question, and needs the invariant only that it is one *)
(* of the inputs given; its proofs are about the operators.                *)
(***************************************************************************)
EXTENDS Assessment, FiniteData, FiniteSetTheorems, SequenceTheorems, TLAPS

Verdicts == {"PASS", "WARN", "FAIL", "ERROR", "SKIPPED"}

\* Where a list has one of the wanted verdicts: a finite set, whose size Count is.
Places(statuses, wanted) == {i \in DOMAIN statuses : statuses[i] \in wanted}

LEMMA PlacesAreFinite ==
  ASSUME NEW s \in Seq(Verdicts), NEW wanted
  PROVE  /\ Count(s, wanted) = Cardinality(Places(s, wanted))
         /\ IsFiniteSet(Places(s, wanted))
         /\ Count(s, wanted) \in Nat
         /\ Count(s, wanted) = 0 <=> Places(s, wanted) = {}
<1>1. Count(s, wanted) = Cardinality(Places(s, wanted))
  BY DEF Count, Where, Places
<1>2. IsFiniteSet(DOMAIN s)
  <2>1. DOMAIN s = 1..Len(s) /\ Len(s) \in Nat
    OBVIOUS
  <2> QED
    BY <2>1, FS_Interval
<1>3. Places(s, wanted) \in SUBSET DOMAIN s
  BY DEF Places
<1>4. IsFiniteSet(Places(s, wanted))
  BY <1>2, <1>3, FS_Subset
<1> QED
  BY <1>1, <1>4, FS_CardinalityType, FS_EmptySet

\* Verdicts that exclude one another are counted apart.
LEMMA CountAdds ==
  ASSUME NEW s \in Seq(Verdicts), NEW some, NEW others, some \cap others = {}
  PROVE  Count(s, some \cup others) = Count(s, some) + Count(s, others)
<1>1. Places(s, some \cup others) = Places(s, some) \cup Places(s, others)
  BY DEF Places
<1>2. Places(s, some) \cap Places(s, others) = {}
  BY DEF Places
<1>3. /\ IsFiniteSet(Places(s, some)) /\ IsFiniteSet(Places(s, others))
      /\ Cardinality(Places(s, some)) \in Nat /\ Cardinality(Places(s, others)) \in Nat
      /\ Count(s, some) = Cardinality(Places(s, some))
      /\ Count(s, others) = Cardinality(Places(s, others))
      /\ Count(s, some \cup others) = Cardinality(Places(s, some \cup others))
  BY PlacesAreFinite
<1>4. Cardinality(Places(s, some) \cup Places(s, others))
        = Cardinality(Places(s, some)) + Cardinality(Places(s, others))
            - Cardinality(Places(s, some) \cap Places(s, others))
  BY <1>3, FS_Union
<1>5. Cardinality(Places(s, some) \cap Places(s, others)) = 0
  BY <1>2, FS_EmptySet
<1>6. Count(s, some \cup others) = Cardinality(Places(s, some) \cup Places(s, others))
  BY <1>1, <1>3
<1> QED
  BY <1>3, <1>4, <1>5, <1>6

\* The five counts of a list of verdicts, and what Score makes of them.
LEMMA CountsOfVerdicts ==
  ASSUME NEW s \in Seq(Verdicts)
  PROVE  /\ Count(s, {"PASS"}) \in Nat /\ Count(s, {"WARN"}) \in Nat /\ Count(s, {"FAIL"}) \in Nat
         /\ Count(s, {"ERROR"}) \in Nat /\ Count(s, {"SKIPPED"}) \in Nat
         /\ Count(s, {"PASS", "WARN", "FAIL"})
              = Count(s, {"PASS"}) + Count(s, {"WARN"}) + Count(s, {"FAIL"})
         /\ Len(s) \in Nat
         /\ Len(s) = 0 => Count(s, {"PASS", "WARN", "FAIL"}) = 0
<1>1. /\ Count(s, {"PASS"}) \in Nat /\ Count(s, {"WARN"}) \in Nat /\ Count(s, {"FAIL"}) \in Nat
      /\ Count(s, {"ERROR"}) \in Nat /\ Count(s, {"SKIPPED"}) \in Nat
  BY PlacesAreFinite
<1>2. Count(s, {"WARN"} \cup {"FAIL"}) = Count(s, {"WARN"}) + Count(s, {"FAIL"})
  BY CountAdds
<1>3. Count(s, {"PASS"} \cup ({"WARN"} \cup {"FAIL"}))
        = Count(s, {"PASS"}) + Count(s, {"WARN"} \cup {"FAIL"})
  BY CountAdds
<1>4. {"PASS"} \cup ({"WARN"} \cup {"FAIL"}) = {"PASS", "WARN", "FAIL"}
  OBVIOUS
<1>5. Len(s) = 0 => Count(s, {"PASS", "WARN", "FAIL"}) = 0
  <2>1. Len(s) = 0 => Places(s, {"PASS", "WARN", "FAIL"}) = {}
    BY DEF Places
  <2> QED
    BY <2>1, PlacesAreFinite
<1>6. Len(s) \in Nat
  OBVIOUS
<1>7. Count(s, {"PASS", "WARN", "FAIL"}) = Count(s, {"PASS"} \cup ({"WARN"} \cup {"FAIL"}))
  BY <1>4
<1> QED
  BY <1>1, <1>2, <1>3, <1>5, <1>6, <1>7
-------------------------------------------------------------------------------
(***************************************************************************)
(* What is asked is one of the inputs given.                               *)
(***************************************************************************)
QuestionGiven ==
  /\ Asked("rules") => question.context \in Contexts
  /\ Asked("score") =>
       /\ question.statuses \in StatusLists \cup {<<>>}
       /\ question.status \in {"SUCCESS", "RUNNING", "FAILED"}
       /\ question.status # "SUCCESS" => question.statuses = <<>>
  /\ Asked("polls") => question.sources \in SourceSets
  /\ Asked("drift") => question.baseline \in Samples /\ question.current \in Samples
  /\ Asked("schema") => question.baseline \in Schemas /\ question.current \in Schemas

LEMMA QuestionIsGiven == Spec => []QuestionGiven
<1>1. Init => QuestionGiven
  BY DEF Init, QuestionGiven, Asked
<1>2. QuestionGiven /\ [Next]_vars => QuestionGiven'
  <2> SUFFICES ASSUME QuestionGiven, [Next]_vars PROVE QuestionGiven'
    OBVIOUS
  <2>1. question' = question => QuestionGiven'
    BY DEF QuestionGiven, Asked
  <2>2. CASE AskRules \/ AskCause
    BY <2>2 DEF AskRules, AskCause, Asks, QuestionGiven, Asked
  <2>7. CASE AskDrift \/ AskSchema
    BY <2>7 DEF AskDrift, AskSchema, Asks, QuestionGiven, Asked
  <2>3. CASE AskScore
    BY <2>3 DEF AskScore, Asks, QuestionGiven, Asked
  <2>4. CASE AskPolls
    BY <2>4 DEF AskPolls, Asks, QuestionGiven, Asked
  <2>5. CASE AskImpact
    BY <2>1, <2>5 DEF AskImpact
  <2>6. CASE UNCHANGED question
    BY <2>1, <2>6
  <2> QED
    BY <2>2, <2>3, <2>4, <2>5, <2>6, <2>7 DEF Next, vars
<1> QED
  BY <1>1, <1>2, PTL DEF Spec

LEMMA ScoreFitsStatusNow ==
  ASSUME NEW s \in Seq(Verdicts)
  PROVE  LET status == QualityStatusFromCounts(Counts(s)) IN
         /\ status \in {"PASS", "WARN", "FAIL"} => HasScore(Score(s))
         /\ status = "UNKNOWN" => ~HasScore(Score(s))
         /\ HasScore(Score(s)) /\ status # "ERROR" =>
              (status = "PASS" <=> Score(s).half = 2 * Score(s).scored)
<1> DEFINE p == Count(s, {"PASS"})
           w == Count(s, {"WARN"})
           f == Count(s, {"FAIL"})
           e == Count(s, {"ERROR"})
           all == Count(s, {"PASS", "WARN", "FAIL"})
           n == Len(s)
           status == QualityStatusFromCounts(Counts(s))
<1>1. /\ p \in Nat /\ w \in Nat /\ f \in Nat /\ e \in Nat /\ n \in Nat
      /\ all = p + w + f /\ (n = 0 => all = 0)
  BY CountsOfVerdicts
<1>2. status = IF n = 0 THEN "UNKNOWN" ELSE IF e > 0 THEN "ERROR" ELSE IF f > 0 THEN "FAIL"
               ELSE IF w > 0 THEN "WARN" ELSE IF p = 0 THEN "UNKNOWN" ELSE "PASS"
  BY DEF QualityStatusFromCounts, Counts
<1>3. Score(s).half = 2 * p + w /\ Score(s).scored = all /\ (HasScore(Score(s)) <=> all # 0)
  BY DEF Score, HasScore
<1> HIDE DEF p, w, f, e, all, n, status
<1>4. /\ status \in {"PASS", "WARN", "FAIL"} => all # 0
      /\ status = "UNKNOWN" => all = 0
      /\ all # 0 /\ status # "ERROR" => (status = "PASS" <=> 2 * p + w = 2 * all)
  BY <1>1, <1>2
<1> QED
  BY <1>3, <1>4 DEF status

LEMMA PagesDifferNow ==
  ASSUME NEW s \in Seq(Verdicts), NEW t \in {"SUCCESS", "RUNNING", "FAILED"},
         t # "SUCCESS" => s = <<>>
  PROVE  LET status == QualityStatusFromCounts(Counts(s))
             state == ReliabilityState([status |-> t, counts |-> Counts(s)])
         IN  /\ state = "PARTIAL" <=> status \in {"FAIL", "WARN"}
             /\ state = "FAILED" <=> status = "ERROR" \/ t = "FAILED"
             /\ state = "SUCCESS" <=> status = "PASS" \/ (status = "UNKNOWN" /\ t = "SUCCESS")
             /\ t # "SUCCESS" => status = "UNKNOWN" /\ ~HasScore(Score(s)) /\ state = t
<1> DEFINE p == Count(s, {"PASS"})
           w == Count(s, {"WARN"})
           f == Count(s, {"FAIL"})
           e == Count(s, {"ERROR"})
           n == Len(s)
           status == QualityStatusFromCounts(Counts(s))
           state == ReliabilityState([status |-> t, counts |-> Counts(s)])
<1>1. /\ p \in Nat /\ w \in Nat /\ f \in Nat /\ e \in Nat /\ n \in Nat
      /\ n = 0 => e = 0 /\ f = 0 /\ w = 0
  <2>1. n = 0 => \A wanted : Places(s, wanted) = {}
    BY DEF Places
  <2>2. n = 0 => e = 0 /\ f = 0 /\ w = 0
    BY <2>1, PlacesAreFinite
  <2> QED
    BY <2>2, CountsOfVerdicts
<1>2. status = IF n = 0 THEN "UNKNOWN" ELSE IF e > 0 THEN "ERROR" ELSE IF f > 0 THEN "FAIL"
               ELSE IF w > 0 THEN "WARN" ELSE IF p = 0 THEN "UNKNOWN" ELSE "PASS"
  BY DEF QualityStatusFromCounts, Counts
<1>3. state = IF e > 0 THEN "FAILED" ELSE IF f > 0 \/ w > 0 THEN "PARTIAL" ELSE t
  BY DEF ReliabilityState, Counts
<1>4. t # "SUCCESS" => n = 0
  OBVIOUS
<1>5. status = "UNKNOWN" => ~HasScore(Score(s))
  BY ScoreFitsStatusNow
<1> HIDE DEF p, w, f, e, n, status, state
<1>6. /\ state = "PARTIAL" <=> status \in {"FAIL", "WARN"}
      /\ state = "FAILED" <=> status = "ERROR" \/ t = "FAILED"
      /\ state = "SUCCESS" <=> status = "PASS" \/ (status = "UNKNOWN" /\ t = "SUCCESS")
      /\ t # "SUCCESS" => status = "UNKNOWN" /\ state = t
  BY <1>1, <1>2, <1>3, <1>4
<1> QED
  BY <1>5, <1>6 DEF state, status

-------------------------------------------------------------------------------
(***************************************************************************)
(* Readiness and the execution figures.                                    *)
(***************************************************************************)
RunsOfSource(s) ==
  /\ s.enabled \in BOOLEAN /\ IsFiniteSet(s.runs)
  /\ \A r \in s.runs : r.status \in {"RUNNING", "FAILED", "PARTIAL"} \cup Succeeded
  /\ \A r \in s.runs : r.started \in Int /\ (r.status \in Succeeded => r.finished \in Int)

Polls(s) == {r \in s.runs : r.status \in Succeeded}

\* The last poll of a source is the latest finish of its successful runs: there is exactly
\* one, if there is a run.
LEMMA LastPollIsLatest ==
  ASSUME NEW s, RunsOfSource(s)
  PROVE  /\ LastPoll(s) = {} <=> Polls(s) = {}
         /\ \A t \in LastPoll(s) : (\E r \in Polls(s) : r.finished = t)
              /\ \A r \in Polls(s) : r.finished <= t
<1> DEFINE time == [r \in Polls(s) |-> r.finished]
<1>1. IsFiniteSet(Polls(s)) /\ Polls(s) \in SUBSET s.runs
  <2>1. Polls(s) \in SUBSET s.runs
    BY DEF Polls
  <2> QED
    BY <2>1, FS_Subset DEF RunsOfSource
<1>2. LastPoll(s) = {t \in {r.finished : r \in Polls(s)} :
                       \A u \in {r.finished : r \in Polls(s)} : u <= t}
  BY DEF LastPoll, Polls
<1>3. ASSUME Polls(s) # {}
      PROVE  \E r \in Polls(s) : \A q \in Polls(s) : q.finished <= r.finished
  <2>1. \A r \in Polls(s) : time[r] = r.finished /\ time[r] \in Int
    BY DEF Polls, RunsOfSource
  <2> HIDE DEF time
  <2>2. \E r \in Polls(s) : \A q \in Polls(s) : time[q] <= time[r]
    BY <1>1, <1>3, <2>1, LatestExists
  <2> QED
    BY <2>1, <2>2
<1> QED
  BY <1>2, <1>3

LEMMA CurrentMeansPolled ==
  ASSUME NEW s, RunsOfSource(s), s.enabled, NEW now \in Int
  PROVE  PollState(s, now) = "CURRENT" <=>
           /\ \E r \in Polls(s) : r.finished >= now - MaxPollAge
           /\ \A r \in Polls(s) : r.finished <= now + Tolerance
<1>1. \A r \in Polls(s) : r.finished \in Int
  BY DEF Polls, RunsOfSource
<1>2. MaxPollAge \in Nat /\ Tolerance \in Nat
  BY AgeAssumption
<1>3. CASE Polls(s) = {}
  <2>1. LastPoll(s) = {}
    BY <1>3, LastPollIsLatest
  <2>2. PollState(s, now) = "NO_HISTORY"
    BY <2>1 DEF PollState
  <2> QED
    BY <1>3, <2>2
<1>4. CASE Polls(s) # {}
  <2>1. LastPoll(s) # {}
    BY <1>4, LastPollIsLatest
  <2>2. PollState(s, now) = "CURRENT" <=>
          \A t \in LastPoll(s) : ~(t - now > Tolerance) /\ ~(now - t > MaxPollAge)
    BY <2>1 DEF PollState
  <2>3. \A t \in LastPoll(s) : (\E r \in Polls(s) : r.finished = t)
           /\ \A r \in Polls(s) : r.finished <= t
    BY LastPollIsLatest
  <2>4. ASSUME PollState(s, now) = "CURRENT"
        PROVE  /\ \E r \in Polls(s) : r.finished >= now - MaxPollAge
               /\ \A r \in Polls(s) : r.finished <= now + Tolerance
    <3>1. PICK t \in LastPoll(s) : ~(t - now > Tolerance) /\ ~(now - t > MaxPollAge)
      BY <2>1, <2>2, <2>4
    <3>2. PICK r \in Polls(s) : r.finished = t
      BY <2>3
    <3>3. t \in Int /\ t >= now - MaxPollAge /\ t <= now + Tolerance
      BY <1>1, <1>2, <3>1, <3>2
    <3>4. \A q \in Polls(s) : q.finished <= t
      BY <2>3
    <3> QED
      BY <1>1, <1>2, <3>2, <3>3, <3>4
  <2>5. ASSUME NEW r \in Polls(s), r.finished >= now - MaxPollAge,
               \A q \in Polls(s) : q.finished <= now + Tolerance
        PROVE  PollState(s, now) = "CURRENT"
    <3> SUFFICES ASSUME NEW t \in LastPoll(s)
                 PROVE  ~(t - now > Tolerance) /\ ~(now - t > MaxPollAge)
      BY <2>2
    <3>1. r.finished <= t /\ \E q \in Polls(s) : q.finished = t
      BY <2>3
    <3>2. PICK q \in Polls(s) : q.finished = t
      BY <3>1
    <3>3. t \in Int /\ t <= now + Tolerance
      BY <1>1, <2>5, <3>2
    <3> QED
      BY <1>1, <1>2, <2>5, <3>1, <3>3
  <2> QED
    BY <2>4, <2>5
<1> QED
  BY <1>3, <1>4

LEMMA ReadyMeansPolledNow ==
  ASSUME NEW sources, \A s \in sources : RunsOfSource(s), NEW now \in Int
  PROVE  Readiness(sources, now) = "healthy" <=>
           /\ {s \in sources : s.enabled} # {}
           /\ \A s \in {s \in sources : s.enabled} :
                /\ \E r \in Polls(s) : r.finished >= now - MaxPollAge
                /\ \A r \in Polls(s) : r.finished <= now + Tolerance
<1>1. Readiness(sources, now) = "healthy" <=>
        /\ \E s \in sources : s.enabled
        /\ \A s \in sources : s.enabled => PollState(s, now) = "CURRENT"
  BY DEF Readiness
<1>2. \A s \in sources : s.enabled =>
        (PollState(s, now) = "CURRENT" <=>
           /\ \E r \in Polls(s) : r.finished >= now - MaxPollAge
           /\ \A r \in Polls(s) : r.finished <= now + Tolerance)
  BY CurrentMeansPolled
<1> QED
  BY <1>1, <1>2

\* The runs of finitely many sources are finitely many.
LEMMA RunsAreFinite ==
  ASSUME NEW sources, IsFiniteSet(sources), \A s \in sources : RunsOfSource(s)
  PROVE  IsFiniteSet(UNION {s.runs : s \in sources})
<1> DEFINE sets == {s.runs : s \in sources}
           runsOf == [s \in sources |-> s.runs]
<1>1. runsOf \in Surjection(sources, sets)
  BY DEF Surjection
<1>2. \A T \in sets : IsFiniteSet(T)
  BY DEF RunsOfSource
<1> HIDE DEF sets, runsOf
<1>3. IsFiniteSet(sets)
  BY <1>1, FS_Surjection
<1>4. IsFiniteSet(UNION sets)
  BY <1>2, <1>3, FS_UNION
<1> QED
  BY <1>4 DEF sets

LEMMA FiguresAddUpNow ==
  ASSUME NEW runs, IsFiniteSet(runs),
         \A r \in runs : r.status \in {"RUNNING", "FAILED", "PARTIAL"} \cup Succeeded, NEW now
  PROVE  /\ Execution(runs, now).runs = Execution(runs, now).successes
              + Execution(runs, now).failures
              + Cardinality({r \in Recent(runs, now) : r.status = "RUNNING"})
         /\ WindowState(runs, now) = "MEASURED" <=> Execution(runs, now).runs > 0
<1> DEFINE recent == Recent(runs, now)
           good == {r \in recent : r.status \in Succeeded}
           bad == {r \in recent : r.status \in {"FAILED", "PARTIAL"}}
           open == {r \in recent : r.status = "RUNNING"}
<1>1. IsFiniteSet(recent)
  <2>1. recent \in SUBSET runs
    BY DEF Recent
  <2> HIDE DEF recent
  <2> QED
    BY <2>1, FS_Subset
<1>2. /\ Execution(runs, now).runs = Cardinality(recent)
      /\ Execution(runs, now).failures = Cardinality(bad)
      /\ Execution(runs, now).successes = Cardinality(good)
      /\ WindowState(runs, now) = "MEASURED" <=> recent # {}
  BY DEF Execution, WindowState
<1>3. recent = (good \cup bad) \cup open
  BY DEF Recent
<1>4. good \cap bad = {} /\ (good \cup bad) \cap open = {}
  BY DEF Succeeded
<1>5. good \in SUBSET recent /\ bad \in SUBSET recent /\ open \in SUBSET recent
  OBVIOUS
<1>6. Cardinality({r \in Recent(runs, now) : r.status = "RUNNING"}) = Cardinality(open)
  OBVIOUS
<1> HIDE DEF recent, good, bad, open
<1>7. IsFiniteSet(good) /\ IsFiniteSet(bad) /\ IsFiniteSet(open)
  BY <1>1, <1>5, FS_Subset
<1>8. /\ IsFiniteSet(good \cup bad)
      /\ Cardinality(good \cup bad)
           = Cardinality(good) + Cardinality(bad) - Cardinality(good \cap bad)
  BY <1>7, FS_Union
<1>9. Cardinality((good \cup bad) \cup open)
        = Cardinality(good \cup bad) + Cardinality(open) - Cardinality((good \cup bad) \cap open)
  BY <1>7, <1>8, FS_Union
<1>10. Cardinality(good \cap bad) = 0 /\ Cardinality((good \cup bad) \cap open) = 0
  BY <1>4, FS_EmptySet
<1>11. /\ Cardinality(good) \in Nat /\ Cardinality(bad) \in Nat /\ Cardinality(open) \in Nat
       /\ Cardinality(recent) \in Nat
  BY <1>1, <1>7, FS_CardinalityType
<1>12. Cardinality(recent) = Cardinality(good) + Cardinality(bad) + Cardinality(open)
  BY <1>3, <1>8, <1>9, <1>10, <1>11
<1>13. recent # {} <=> Cardinality(recent) > 0
  BY <1>1, <1>11, FS_EmptySet
<1> QED
  BY <1>2, <1>6, <1>12, <1>13

\* The score, the readiness and the figures fit the rows they are derived from, and the two
\* pages that show an evaluation differ on it as stated and no further, whether it is complete,
\* has failed or still runs (quality.ts, reliability.ts, source-freshness.ts, scoring.py).
THEOREM ReportsFitRowsHolds == Spec => []ReportsFitRows
<1>1. QuestionGiven => ReportsFitRows
  <2> SUFFICES ASSUME QuestionGiven PROVE ReportsFitRows
    OBVIOUS
  <2>1. Asked("score") => question.statuses \in Seq(Verdicts)
    <3>1. StatusLists \subseteq Seq(Verdicts)
      BY StatusAssumption DEF Verdicts
    <3>2. <<>> \in Seq(Verdicts)
      OBVIOUS
    <3> QED
      BY <3>1, <3>2 DEF QuestionGiven
  <2>2. ScoreFitsStatus
    BY <2>1, ScoreFitsStatusNow DEF ScoreFitsStatus, ScoreAsked, StatusAsked
  <2>3. PagesDifferAsStated
    BY <2>1, PagesDifferNow
       DEF QuestionGiven, PagesDifferAsStated, StatusAsked, StateAsked, ScoreAsked
  <2>4. ASSUME Asked("polls")
        PROVE  /\ IsFiniteSet(question.sources) /\ Now \in Int
               /\ \A s \in question.sources : RunsOfSource(s)
    BY <2>4, SourceAssumption DEF QuestionGiven, RunsOfSource
  <2>5. ReadyMeansPolled
    BY <2>4, ReadyMeansPolledNow DEF ReadyMeansPolled, Polls
  <2>6. FiguresAddUp
    <3> SUFFICES ASSUME Asked("polls") PROVE FiguresAddUp
      BY DEF FiguresAddUp
    <3> DEFINE runs == UNION {s.runs : s \in question.sources}
    <3>1. IsFiniteSet(runs)
      BY <2>4, RunsAreFinite
    <3>2. \A r \in runs : r.status \in {"RUNNING", "FAILED", "PARTIAL"} \cup Succeeded
      BY <2>4 DEF RunsOfSource
    <3>3. FiguresAddUp <=>
            /\ Execution(runs, Now).runs = Execution(runs, Now).successes
                 + Execution(runs, Now).failures
                 + Cardinality({r \in Recent(runs, Now) : r.status = "RUNNING"})
            /\ WindowState(runs, Now) = "MEASURED" <=> Execution(runs, Now).runs > 0
      BY DEF FiguresAddUp
    <3> HIDE DEF runs
    <3> QED
      BY <3>1, <3>2, <3>3, FiguresAddUpNow
  <2> QED
    BY <2>2, <2>3, <2>5, <2>6 DEF ReportsFitRows
<1> QED
  BY <1>1, QuestionIsGiven, PTL

-------------------------------------------------------------------------------
(***************************************************************************)
(* The recursion of Below.                                                 *)
(***************************************************************************)
Successors(pairs, nodes) == {e[2] : e \in {f \in pairs : f[1] \in nodes}}

\* reach is the function of the nodes within a number of edges of s.
IsReach(reach, pairs, s, depth) ==
  reach = [n \in 0..depth |->
    IF n = 0 THEN {s}
    ELSE reach[n - 1] \cup Successors(pairs, reach[n - 1])]

LEMMA ReachExists ==
  ASSUME NEW pairs, NEW s, NEW depth \in Nat
  PROVE  \E reach : IsReach(reach, pairs, s, depth)
<1> DEFINE Defined == {n \in Nat : \E reach : IsReach(reach, pairs, s, n)}
           below(nodes) == nodes \cup Successors(pairs, nodes)
<1>1. 0 \in Defined
  <2>1. IsReach([n \in 0..0 |-> {s}], pairs, s, 0)
    BY DEF IsReach
  <2> QED
    BY <2>1
<1>2. ASSUME NEW n \in Nat, n \in Defined PROVE n + 1 \in Defined
  <2>1. PICK reach : IsReach(reach, pairs, s, n)
    BY <1>2
  <2> DEFINE next == [i \in 0..n + 1 |-> IF i = n + 1 THEN below(reach[n]) ELSE reach[i]]
  <2>2. (\A i \in 0..n : next[i] = reach[i]) /\ next[n + 1] = below(reach[n])
    OBVIOUS
  <2>3. \A i \in 0..n : reach[i] = IF i = 0 THEN {s} ELSE below(reach[i - 1])
    BY <2>1 DEF IsReach
  <2>4. \A i \in 0..n + 1 : next[i] = IF i = 0 THEN {s} ELSE below(next[i - 1])
    <3> HIDE DEF next, below
    <3> SUFFICES ASSUME NEW i \in 0..n + 1
                 PROVE  next[i] = IF i = 0 THEN {s} ELSE below(next[i - 1])
      OBVIOUS
    <3>1. CASE i = n + 1
      <4>1. i - 1 = n /\ i # 0 /\ n \in 0..n
        BY <3>1
      <4> QED
        BY <2>2, <3>1, <4>1
    <3>2. CASE i # n + 1
      <4>1. i \in 0..n /\ (i # 0 => i - 1 \in 0..n)
        BY <3>2
      <4> QED
        BY <2>2, <2>3, <4>1
    <3> QED
      BY <3>1, <3>2
  <2>5. next = [i \in 0..n + 1 |-> IF i = 0 THEN {s} ELSE below(next[i - 1])]
    <3>1. next = [i \in 0..n + 1 |-> next[i]]
      OBVIOUS
    <3> HIDE DEF next
    <3> QED
      BY <2>4, <3>1
  <2> HIDE DEF next
  <2>6. IsReach(next, pairs, s, n + 1)
    BY <2>5 DEF IsReach
  <2> QED
    BY <2>6
<1> HIDE DEF Defined
<1>3. \A n \in Nat : n \in Defined
  BY <1>1, <1>2, EveryNumber
<1> QED
  BY <1>3 DEF Defined

StepByStep(reach, pairs, s, depth) ==
  /\ reach[0] = {s}
  /\ \A n \in 0..depth : n + 1 <= depth =>
       reach[n + 1] = reach[n] \cup Successors(pairs, reach[n])

LEMMA ReachSteps ==
  ASSUME NEW pairs, NEW s, NEW depth \in Nat, NEW reach, IsReach(reach, pairs, s, depth)
  PROVE  StepByStep(reach, pairs, s, depth)
<1> DEFINE below(nodes) == nodes \cup Successors(pairs, nodes)
<1>1. \A n \in 0..depth : reach[n] = IF n = 0 THEN {s} ELSE below(reach[n - 1])
  BY DEF IsReach
<1>2. 0 \in 0..depth
  OBVIOUS
<1>3. reach[0] = {s}
  BY <1>1, <1>2
<1>4. ASSUME NEW n \in 0..depth, n + 1 <= depth
      PROVE  reach[n + 1] = below(reach[n])
  <2> HIDE DEF below
  <2>1. n + 1 \in 0..depth /\ n + 1 # 0 /\ (n + 1) - 1 = n
    BY <1>4
  <2> QED
    BY <1>1, <2>1
<1> QED
  BY <1>3, <1>4 DEF StepByStep

\* What is within m edges is within more.
LEMMA ReachGrows ==
  ASSUME NEW pairs, NEW s, NEW depth \in Nat, NEW reach, IsReach(reach, pairs, s, depth),
         NEW m \in 0..depth, NEW n \in 0..depth, m <= n
  PROVE  reach[m] \subseteq reach[n]
<1> DEFINE Within == {k \in Nat : m + k <= depth => reach[m] \subseteq reach[m + k]}
<1>1. 0 \in Within
  <2>1. m + 0 = m
    OBVIOUS
  <2> QED
    BY <2>1
<1>2. ASSUME NEW k \in Nat, k \in Within PROVE k + 1 \in Within
  <2> SUFFICES ASSUME m + (k + 1) <= depth PROVE reach[m] \subseteq reach[m + (k + 1)]
    OBVIOUS
  <2>1. m + k \in 0..depth /\ (m + k) + 1 <= depth /\ m + (k + 1) = (m + k) + 1
    OBVIOUS
  <2>2. reach[m] \subseteq reach[m + k]
    BY <1>2, <2>1
  <2>3. StepByStep(reach, pairs, s, depth)
    BY ReachSteps
  <2>4. reach[m + k] \subseteq reach[(m + k) + 1]
    BY <2>1, <2>3 DEF StepByStep
  <2> QED
    BY <2>1, <2>2, <2>4
<1> HIDE DEF Within
<1>3. \A k \in Nat : k \in Within
  BY <1>1, <1>2, EveryNumber
<1>4. n - m \in Nat /\ m + (n - m) = n
  OBVIOUS
<1>5. n - m \in Within
  BY <1>3, <1>4
<1> QED
  BY <1>4, <1>5 DEF Within

\* With more edges more is within reach.
LEMMA ReachOfMore ==
  ASSUME NEW pairs, NEW more, pairs \subseteq more, NEW s, NEW depth \in Nat,
         NEW reach, IsReach(reach, pairs, s, depth), NEW far, IsReach(far, more, s, depth)
  PROVE  \A n \in 0..depth : reach[n] \subseteq far[n]
<1> DEFINE Within == {n \in Nat : n <= depth => reach[n] \subseteq far[n]}
<1>1. StepByStep(reach, pairs, s, depth) /\ StepByStep(far, more, s, depth)
  BY ReachSteps
<1>2. 0 \in Within
  BY <1>1 DEF StepByStep
<1>3. ASSUME NEW n \in Nat, n \in Within PROVE n + 1 \in Within
  <2> SUFFICES ASSUME n + 1 <= depth PROVE reach[n + 1] \subseteq far[n + 1]
    OBVIOUS
  <2>1. n \in 0..depth /\ reach[n] \subseteq far[n]
    BY <1>3
  <2>2. /\ reach[n + 1] = reach[n] \cup Successors(pairs, reach[n])
        /\ far[n + 1] = far[n] \cup Successors(more, far[n])
    BY <1>1, <2>1 DEF StepByStep
  <2>3. Successors(pairs, reach[n]) \subseteq Successors(more, far[n])
    BY <2>1 DEF Successors
  <2> QED
    BY <2>1, <2>2, <2>3
<1> HIDE DEF Within
<1>4. \A n \in Nat : n \in Within
  BY <1>2, <1>3, EveryNumber
<1> QED
  BY <1>4 DEF Within

-------------------------------------------------------------------------------
(***************************************************************************)
(* One turn of a walk.  A walk is described by its graph P, its start s,   *)
(* the list A of the entries it has made, the root first, and the number k *)
(* of entries whose turn is over; the others are the queue.                *)
(***************************************************************************)
Entries == [node : Nat, distance : Nat, path : Seq(Nat)]
IsGraph(P) == P \subseteq Nat \X Nat /\ IsFiniteSet(P)
Nodes(A) == {A[i].node : i \in DOMAIN A}

Found(P, entry, seen) == Reached(entry, Unseen(entry, P, seen))

\* Found lists every unseen node below the entry once, unless the entry is too deep.
IsFound(f, P, entry, seen) ==
  /\ f \in Seq(Entries)
  /\ \A i \in DOMAIN f : /\ entry.distance < MaxDepth
                         /\ f[i].node \in Successors(P, {entry.node}) \ seen
                         /\ f[i].distance = entry.distance + 1
                         /\ f[i].path = Append(entry.path, f[i].node)
  /\ \A i, j \in DOMAIN f : f[i].node = f[j].node => i = j
  /\ entry.distance < MaxDepth =>
       \A x \in Successors(P, {entry.node}) \ seen : \E i \in DOMAIN f : f[i].node = x

LEMMA SuccessorsAreFinite ==
  ASSUME NEW P, IsGraph(P), NEW node
  PROVE  Successors(P, {node}) \in SUBSET Nat /\ IsFiniteSet(Successors(P, {node}))
<1> DEFINE from == {f \in P : f[1] \in {node}}
           lower == [e \in from |-> e[2]]
           below == {e[2] : e \in from}
<1>1. below = Successors(P, {node}) /\ below \in SUBSET Nat
  BY DEF Successors, IsGraph
<1>2. lower \in Surjection(from, below)
  BY DEF Surjection
<1>3. from \in SUBSET P
  OBVIOUS
<1> HIDE DEF from, lower, below
<1>4. IsFiniteSet(from)
  BY <1>3, FS_Subset DEF IsGraph
<1>5. IsFiniteSet(below)
  BY <1>2, <1>4, FS_Surjection
<1> QED
  BY <1>1, <1>5

LEMMA UnseenLists ==
  ASSUME NEW P, IsGraph(P), NEW entry \in Entries, NEW seen
  PROVE  /\ Unseen(entry, P, seen) \in Seq(Nat)
         /\ ToSet(Unseen(entry, P, seen))
              = IF entry.distance < MaxDepth THEN Successors(P, {entry.node}) \ seen ELSE {}
         /\ \A i, j \in DOMAIN Unseen(entry, P, seen) :
              Unseen(entry, P, seen)[i] = Unseen(entry, P, seen)[j] => i = j
<1> DEFINE below == Successors(P, {entry.node}) \ seen
<1>1. below \in SUBSET Nat /\ IsFiniteSet(below)
  <2>1. Successors(P, {entry.node}) \in SUBSET Nat /\ IsFiniteSet(Successors(P, {entry.node}))
    BY SuccessorsAreFinite
  <2> QED
    BY <2>1, FS_Subset
<1>2. Unseen(entry, P, seen) = IF entry.distance < MaxDepth THEN InOrder(below) ELSE <<>>
  <2>1. below = {e[2] : e \in {f \in P : f[1] = entry.node}} \ seen
    BY DEF Successors
  <2>2. entry.distance < MaxDepth <=> ~Deep(entry)
    BY DepthAssumption DEF Entries, Deep
  <2> HIDE DEF below
  <2> QED
    BY <2>1, <2>2 DEF Unseen
<1> HIDE DEF below
<1>3. CASE entry.distance < MaxDepth
  <2>1. Unseen(entry, P, seen) = InOrder(below)
    BY <1>2, <1>3
  <2>2. /\ InOrder(below) \in Seq(Nat)
        /\ ToSet(InOrder(below)) = below
        /\ \A i, j \in DOMAIN InOrder(below) : InOrder(below)[i] = InOrder(below)[j] => i = j
    BY <1>1, InOrderLists DEF ToSet, Range
  <2> QED
    BY <1>3, <2>1, <2>2 DEF below
<1>4. CASE ~(entry.distance < MaxDepth)
  BY <1>2, <1>4 DEF ToSet
<1> QED
  BY <1>3, <1>4

LEMMA EntryIsEntry ==
  ASSUME NEW node \in Nat, NEW distance \in Nat, NEW path \in Seq(Nat)
  PROVE  Entry(node, distance, path) \in Entries
BY DEF Entry, Entries

LEMMA FoundLists ==
  ASSUME NEW P, IsGraph(P), NEW entry \in Entries, NEW seen
  PROVE  /\ IsFound(Found(P, entry, seen), P, entry, seen)
         /\ {Found(P, entry, seen)[i].node : i \in DOMAIN Found(P, entry, seen)}
              = ToSet(Unseen(entry, P, seen))
<1> DEFINE u == Unseen(entry, P, seen)
           f == Found(P, entry, seen)
<1>1. /\ u \in Seq(Nat)
      /\ ToSet(u) = IF entry.distance < MaxDepth THEN Successors(P, {entry.node}) \ seen ELSE {}
      /\ \A i, j \in DOMAIN u : u[i] = u[j] => i = j
  BY UnseenLists
<1>2. f = [i \in DOMAIN u |-> Entry(u[i], entry.distance + 1, Append(entry.path, u[i]))]
  BY DEF Found, Reached
<1> HIDE DEF u, f
<1>3. DOMAIN f = DOMAIN u /\ DOMAIN u = 1..Len(u) /\ Len(u) \in Nat
  BY <1>1, <1>2
<1>4. \A i \in DOMAIN u : u[i] \in Nat /\ u[i] \in ToSet(u)
  BY <1>1, <1>3 DEF ToSet
<1>5. \A i \in DOMAIN f : f[i] = Entry(u[i], entry.distance + 1, Append(entry.path, u[i]))
  BY <1>2, <1>3
<1>6. \A i \in DOMAIN f :
        /\ f[i].node = u[i] /\ f[i].distance = entry.distance + 1
        /\ f[i].path = Append(entry.path, f[i].node)
  BY <1>5 DEF Entry
<1>7. \A i \in DOMAIN f : f[i] \in Entries
  <2> SUFFICES ASSUME NEW i \in DOMAIN f PROVE f[i] \in Entries
    OBVIOUS
  <2>1. u[i] \in Nat
    BY <1>3, <1>4
  <2>2. Append(entry.path, u[i]) \in Seq(Nat)
    BY <2>1 DEF Entries
  <2>3. entry.distance + 1 \in Nat
    BY DEF Entries
  <2>4. Entry(u[i], entry.distance + 1, Append(entry.path, u[i])) \in Entries
    BY <2>1, <2>2, <2>3, EntryIsEntry
  <2> QED
    BY <1>5, <2>4
<1>8. f \in Seq(Entries)
  <2>1. f = [i \in 1..Len(u) |-> f[i]]
    BY <1>2, <1>3
  <2>2. \A i \in 1..Len(u) : f[i] \in Entries
    BY <1>3, <1>7
  <2>3. f \in [1..Len(u) -> Entries]
    BY <2>1, <2>2
  <2> QED
    BY <1>3, <2>3
<1>9. \A i \in DOMAIN f : entry.distance < MaxDepth /\ u[i] \in Successors(P, {entry.node}) \ seen
  BY <1>1, <1>3, <1>4
<1>10. entry.distance < MaxDepth =>
         \A x \in Successors(P, {entry.node}) \ seen : \E i \in DOMAIN f : f[i].node = x
  BY <1>1, <1>3, <1>6 DEF ToSet
<1>11. {f[i].node : i \in DOMAIN f} = ToSet(u)
  BY <1>3, <1>6 DEF ToSet
<1>12. \A i, j \in DOMAIN f : f[i].node = f[j].node => i = j
  BY <1>1, <1>3, <1>6
<1>13. IsFound(f, P, entry, seen)
  BY <1>6, <1>8, <1>9, <1>10, <1>12 DEF IsFound
<1> QED
  BY <1>11, <1>13 DEF f, u

Root(s) == Entry(s, 0, <<s>>)

\* IsPath of Assessment, for any start.
PathFrom(s, entry, P) ==
  /\ Len(entry.path) = entry.distance + 1
  /\ entry.path[1] = s /\ Last(entry.path) = entry.node
  /\ \A i \in 1..entry.distance : <<entry.path[i], entry.path[i + 1]>> \in P

\* Every node is listed once, the start first.
Listing(A, s) ==
  /\ A \in Seq(Entries) /\ A # <<>>
  /\ A[1] = Root(s)
  /\ \A i, j \in DOMAIN A : A[i].node = A[j].node => i = j

\* An entry says how its node is reached, within the depth.
Truthful(A, P, s, b) ==
  \A i \in DOMAIN A : /\ A[i].distance <= MaxDepth
                      /\ PathFrom(s, A[i], P)
                      /\ A[i].node \in b[A[i].distance]

\* The distances rise along the list, and in the queue they differ by one at most.
Level(A, k) ==
  /\ \A i, j \in DOMAIN A : i <= j => A[i].distance <= A[j].distance
  /\ \A i, j \in DOMAIN A : j = k + 1 => A[i].distance <= A[j].distance + 1

\* What is below an entry whose turn is over is listed, no further than one edge away.
Expanded(A, P, k) ==
  \A i \in DOMAIN A : i <= k /\ A[i].distance < MaxDepth =>
    \A x \in Successors(P, {A[i].node}) : \E j \in DOMAIN A :
      A[j].node = x /\ A[j].distance <= A[i].distance + 1

\* c tells how long the list was after each turn: a turn is determined by the list before it.
Follows(A, P, i, m, n) ==
  LET f == Found(P, A[i + 1], {A[j].node : j \in 1..m})
  IN  n = m + Len(f) /\ \A j \in DOMAIN f : A[m + j] = f[j]

Births(c, A, P, k) ==
  /\ c \in [0..k -> 1..Len(A)] /\ c[0] = 1 /\ c[k] = Len(A)
  /\ \A i \in 0..k : i + 1 <= k => i < c[i] /\ Follows(A, P, i, c[i], c[i + 1])

Born(A, P, k) == \E c : Births(c, A, P, k)

WalkedTo(A, P, s, b, k) ==
  Listing(A, s) /\ Truthful(A, P, s, b) /\ Level(A, k) /\ Expanded(A, P, k) /\ Born(A, P, k)

\* A2 is A with the entries f behind.
IsLonger(A2, A, f) ==
  /\ A2 \in Seq(Entries) /\ Len(A2) = Len(A) + Len(f)
  /\ \A i \in DOMAIN A : i \in DOMAIN A2 /\ A2[i] = A[i]
  /\ \A i \in DOMAIN f : Len(A) + i \in DOMAIN A2 /\ A2[Len(A) + i] = f[i]
  /\ \A i \in DOMAIN A2 : i \notin DOMAIN A =>
       i > Len(A) /\ i - Len(A) \in DOMAIN f /\ A2[i] = f[i - Len(A)]

LEMMA ConcatIsLonger ==
  ASSUME NEW A \in Seq(Entries), NEW f \in Seq(Entries)
  PROVE  IsLonger(A \o f, A, f)
<1> DEFINE A2 == A \o f
<1>1. /\ A2 \in Seq(Entries) /\ Len(A2) = Len(A) + Len(f)
      /\ \A i \in 1..Len(A) + Len(f) : A2[i] = IF i <= Len(A) THEN A[i] ELSE f[i - Len(A)]
  BY ConcatProperties
<1>2. /\ DOMAIN A = 1..Len(A) /\ DOMAIN f = 1..Len(f) /\ Len(A) \in Nat /\ Len(f) \in Nat
  OBVIOUS
<1> HIDE DEF A2
<1>3. DOMAIN A2 = 1..Len(A) + Len(f)
  BY <1>1, <1>2
<1>4. \A i \in DOMAIN A : i \in DOMAIN A2 /\ A2[i] = A[i]
  BY <1>1, <1>2, <1>3
<1>5. \A i \in DOMAIN f : Len(A) + i \in DOMAIN A2 /\ A2[Len(A) + i] = f[i]
  <2> SUFFICES ASSUME NEW i \in 1..Len(f)
               PROVE  Len(A) + i \in DOMAIN A2 /\ A2[Len(A) + i] = f[i]
    BY <1>2
  <2>1. Len(A) + i \in 1..Len(A) + Len(f) /\ ~(Len(A) + i <= Len(A)) /\ (Len(A) + i) - Len(A) = i
    BY <1>2
  <2> QED
    BY <1>1, <1>3, <2>1
<1>6. ASSUME NEW i \in DOMAIN A2, i \notin DOMAIN A
      PROVE  i > Len(A) /\ i - Len(A) \in DOMAIN f /\ A2[i] = f[i - Len(A)]
  BY <1>1, <1>2, <1>3, <1>6
<1> QED
  BY <1>1, <1>4, <1>5, <1>6 DEF A2, IsLonger

\* What a turn of the walk has at hand: the entry whose turn it is, and what it finds.
InTurn(A2, A, P, s, b, k, f) ==
  /\ IsGraph(P) /\ s \in Nat /\ StepByStep(b, P, s, MaxDepth)
  /\ k \in Nat /\ k + 1 \in DOMAIN A
  /\ Listing(A, s)
  /\ f = Found(P, A[k + 1], Nodes(A)) /\ IsFound(f, P, A[k + 1], Nodes(A))
  /\ IsLonger(A2, A, f)

LEMMA DomainOfListing ==
  ASSUME NEW A, NEW s, Listing(A, s)
  PROVE  /\ Len(A) \in Nat \ {0} /\ DOMAIN A = 1..Len(A) /\ 1 \in DOMAIN A
         /\ \A i \in DOMAIN A : /\ A[i] \in Entries /\ A[i].node \in Nat
                                /\ A[i].distance \in Nat /\ A[i].path \in Seq(Nat)
                                /\ A[i].node \in Nodes(A)
<1>1. A \in Seq(Entries) /\ A # <<>>
  BY DEF Listing
<1>2. Len(A) \in Nat \ {0} /\ DOMAIN A = 1..Len(A)
  BY <1>1, EmptySeq
<1>3. \A i \in DOMAIN A : A[i] \in Entries /\ A[i].node \in Nodes(A)
  BY <1>1 DEF Nodes
<1> QED
  BY <1>2, <1>3 DEF Entries

LEMMA TurnKeepsListing ==
  ASSUME NEW A2, NEW A, NEW P, NEW s, NEW b, NEW k, NEW f, InTurn(A2, A, P, s, b, k, f)
  PROVE  Listing(A2, s)
<1>1. /\ Len(A) \in Nat \ {0} /\ 1 \in DOMAIN A /\ DOMAIN A = 1..Len(A)
      /\ \A i \in DOMAIN A : A[i].node \in Nodes(A)
  BY DomainOfListing DEF InTurn
<1>2. A2 \in Seq(Entries) /\ A2[1] = Root(s) /\ A2 # <<>>
  <2>1. A2 \in Seq(Entries) /\ 1 \in DOMAIN A2 /\ A2[1] = A[1] /\ A[1] = Root(s)
    BY <1>1 DEF InTurn, IsLonger, Listing
  <2> QED
    BY <2>1
<1>3. \A i \in DOMAIN f : f[i].node \notin Nodes(A)
  BY DEF InTurn, IsFound
<1>4. \A i, j \in DOMAIN f : f[i].node = f[j].node => i = j
  BY DEF InTurn, IsFound
<1>5. ASSUME NEW i \in DOMAIN A2, NEW j \in DOMAIN A2, A2[i].node = A2[j].node
      PROVE  i = j
  <2>1. \A x \in DOMAIN A2 : x \notin DOMAIN A => x - Len(A) \in DOMAIN f /\ A2[x] = f[x - Len(A)]
    BY DEF InTurn, IsLonger
  <2>2. \A x \in DOMAIN A2 : x \in DOMAIN A => A2[x] = A[x]
    BY DEF InTurn, IsLonger
  <2>3. i \in Nat /\ j \in Nat
    BY <1>2, <1>5
  <2>4. CASE i \in DOMAIN A /\ j \in DOMAIN A
    BY <1>5, <2>2, <2>4 DEF InTurn, Listing
  <2>5. CASE i \in DOMAIN A /\ j \notin DOMAIN A
    BY <1>1, <1>3, <1>5, <2>1, <2>2, <2>5
  <2>6. CASE i \notin DOMAIN A /\ j \in DOMAIN A
    BY <1>1, <1>3, <1>5, <2>1, <2>2, <2>6
  <2>7. CASE i \notin DOMAIN A /\ j \notin DOMAIN A
    <3>1. i - Len(A) = j - Len(A)
      BY <1>4, <1>5, <2>1, <2>7
    <3> QED
      BY <1>1, <2>3, <3>1
  <2> QED
    BY <2>4, <2>5, <2>6, <2>7
<1> QED
  BY <1>2, <1>5 DEF Listing

LEMMA PathGrows ==
  ASSUME NEW P, IsGraph(P), NEW s, NEW entry \in Entries, PathFrom(s, entry, P),
         NEW new \in Entries, new.node \in Successors(P, {entry.node}),
         new.distance = entry.distance + 1, new.path = Append(entry.path, new.node)
  PROVE  PathFrom(s, new, P)
<1> DEFINE d == entry.distance
           p == entry.path
           x == new.node
           q == new.path
<1>1. d \in Nat /\ p \in Seq(Nat) /\ x \in Nat
  BY DEF Entries
<1>2. Len(p) = d + 1 /\ p[1] = s /\ p[Len(p)] = entry.node
  BY DEF PathFrom, Last
<1>3. \A i \in 1..d : <<p[i], p[i + 1]>> \in P
  BY DEF PathFrom
<1>4. <<entry.node, x>> \in P
  BY DEF Successors, IsGraph
<1>5. q = Append(p, x)
  OBVIOUS
<1> HIDE DEF d, p, x, q
<1>6. /\ Len(q) = Len(p) + 1 /\ q[Len(p) + 1] = x
      /\ \A i \in 1..Len(p) : q[i] = p[i]
  BY <1>1, <1>5, AppendProperties
<1>7. Len(q) = (d + 1) + 1 /\ q[1] = s /\ q[Len(q)] = x
  BY <1>1, <1>2, <1>6
<1>8. \A i \in 1..d + 1 : <<q[i], q[i + 1]>> \in P
  <2> SUFFICES ASSUME NEW i \in 1..d + 1 PROVE <<q[i], q[i + 1]>> \in P
    OBVIOUS
  <2>1. CASE i = d + 1
    <3>1. q[i] = entry.node /\ q[i + 1] = x
      BY <1>1, <1>2, <1>6, <2>1
    <3> QED
      BY <1>4, <3>1
  <2>2. CASE i # d + 1
    <3>1. i \in 1..d /\ i \in 1..Len(p) /\ i + 1 \in 1..Len(p)
      BY <1>1, <1>2, <2>2
    <3>2. q[i] = p[i] /\ q[i + 1] = p[i + 1]
      BY <1>6, <3>1
    <3> QED
      BY <1>3, <3>1, <3>2
  <2> QED
    BY <2>1, <2>2
<1> QED
  BY <1>7, <1>8 DEF PathFrom, Last, d, x, q

LEMMA TurnKeepsTruthful ==
  ASSUME NEW A2, NEW A, NEW P, NEW s, NEW b, NEW k, NEW f, InTurn(A2, A, P, s, b, k, f),
         Truthful(A, P, s, b)
  PROVE  Truthful(A2, P, s, b)
<1> DEFINE entry == A[k + 1]
           True(e) == e.distance <= MaxDepth /\ PathFrom(s, e, P) /\ e.node \in b[e.distance]
<1>1. entry \in Entries /\ entry.distance \in Nat
  BY DomainOfListing DEF InTurn
<1>2. PathFrom(s, entry, P) /\ entry.node \in b[entry.distance]
  BY DEF Truthful, InTurn
<1>3. ASSUME NEW i \in DOMAIN f PROVE True(f[i])
  <2> DEFINE new == f[i]
  <2>1. /\ new \in Entries /\ entry.distance < MaxDepth
        /\ new.node \in Successors(P, {entry.node})
        /\ new.distance = entry.distance + 1
        /\ new.path = Append(entry.path, new.node)
    <3>1. IsFound(f, P, entry, Nodes(A))
      BY DEF InTurn
    <3>2. new \in Entries
      BY <3>1 DEF IsFound
    <3> QED
      BY <3>1, <3>2 DEF IsFound
  <2> HIDE DEF new, entry
  <2>2. PathFrom(s, new, P)
    BY <1>1, <1>2, <2>1, PathGrows DEF InTurn
  <2>3. new.distance <= MaxDepth /\ entry.distance \in 0..MaxDepth
    BY <1>1, <2>1, DepthAssumption
  <2>4. b[entry.distance + 1] = b[entry.distance] \cup Successors(P, b[entry.distance])
    BY <2>1, <2>3 DEF InTurn, StepByStep
  <2>5. new.node \in b[new.distance]
    BY <1>2, <2>1, <2>4 DEF Successors
  <2> QED
    BY <2>2, <2>3, <2>5 DEF new
<1>4. ASSUME NEW i \in DOMAIN A PROVE True(A[i])
  BY <1>4 DEF Truthful
<1> HIDE DEF entry, True
<1>5. ASSUME NEW i \in DOMAIN A2 PROVE True(A2[i])
  BY <1>3, <1>4, <1>5 DEF InTurn, IsLonger
<1> QED
  BY <1>5 DEF Truthful, True

LEMMA TurnKeepsLevel ==
  ASSUME NEW A2, NEW A, NEW P, NEW s, NEW b, NEW k, NEW f, InTurn(A2, A, P, s, b, k, f),
         Level(A, k)
  PROVE  Level(A2, k + 1)
<1> DEFINE d == A[k + 1].distance
<1>1. /\ Len(A) \in Nat \ {0} /\ DOMAIN A = 1..Len(A) /\ k \in Nat /\ k + 1 \in DOMAIN A
      /\ \A i \in DOMAIN A : A[i].distance \in Nat
  BY DomainOfListing DEF InTurn
<1>2. DOMAIN A2 \subseteq Nat
  <2>1. A2 \in Seq(Entries)
    BY DEF InTurn, IsLonger
  <2> QED
    BY <2>1
<1>3. \A i \in DOMAIN A2 : i \in DOMAIN A => A2[i].distance = A[i].distance
  BY DEF InTurn, IsLonger
<1>4. \A i \in DOMAIN A2 : i \notin DOMAIN A => i > Len(A) /\ A2[i].distance = d + 1
  BY DEF InTurn, IsLonger, IsFound
<1>5. \A i \in DOMAIN A : A[i].distance <= d + 1
  BY <1>1 DEF Level
<1>6. \A i, j \in DOMAIN A : i <= j => A[i].distance <= A[j].distance
  BY DEF Level
<1>7. d \in Nat
  BY <1>1
<1> HIDE DEF d
<1>8. ASSUME NEW i \in DOMAIN A2, NEW j \in DOMAIN A2, i <= j
      PROVE  A2[i].distance <= A2[j].distance
  <2>1. CASE j \in DOMAIN A
    <3>1. i \in DOMAIN A
      BY <1>1, <1>2, <1>4, <1>8, <2>1
    <3> QED
      BY <1>3, <1>6, <1>8, <2>1, <3>1
  <2>2. CASE j \notin DOMAIN A /\ i \in DOMAIN A
    BY <1>3, <1>4, <1>5, <2>2
  <2>3. CASE j \notin DOMAIN A /\ i \notin DOMAIN A
    BY <1>4, <1>7, <2>3
  <2> QED
    BY <2>1, <2>2, <2>3
<1>9. \A i \in DOMAIN A2 : A2[i].distance <= d + 1
  BY <1>3, <1>4, <1>5, <1>7
<1>10. ASSUME NEW i \in DOMAIN A2, NEW j \in DOMAIN A2, j = (k + 1) + 1
       PROVE  A2[i].distance <= A2[j].distance + 1
  <2>1. A2[j].distance \in Nat
    BY <1>1, <1>3, <1>4, <1>7
  <2>2. A2[j].distance >= d
    <3>1. CASE j \in DOMAIN A
      <4>1. k + 1 <= j
        BY <1>1, <1>10
      <4> QED
        BY <1>1, <1>3, <1>6, <3>1, <4>1 DEF d
    <3>2. CASE j \notin DOMAIN A
      BY <1>4, <1>7, <3>2
    <3> QED
      BY <3>1, <3>2
  <2>3. A2[i].distance \in Nat
    BY <1>1, <1>3, <1>4, <1>7
  <2> QED
    BY <1>7, <1>9, <2>1, <2>2, <2>3
<1> QED
  BY <1>8, <1>10 DEF Level

LEMMA TurnKeepsExpanded ==
  ASSUME NEW A2, NEW A, NEW P, NEW s, NEW b, NEW k, NEW f, InTurn(A2, A, P, s, b, k, f),
         Level(A, k), Expanded(A, P, k)
  PROVE  Expanded(A2, P, k + 1)
<1> DEFINE entry == A[k + 1]
<1>1. /\ Len(A) \in Nat \ {0} /\ DOMAIN A = 1..Len(A) /\ k \in Nat /\ k + 1 \in DOMAIN A
      /\ entry.distance \in Nat
  BY DomainOfListing DEF InTurn
<1>2. \A i \in DOMAIN A : i \in DOMAIN A2 /\ A2[i] = A[i]
  BY DEF InTurn, IsLonger
<1>3. \A i \in DOMAIN f : Len(A) + i \in DOMAIN A2 /\ A2[Len(A) + i] = f[i]
  BY DEF InTurn, IsLonger
<1>4. DOMAIN A2 \subseteq Nat
  <2>1. A2 \in Seq(Entries)
    BY DEF InTurn, IsLonger
  <2> QED
    BY <2>1
<1> SUFFICES ASSUME NEW i \in DOMAIN A2, i <= k + 1, A2[i].distance < MaxDepth,
                    NEW x \in Successors(P, {A2[i].node})
             PROVE  \E j \in DOMAIN A2 : A2[j].node = x /\ A2[j].distance <= A2[i].distance + 1
  BY DEF Expanded
<1>5. i \in DOMAIN A /\ A2[i] = A[i]
  <2>1. i \in DOMAIN A
    <3>1. i > Len(A) \/ i \in DOMAIN A
      BY DEF InTurn, IsLonger
    <3> QED
      BY <1>1, <1>4, <3>1
  <2> QED
    BY <1>2, <2>1
<1>6. CASE i <= k
  <2>1. PICK j \in DOMAIN A : A[j].node = x /\ A[j].distance <= A[i].distance + 1
    BY <1>5, <1>6 DEF Expanded
  <2> QED
    BY <1>2, <1>5, <2>1
<1>7. CASE i = k + 1
  <2>1. A2[i] = entry
    BY <1>5, <1>7
  <2>2. CASE x \in Nodes(A)
    <3>1. PICK j \in DOMAIN A : A[j].node = x
      BY <2>2 DEF Nodes
    <3>2. A[j].distance <= entry.distance + 1
      BY <1>1 DEF Level
    <3> QED
      BY <1>2, <2>1, <3>1, <3>2
  <2>3. CASE x \notin Nodes(A)
    <3>1. entry.distance < MaxDepth /\ x \in Successors(P, {entry.node}) \ Nodes(A)
      BY <2>1, <2>3
    <3>2. PICK j \in DOMAIN f : f[j].node = x
      BY <3>1 DEF InTurn, IsFound
    <3>3. f[j].distance = entry.distance + 1
      BY DEF InTurn, IsFound
    <3> QED
      BY <1>1, <1>3, <2>1, <3>2, <3>3
  <2> QED
    BY <2>2, <2>3
<1> QED
  BY <1>1, <1>4, <1>6, <1>7

\* A turn that is over depends on the list before it only.
LEMMA FollowsStays ==
  ASSUME NEW A2, NEW A, NEW P, NEW s, NEW b, NEW k, NEW f, InTurn(A2, A, P, s, b, k, f),
         NEW i \in Nat, NEW m \in Nat, NEW n \in Nat, i < m, m <= Len(A), n <= Len(A),
         Follows(A, P, i, m, n)
  PROVE  Follows(A2, P, i, m, n)
<1>1. Len(A) \in Nat /\ DOMAIN A = 1..Len(A)
  BY DomainOfListing DEF InTurn
<1>2. \A j \in 1..Len(A) : A2[j] = A[j]
  BY <1>1 DEF InTurn, IsLonger
<1>3. i + 1 \in 1..Len(A) /\ 1..m \subseteq 1..Len(A)
  BY <1>1
<1>4. A2[i + 1] = A[i + 1] /\ {A2[j].node : j \in 1..m} = {A[j].node : j \in 1..m}
  BY <1>2, <1>3
<1> DEFINE g == Found(P, A[i + 1], {A[j].node : j \in 1..m})
<1>5. g \in Seq(Entries)
  <2>1. A[i + 1] \in Entries
    BY <1>1, <1>3, DomainOfListing DEF InTurn
  <2> QED
    BY <2>1, FoundLists DEF InTurn, IsFound
<1>6. n = m + Len(g) /\ \A j \in DOMAIN g : A[m + j] = g[j]
  BY DEF Follows
<1>7. Found(P, A2[i + 1], {A2[j].node : j \in 1..m}) = g
  BY <1>4
<1> HIDE DEF g
<1>8. \A j \in DOMAIN g : m + j \in 1..Len(A)
  BY <1>1, <1>5, <1>6
<1>9. \A j \in DOMAIN g : A2[m + j] = g[j]
  BY <1>2, <1>6, <1>8
<1> QED
  BY <1>6, <1>7, <1>9 DEF Follows

LEMMA TurnKeepsBorn ==
  ASSUME NEW A2, NEW A, NEW P, NEW s, NEW b, NEW k, NEW f, InTurn(A2, A, P, s, b, k, f),
         Born(A, P, k)
  PROVE  Born(A2, P, k + 1)
<1>1. /\ Len(A) \in Nat /\ DOMAIN A = 1..Len(A) /\ k \in Nat /\ k + 1 \in 1..Len(A)
  BY DomainOfListing DEF InTurn
<1>2. Len(A2) = Len(A) + Len(f) /\ f \in Seq(Entries) /\ Len(f) \in Nat
  <2>1. Len(A2) = Len(A) + Len(f) /\ f \in Seq(Entries)
    BY DEF InTurn, IsLonger, IsFound
  <2> QED
    BY <2>1
<1>3. PICK c : Births(c, A, P, k)
  BY DEF Born
<1>4. c \in [0..k -> 1..Len(A)] /\ c[0] = 1 /\ c[k] = Len(A)
  BY <1>3 DEF Births
<1> DEFINE c2 == [i \in 0..k + 1 |-> IF i <= k THEN c[i] ELSE Len(A2)]
<1>5. /\ \A i \in 0..k : c2[i] = c[i]
      /\ c2[k + 1] = Len(A2)
      /\ c2 \in [0..k + 1 -> 1..Len(A2)]
  <2>1. \A i \in 0..k : i \in 0..k + 1 /\ i <= k
    BY <1>1
  <2>2. k + 1 \in 0..k + 1 /\ ~(k + 1 <= k) /\ Len(A2) \in 1..Len(A2)
    BY <1>1, <1>2
  <2>3. \A i \in 0..k : c[i] \in 1..Len(A2)
    BY <1>1, <1>2, <1>4
  <2>4. \A i \in 0..k + 1 : i <= k => i \in 0..k
    BY <1>1
  <2> QED
    BY <2>1, <2>2, <2>3, <2>4
<1> HIDE DEF c2
<1>6. c2[0] = 1
  BY <1>1, <1>4, <1>5
<1>7. ASSUME NEW i \in 0..k + 1, i + 1 <= k + 1
      PROVE  i < c2[i] /\ Follows(A2, P, i, c2[i], c2[i + 1])
  <2>1. CASE i = k
    <3>1. c2[i] = Len(A) /\ c2[i + 1] = Len(A2)
      BY <1>1, <1>4, <1>5, <2>1
    <3>2. A2[k + 1] = A[k + 1] /\ {A2[j].node : j \in 1..Len(A)} = Nodes(A)
      <4>1. \A j \in 1..Len(A) : A2[j] = A[j]
        BY <1>1 DEF InTurn, IsLonger
      <4> QED
        BY <1>1, <4>1 DEF Nodes
    <3>3. Found(P, A2[i + 1], {A2[j].node : j \in 1..Len(A)}) = f
      BY <2>1, <3>2 DEF InTurn
    <3>4. Len(A2) = Len(A) + Len(f) /\ \A j \in DOMAIN f : A2[Len(A) + j] = f[j]
      BY DEF InTurn, IsLonger
    <3>5. Follows(A2, P, i, Len(A), Len(A2))
      BY <3>3, <3>4 DEF Follows
    <3> QED
      BY <1>1, <2>1, <3>1, <3>5
  <2>2. CASE i # k
    <3>1. i \in 0..k /\ i + 1 \in 0..k /\ i + 1 <= k /\ i \in Nat
      BY <1>1, <1>7, <2>2
    <3>2. c2[i] = c[i] /\ c2[i + 1] = c[i + 1]
      BY <1>5, <3>1
    <3>3. i < c[i] /\ Follows(A, P, i, c[i], c[i + 1])
      BY <1>3, <3>1 DEF Births
    <3>4. /\ c[i] \in Nat /\ c[i] <= Len(A)
          /\ c[i + 1] \in Nat /\ c[i + 1] <= Len(A)
      BY <1>1, <1>4, <3>1
    <3> HIDE DEF InTurn
    <3>5. Follows(A2, P, i, c[i], c[i + 1])
      BY <3>1, <3>3, <3>4, FollowsStays
    <3> QED
      BY <3>2, <3>3, <3>5
  <2> QED
    BY <2>1, <2>2
<1>8. Births(c2, A2, P, k + 1)
  BY <1>5, <1>6, <1>7 DEF Births
<1> QED
  BY <1>8 DEF Born

\* A turn keeps all that is known of the walk.
LEMMA TurnKeeps ==
  ASSUME NEW A2, NEW A, NEW P, NEW s, NEW b, NEW k, NEW f, InTurn(A2, A, P, s, b, k, f),
         WalkedTo(A, P, s, b, k)
  PROVE  WalkedTo(A2, P, s, b, k + 1) /\ Nodes(A2) = Nodes(A) \cup {f[i].node : i \in DOMAIN f}
<1>1. Listing(A2, s)
  BY TurnKeepsListing
<1>2. Truthful(A2, P, s, b)
  BY TurnKeepsTruthful DEF WalkedTo
<1>3. Level(A2, k + 1)
  BY TurnKeepsLevel DEF WalkedTo
<1>4. Expanded(A2, P, k + 1)
  BY TurnKeepsExpanded DEF WalkedTo
<1>5. Born(A2, P, k + 1)
  BY TurnKeepsBorn DEF WalkedTo
<1>6. Nodes(A2) = Nodes(A) \cup {f[i].node : i \in DOMAIN f}
  <2>1. /\ \A i \in DOMAIN A : i \in DOMAIN A2 /\ A2[i] = A[i]
        /\ \A i \in DOMAIN f : Len(A) + i \in DOMAIN A2 /\ A2[Len(A) + i] = f[i]
        /\ \A i \in DOMAIN A2 : i \notin DOMAIN A =>
             i - Len(A) \in DOMAIN f /\ A2[i] = f[i - Len(A)]
    BY DEF InTurn, IsLonger
  <2> QED
    BY <2>1 DEF Nodes
<1> QED
  BY <1>1, <1>2, <1>3, <1>4, <1>5, <1>6 DEF WalkedTo

LEMMA RootIsEntry ==
  ASSUME NEW s \in Nat
  PROVE  Root(s) \in Entries /\ <<Root(s)>> \in Seq(Entries)
<1>1. <<s>> \in Seq(Nat)
  OBVIOUS
<1>2. Root(s) \in Entries
  BY <1>1, EntryIsEntry DEF Root
<1> QED
  BY <1>2

\* A walk starts with the root in the queue.
LEMMA WalkStarts ==
  ASSUME NEW P, NEW s \in Nat, NEW b, StepByStep(b, P, s, MaxDepth)
  PROVE  WalkedTo(<<Root(s)>>, P, s, b, 0) /\ Nodes(<<Root(s)>>) = {s}
<1> DEFINE A == <<Root(s)>>
<1>1. A \in Seq(Entries) /\ A # <<>> /\ Len(A) = 1 /\ DOMAIN A = {1} /\ A[1] = Root(s)
  BY RootIsEntry
<1>2. Root(s).node = s /\ Root(s).distance = 0 /\ Root(s).path = <<s>>
  BY DEF Root, Entry
<1> HIDE DEF A
<1>3. Listing(A, s)
  BY <1>1 DEF Listing
<1>4. Truthful(A, P, s, b)
  <2>1. PathFrom(s, Root(s), P)
    BY <1>2 DEF PathFrom, Last
  <2>2. s \in b[0]
    BY DEF StepByStep
  <2> QED
    BY <1>1, <1>2, <2>1, <2>2, DepthAssumption DEF Truthful
<1>5. Level(A, 0)
  BY <1>1, <1>2 DEF Level
<1>6. Expanded(A, P, 0)
  BY <1>1 DEF Expanded
<1>7. Born(A, P, 0)
  <2>1. Births([i \in 0..0 |-> 1], A, P, 0)
    BY <1>1 DEF Births
  <2> QED
    BY <2>1 DEF Born
<1>8. Nodes(A) = {s}
  BY <1>1, <1>2 DEF Nodes
<1> QED
  BY <1>3, <1>4, <1>5, <1>6, <1>7, <1>8 DEF WalkedTo, A

\* When the queue is empty, all that is within reach is listed, no further away than it is.
Complete(A, b) ==
  \A n \in 0..MaxDepth : \A x \in b[n] : \E j \in DOMAIN A :
    A[j].node = x /\ A[j].distance <= n

LEMMA WalkEndsComplete ==
  ASSUME NEW A, NEW P, IsGraph(P), NEW s, NEW b, StepByStep(b, P, s, MaxDepth),
         WalkedTo(A, P, s, b, Len(A))
  PROVE  Complete(A, b)
<1> DEFINE Listed(n) == \A x \in b[n] : \E j \in DOMAIN A : A[j].node = x /\ A[j].distance <= n
           Levels == {n \in Nat : n <= MaxDepth => Listed(n)}
<1>1. Listing(A, s) /\ Expanded(A, P, Len(A))
  BY DEF WalkedTo
<1>2. /\ Len(A) \in Nat /\ DOMAIN A = 1..Len(A) /\ 1 \in DOMAIN A
      /\ \A i \in DOMAIN A : A[i].distance \in Nat
  BY <1>1, DomainOfListing
<1>3. 0 \in Levels
  <2>1. b[0] = {s} /\ A[1].node = s /\ A[1].distance = 0
    BY <1>1 DEF StepByStep, Listing, Root, Entry
  <2> QED
    BY <1>2, <2>1
<1>4. ASSUME NEW n \in Nat, n \in Levels PROVE n + 1 \in Levels
  <2> SUFFICES ASSUME n + 1 <= MaxDepth, NEW x \in b[n + 1]
               PROVE  \E j \in DOMAIN A : A[j].node = x /\ A[j].distance <= n + 1
    OBVIOUS
  <2>1. n \in 0..MaxDepth /\ n < MaxDepth /\ Listed(n)
    BY <1>4, DepthAssumption
  <2>2. b[n + 1] = b[n] \cup Successors(P, b[n])
    BY <2>1 DEF StepByStep
  <2>3. CASE x \in b[n]
    <3>1. PICK j \in DOMAIN A : A[j].node = x /\ A[j].distance <= n
      BY <2>1, <2>3
    <3>2. A[j].distance <= n + 1
      BY <1>2, <3>1
    <3> QED
      BY <3>1, <3>2
  <2>4. CASE x \in Successors(P, b[n])
    <3>1. PICK y \in b[n] : x \in Successors(P, {y})
      BY <2>4 DEF Successors
    <3>2. PICK i \in DOMAIN A : A[i].node = y /\ A[i].distance <= n
      BY <2>1
    <3>3. i <= Len(A) /\ A[i].distance \in Nat /\ A[i].distance < MaxDepth
      BY <1>2, <2>1, <3>2, DepthAssumption
    <3>4. PICK j \in DOMAIN A : A[j].node = x /\ A[j].distance <= A[i].distance + 1
      BY <1>1, <3>1, <3>2, <3>3 DEF Expanded
    <3>5. A[j].distance <= n + 1
      BY <1>2, <3>2, <3>3, <3>4
    <3> QED
      BY <3>4, <3>5
  <2> QED
    BY <2>2, <2>3, <2>4
<1> HIDE DEF Levels
<1>5. \A n \in Nat : n \in Levels
  BY <1>3, <1>4, EveryNumber
<1> QED
  BY <1>5 DEF Complete, Levels

-------------------------------------------------------------------------------
(***************************************************************************)
(* What a finished walk has found.                                         *)
(***************************************************************************)
All(s, l) == <<Root(s)>> \o l

\* IsImpact of Assessment, for any graph and start.
ImpactOf(l, P, s, b) ==
  /\ {l[i].node : i \in DOMAIN l} = b[MaxDepth] \ {s}
  /\ \A i, j \in DOMAIN l : l[i].node = l[j].node => i = j
  /\ \A i \in DOMAIN l : PathFrom(s, l[i], P) /\ l[i].node \notin b[l[i].distance - 1]

Finished(l, P, s, b) ==
  l \in Seq(Entries) /\ WalkedTo(All(s, l), P, s, b, Len(All(s, l)))

LEMMA AllLists ==
  ASSUME NEW s \in Nat, NEW l \in Seq(Entries)
  PROVE  /\ All(s, l) \in Seq(Entries)
         /\ Len(All(s, l)) = Len(l) + 1 /\ Len(l) \in Nat /\ DOMAIN l = 1..Len(l)
         /\ DOMAIN All(s, l) = 1..Len(l) + 1
         /\ All(s, l)[1] = Root(s)
         /\ \A i \in DOMAIN l : i + 1 \in DOMAIN All(s, l) /\ All(s, l)[i + 1] = l[i]
<1> DEFINE A == All(s, l)
<1>1. <<Root(s)>> \in Seq(Entries)
  BY RootIsEntry
<1>2. Len(<<Root(s)>>) = 1 /\ <<Root(s)>>[1] = Root(s)
  OBVIOUS
<1>3. A = <<Root(s)>> \o l
  BY DEF All
<1> HIDE DEF A
<1>4. /\ A \in Seq(Entries) /\ Len(A) = 1 + Len(l)
      /\ \A i \in 1..1 + Len(l) : A[i] = IF i <= 1 THEN <<Root(s)>>[i] ELSE l[i - 1]
  BY <1>1, <1>2, <1>3, ConcatProperties
<1>5. Len(l) \in Nat /\ DOMAIN l = 1..Len(l)
  OBVIOUS
<1>6. Len(A) = Len(l) + 1 /\ DOMAIN A = 1..Len(l) + 1 /\ A[1] = Root(s)
  BY <1>2, <1>4, <1>5
<1>7. ASSUME NEW i \in DOMAIN l PROVE i + 1 \in DOMAIN A /\ A[i + 1] = l[i]
  <2>1. i + 1 \in 1..1 + Len(l) /\ ~(i + 1 <= 1) /\ (i + 1) - 1 = i
    BY <1>5
  <2> QED
    BY <1>4, <1>5, <1>6, <2>1
<1> QED
  BY <1>4, <1>5, <1>6, <1>7 DEF A

\* Every entry but the root is of another node, at least one edge away.
LEMMA ListedIsBelow ==
  ASSUME NEW P, NEW s \in Nat, NEW b, IsReach(b, P, s, MaxDepth), NEW l, Finished(l, P, s, b),
         NEW i \in DOMAIN l
  PROVE  /\ l[i].node # s
         /\ l[i].distance \in Nat \ {0} /\ l[i].distance <= MaxDepth
         /\ PathFrom(s, l[i], P) /\ l[i].node \in b[l[i].distance]
<1> DEFINE A == All(s, l)
<1>1. Listing(A, s) /\ Truthful(A, P, s, b) /\ l \in Seq(Entries)
  BY DEF Finished, WalkedTo
<1>2. i + 1 \in DOMAIN A /\ A[i + 1] = l[i] /\ A[1] = Root(s) /\ i \in Nat \ {0} /\ 1 \in DOMAIN A
  <2>1. /\ A[1] = Root(s) /\ Len(l) \in Nat /\ DOMAIN l = 1..Len(l) /\ DOMAIN A = 1..Len(l) + 1
        /\ \A j \in DOMAIN l : j + 1 \in DOMAIN A /\ A[j + 1] = l[j]
    BY <1>1, AllLists
  <2> QED
    BY <2>1
<1> HIDE DEF A
<1>3. /\ l[i].distance <= MaxDepth /\ PathFrom(s, l[i], P)
      /\ l[i].node \in b[l[i].distance] /\ l[i].distance \in Nat
  <2>1. A[i + 1].distance \in Nat
    BY <1>1, <1>2, DomainOfListing
  <2> QED
    BY <1>1, <1>2, <2>1 DEF Truthful
<1>4. l[i].node # s
  <2>1. SUFFICES ASSUME l[i].node = s PROVE FALSE
    OBVIOUS
  <2>2. A[i + 1].node = A[1].node
    BY <1>2, <2>1 DEF Root, Entry
  <2>3. i + 1 = 1
    BY <1>1, <1>2, <2>2 DEF Listing
  <2> QED
    BY <1>2, <2>3
<1>5. l[i].distance # 0
  <2>1. b[0] = {s}
    BY ReachSteps, DepthAssumption DEF StepByStep
  <2> QED
    BY <1>3, <1>4, <2>1
<1> QED
  BY <1>3, <1>4, <1>5

LEMMA FinishedIsImpact ==
  ASSUME NEW P, IsGraph(P), NEW s \in Nat, NEW b, IsReach(b, P, s, MaxDepth),
         NEW l, Finished(l, P, s, b)
  PROVE  ImpactOf(l, P, s, b) /\ Complete(All(s, l), b)
<1> DEFINE A == All(s, l)
<1>1. Listing(A, s) /\ l \in Seq(Entries) /\ WalkedTo(A, P, s, b, Len(A))
  BY DEF Finished, WalkedTo
<1>2. MaxDepth \in Nat /\ StepByStep(b, P, s, MaxDepth)
  BY ReachSteps, DepthAssumption
<1>3. Complete(A, b)
  BY <1>1, <1>2, WalkEndsComplete
<1>4. /\ A[1] = Root(s) /\ Len(l) \in Nat /\ DOMAIN l = 1..Len(l) /\ DOMAIN A = 1..Len(l) + 1
      /\ \A i \in DOMAIN l : i + 1 \in DOMAIN A /\ A[i + 1] = l[i]
  BY <1>1, AllLists
<1> HIDE DEF A
<1>5. \A i \in DOMAIN l : /\ l[i].node # s
                          /\ l[i].distance \in Nat \ {0} /\ l[i].distance <= MaxDepth
                          /\ PathFrom(s, l[i], P) /\ l[i].node \in b[l[i].distance]
  BY ListedIsBelow
<1>6. \A j \in DOMAIN A : j = 1 \/ (j - 1 \in DOMAIN l /\ A[j] = l[j - 1])
  <2> SUFFICES ASSUME NEW j \in DOMAIN A, j # 1 PROVE j - 1 \in DOMAIN l /\ A[j] = l[j - 1]
    OBVIOUS
  <2>1. j - 1 \in DOMAIN l /\ (j - 1) + 1 = j
    BY <1>4
  <2> QED
    BY <1>4, <2>1
<1>7. \A i, j \in DOMAIN l : l[i].node = l[j].node => i = j
  <2> SUFFICES ASSUME NEW i \in DOMAIN l, NEW j \in DOMAIN l, l[i].node = l[j].node PROVE i = j
    OBVIOUS
  <2>1. i + 1 = j + 1
    BY <1>1, <1>4 DEF Listing
  <2> QED
    BY <1>4, <2>1
<1>8. ASSUME NEW i \in DOMAIN l PROVE l[i].node \in b[MaxDepth]
  <2>1. l[i].distance \in 0..MaxDepth /\ MaxDepth \in 0..MaxDepth
    BY <1>2, <1>5, <1>8
  <2>2. b[l[i].distance] \subseteq b[MaxDepth]
    <3>1. \A x, y \in 0..MaxDepth : x <= y => b[x] \subseteq b[y]
      BY <1>2, ReachGrows
    <3> QED
      BY <1>5, <2>1, <3>1
  <2> QED
    BY <1>5, <1>8, <2>2
<1>9. ASSUME NEW x \in b[MaxDepth], x # s PROVE \E i \in DOMAIN l : l[i].node = x
  <2>1. MaxDepth \in 0..MaxDepth
    BY <1>2
  <2>2. PICK j \in DOMAIN A : A[j].node = x
    BY <1>3, <2>1 DEF Complete
  <2>3. j # 1
    BY <1>4, <1>9, <2>2 DEF Root, Entry
  <2> QED
    BY <1>6, <2>2, <2>3
<1>10. ASSUME NEW i \in DOMAIN l PROVE l[i].node \notin b[l[i].distance - 1]
  <2> SUFFICES ASSUME l[i].node \in b[l[i].distance - 1] PROVE FALSE
    OBVIOUS
  <2>1. l[i].distance - 1 \in 0..MaxDepth
    BY <1>2, <1>5, <1>10
  <2>2. PICK j \in DOMAIN A : A[j].node = l[i].node /\ A[j].distance <= l[i].distance - 1
    BY <1>3, <2>1 DEF Complete
  <2>3. j = i + 1
    BY <1>1, <1>4, <1>10, <2>2 DEF Listing
  <2> QED
    BY <1>4, <1>5, <1>10, <2>2, <2>3
<1>11. {l[i].node : i \in DOMAIN l} = b[MaxDepth] \ {s}
  BY <1>5, <1>8, <1>9
<1> QED
  BY <1>3, <1>5, <1>7, <1>10, <1>11 DEF ImpactOf, A

\* With fewer edges nothing is found that is not found with more, as near.
LEMMA FewerEdgesFindLess ==
  ASSUME NEW P, IsGraph(P), NEW R, R \subseteq P, NEW s \in Nat,
         NEW b, IsReach(b, P, s, MaxDepth), NEW d, IsReach(d, R, s, MaxDepth),
         NEW m, Finished(m, P, s, b), NEW l, Finished(l, R, s, d),
         NEW i \in DOMAIN l
  PROVE  \E j \in DOMAIN m : m[j].node = l[i].node /\ m[j].distance <= l[i].distance
<1> DEFINE A == All(s, m)
<1>1. /\ l[i].node # s /\ l[i].distance \in 0..MaxDepth
      /\ l[i].node \in d[l[i].distance]
  <2>1. /\ l[i].node # s
        /\ l[i].distance \in Nat \ {0} /\ l[i].distance <= MaxDepth
        /\ l[i].node \in d[l[i].distance]
    BY ListedIsBelow
  <2> QED
    BY <2>1, DepthAssumption
<1>2. \A n \in 0..MaxDepth : d[n] \subseteq b[n]
  BY ReachOfMore, DepthAssumption
<1>3. Complete(A, b)
  BY FinishedIsImpact
<1>4. /\ A[1] = Root(s) /\ Len(m) \in Nat /\ DOMAIN m = 1..Len(m) /\ DOMAIN A = 1..Len(m) + 1
      /\ \A j \in DOMAIN m : j + 1 \in DOMAIN A /\ A[j + 1] = m[j]
  BY AllLists DEF Finished
<1> HIDE DEF A
<1>5. PICK j \in DOMAIN A : A[j].node = l[i].node /\ A[j].distance <= l[i].distance
  BY <1>1, <1>2, <1>3 DEF Complete
<1>6. j # 1
  BY <1>1, <1>4, <1>5 DEF Root, Entry
<1>7. j - 1 \in DOMAIN m /\ (j - 1) + 1 = j
  BY <1>4, <1>6
<1>8. A[j] = m[j - 1]
  BY <1>4, <1>7
<1> QED
  BY <1>5, <1>7, <1>8

-------------------------------------------------------------------------------
(***************************************************************************)
(* The second walk, over the edges between listed nodes, repeats the first *)
(* one if everything within reach is listed: after k turns its list A is   *)
(* what the list M of the first walk was after k turns.                    *)
(***************************************************************************)
Among(P, nodes) == {e \in P : {e[1], e[2]} \subseteq nodes}

Repeats(A, M, P, c, k) ==
  /\ Births(c, M, P, Len(M)) /\ k \in 0..Len(M)
  /\ Len(A) = c[k] /\ \A i \in DOMAIN A : A[i] = M[i]

LEMMA SameBelow ==
  ASSUME NEW P, IsGraph(P), NEW s, NEW b, IsReach(b, P, s, MaxDepth),
         NEW nodes, b[MaxDepth] \subseteq nodes,
         NEW entry \in Entries, entry.node \in b[entry.distance], NEW seen
  PROVE  Found(Among(P, nodes), entry, seen) = Found(P, entry, seen)
<1>1. CASE Deep(entry)
  BY <1>1 DEF Found, Unseen
<1>2. CASE ~Deep(entry)
  <2>1. entry.distance \in 0..MaxDepth /\ entry.distance + 1 \in 0..MaxDepth
        /\ MaxDepth \in 0..MaxDepth /\ entry.distance + 1 <= MaxDepth
        /\ entry.distance <= MaxDepth
    BY <1>2, DepthAssumption DEF Deep, Entries
  <2>2. \A x, y \in 0..MaxDepth : x <= y => b[x] \subseteq b[y]
    BY ReachGrows, DepthAssumption
  <2>3. StepByStep(b, P, s, MaxDepth)
    BY ReachSteps, DepthAssumption
  <2>4. b[entry.distance + 1] = b[entry.distance] \cup Successors(P, b[entry.distance])
    BY <2>1, <2>3 DEF StepByStep
  <2>5. b[entry.distance] \subseteq nodes /\ b[entry.distance + 1] \subseteq nodes
    BY <2>1, <2>2
  <2>6. ASSUME NEW f \in P, f[1] = entry.node PROVE f \in Among(P, nodes)
    <3>1. f[2] \in Successors(P, b[entry.distance])
      BY <2>6 DEF Successors
    <3> QED
      BY <2>4, <2>5, <2>6, <3>1 DEF Among
  <2>7. {f \in Among(P, nodes) : f[1] = entry.node} = {f \in P : f[1] = entry.node}
    BY <2>6 DEF Among
  <2>8. Unseen(entry, Among(P, nodes), seen) = Unseen(entry, P, seen)
    BY <2>7 DEF Unseen
  <2> QED
    BY <2>8 DEF Found
<1> QED
  BY <1>1, <1>2

LEMMA TurnRepeats ==
  ASSUME NEW P, IsGraph(P), NEW s \in Nat, NEW b, IsReach(b, P, s, MaxDepth),
         NEW nodes, b[MaxDepth] \subseteq nodes,
         NEW M, WalkedTo(M, P, s, b, Len(M)),
         NEW A2, NEW A, NEW d, NEW k, NEW f, InTurn(A2, A, Among(P, nodes), s, d, k, f),
         NEW c, Repeats(A, M, P, c, k)
  PROVE  Repeats(A2, M, P, c, k + 1)
<1> DEFINE entry == A[k + 1]
<1>1. /\ Len(A) \in Nat \ {0} /\ DOMAIN A = 1..Len(A) /\ k \in Nat /\ k + 1 \in DOMAIN A
      /\ entry \in Entries
  BY DomainOfListing DEF InTurn
<1>2. Listing(M, s) /\ Truthful(M, P, s, b)
  BY DEF WalkedTo
<1>3. Len(M) \in Nat \ {0} /\ DOMAIN M = 1..Len(M)
  BY <1>2, DomainOfListing
<1>4. /\ Len(A) = c[k] /\ c[k] \in 1..Len(M) /\ k \in 0..Len(M)
      /\ \A i \in DOMAIN A : A[i] = M[i]
  <2>1. c \in [0..Len(M) -> 1..Len(M)] /\ k \in 0..Len(M)
    BY DEF Repeats, Births
  <2> QED
    BY <2>1 DEF Repeats
<1>5. k + 1 \in DOMAIN M /\ k + 1 \in 0..Len(M) /\ k + 1 <= Len(M) /\ entry = M[k + 1]
  BY <1>1, <1>3, <1>4
<1>6. Follows(M, P, k, c[k], c[k + 1])
  BY <1>4, <1>5 DEF Repeats, Births
<1>7. Nodes(A) = {M[j].node : j \in 1..c[k]}
  BY <1>1, <1>4 DEF Nodes
<1>8. entry.node \in b[entry.distance]
  BY <1>2, <1>5 DEF Truthful
<1> HIDE DEF entry
<1>9. Found(P, entry, Nodes(A)) = f
  <2>1. Found(Among(P, nodes), entry, Nodes(A)) = Found(P, entry, Nodes(A))
    BY <1>1, <1>8, SameBelow
  <2> QED
    BY <2>1 DEF InTurn, entry
<1>10. c[k + 1] = c[k] + Len(f) /\ \A j \in DOMAIN f : M[c[k] + j] = f[j]
  BY <1>5, <1>6, <1>7, <1>9 DEF Follows
<1>11. Len(A2) = c[k + 1]
  BY <1>4, <1>10 DEF InTurn, IsLonger
<1>12. ASSUME NEW i \in DOMAIN A2 PROVE A2[i] = M[i]
  <2>1. CASE i \in DOMAIN A
    BY <1>4, <2>1 DEF InTurn, IsLonger
  <2>2. CASE i \notin DOMAIN A
    <3>1. i - Len(A) \in DOMAIN f /\ A2[i] = f[i - Len(A)]
      BY <1>12, <2>2 DEF InTurn, IsLonger
    <3>2. i \in Nat
      <4>1. A2 \in Seq(Entries)
        BY DEF InTurn, IsLonger
      <4> QED
        BY <1>12, <4>1
    <3>3. c[k] + (i - Len(A)) = i
      BY <1>1, <1>4, <3>2
    <3>4. M[c[k] + (i - Len(A))] = f[i - Len(A)]
      BY <1>10, <3>1
    <3> QED
      BY <3>1, <3>3, <3>4
  <2> QED
    BY <2>1, <2>2
<1> QED
  BY <1>5, <1>11, <1>12 DEF Repeats

\* When both walks are over, they have found the same.
LEMMA RepeatedIsEqual ==
  ASSUME NEW P, NEW s \in Nat, NEW m \in Seq(Entries), NEW l \in Seq(Entries),
         NEW c, Repeats(All(s, l), All(s, m), P, c, Len(All(s, l)))
  PROVE  l = m
<1> DEFINE A == All(s, l)
           M == All(s, m)
<1>1. /\ Len(A) = Len(l) + 1 /\ Len(l) \in Nat /\ DOMAIN l = 1..Len(l)
      /\ \A i \in DOMAIN l : i + 1 \in DOMAIN A /\ A[i + 1] = l[i]
  BY AllLists
<1>2. /\ Len(M) = Len(m) + 1 /\ Len(m) \in Nat /\ DOMAIN m = 1..Len(m)
      /\ \A i \in DOMAIN m : i + 1 \in DOMAIN M /\ M[i + 1] = m[i]
  BY AllLists
<1>3. /\ Births(c, M, P, Len(M)) /\ Len(A) \in 0..Len(M) /\ Len(A) = c[Len(A)]
      /\ \A i \in DOMAIN A : A[i] = M[i]
  BY DEF Repeats
<1> HIDE DEF A, M
<1>4. Len(A) = Len(M)
  <2>1. SUFFICES ASSUME Len(A) + 1 <= Len(M) PROVE FALSE
    BY <1>1, <1>2, <1>3
  <2>2. Len(A) < c[Len(A)]
    BY <1>3, <2>1 DEF Births
  <2> QED
    BY <1>1, <1>3, <2>2
<1>5. Len(l) = Len(m)
  <2>1. Len(l) + 1 = Len(m) + 1
    BY <1>1, <1>2, <1>4, Zenon
  <2>2. Len(l) \in Nat /\ Len(m) \in Nat
    BY <1>1, <1>2
  <2> QED
    BY <2>1, <2>2
<1>6. ASSUME NEW i \in 1..Len(l) PROVE l[i] = m[i]
  <2>1. i \in DOMAIN l /\ i \in DOMAIN m
    BY <1>1, <1>2, <1>5, <1>6
  <2>2. i + 1 \in DOMAIN A /\ A[i + 1] = l[i] /\ M[i + 1] = m[i]
    BY <1>1, <1>2, <2>1
  <2> QED
    BY <1>3, <2>2
<1>7. l = [i \in 1..Len(l) |-> l[i]] /\ m = [i \in 1..Len(m) |-> m[i]]
  OBVIOUS
<1> QED
  BY <1>5, <1>6, <1>7

-------------------------------------------------------------------------------
(***************************************************************************)
(* The walks of LineageTraversal: a walker has made the list l of entries, *)
(* with the queue q and the visited nodes v, along the graph P.            *)
(***************************************************************************)
Turns(l, q) == Len(l) + 1 - Len(q)

Walking(P, s, b, l, q, v) ==
  /\ l \in Seq(Entries) /\ q \in Seq(Entries)
  /\ Turns(l, q) \in Nat
  /\ \A i \in DOMAIN q : /\ Turns(l, q) + i \in DOMAIN All(s, l)
                         /\ q[i] = All(s, l)[Turns(l, q) + i]
  /\ v = Nodes(All(s, l))
  /\ WalkedTo(All(s, l), P, s, b, Turns(l, q))

LEMMA EmptyList ==
  ASSUME NEW s \in Nat
  PROVE  <<>> \in Seq(Entries) /\ All(s, <<>>) = <<Root(s)>>
<1>1. <<Root(s)>> \in Seq(Entries)
  BY RootIsEntry
<1>2. <<Root(s)>> \o <<>> = <<Root(s)>>
  BY <1>1, ConcatEmptySeq
<1> QED
  BY <1>2 DEF All

LEMMA WalkingStarts ==
  ASSUME NEW P, NEW s \in Nat, NEW b, IsReach(b, P, s, MaxDepth)
  PROVE  Walking(P, s, b, <<>>, <<Root(s)>>, {s})
<1> DEFINE q == <<Root(s)>>
           l == <<>>
<1>1. q \in Seq(Entries) /\ Len(q) = 1 /\ DOMAIN q = {1}
  BY RootIsEntry
<1>2. l \in Seq(Entries) /\ Len(l) = 0 /\ All(s, l) = q
  BY EmptyList
<1>3. Turns(l, q) = 0
  BY <1>1, <1>2 DEF Turns
<1>4. StepByStep(b, P, s, MaxDepth)
  BY ReachSteps, DepthAssumption
<1>5. WalkedTo(q, P, s, b, 0) /\ Nodes(q) = {s}
  BY <1>4, WalkStarts
<1> HIDE DEF q, l
<1>6. Walking(P, s, b, l, q, {s})
  BY <1>1, <1>2, <1>3, <1>5 DEF Walking
<1> QED
  BY <1>6 DEF l, q

LEMMA WalkingEnds ==
  ASSUME NEW P, NEW s \in Nat, NEW b, NEW l, NEW v, Walking(P, s, b, l, <<>>, v)
  PROVE  Finished(l, P, s, b) /\ Turns(l, <<>>) = Len(All(s, l))
<1>1. l \in Seq(Entries) /\ WalkedTo(All(s, l), P, s, b, Turns(l, <<>>))
  BY DEF Walking
<1>2. Len(All(s, l)) = Len(l) + 1 /\ Len(l) \in Nat
  BY <1>1, AllLists
<1>3. Turns(l, <<>>) = Len(All(s, l))
  BY <1>2 DEF Turns
<1> QED
  BY <1>1, <1>3 DEF Finished

\* What a turn starts from, and what it leaves.
AtTurn(P, s, b, l, q, v, f) ==
  /\ IsGraph(P) /\ s \in Nat /\ IsReach(b, P, s, MaxDepth)
  /\ Walking(P, s, b, l, q, v) /\ q # <<>>
  /\ f = Found(P, Head(q), v)

AfterTurn(P, s, b, l, q, v, f) ==
  /\ Walking(P, s, b, l \o f, Tail(q) \o f, v \cup ToSet(Unseen(Head(q), P, v)))
  /\ InTurn(All(s, l \o f), All(s, l), P, s, b, Turns(l, q), f)
  /\ Turns(l \o f, Tail(q) \o f) = Turns(l, q) + 1

LEMMA TurnIsTaken ==
  ASSUME NEW P, NEW s, NEW b, NEW l, NEW q, NEW v, NEW f, AtTurn(P, s, b, l, q, v, f)
  PROVE  AfterTurn(P, s, b, l, q, v, f)
<1> SUFFICES ASSUME IsGraph(P), s \in Nat, IsReach(b, P, s, MaxDepth),
                    Walking(P, s, b, l, q, v), q # <<>>, f = Found(P, Head(q), v)
             PROVE  AfterTurn(P, s, b, l, q, v, f)
  BY DEF AtTurn
<1> DEFINE A == All(s, l)
           k == Turns(l, q)
           rest == Tail(q)
           entry == Head(q)
           A2 == All(s, l \o f)
           l2 == l \o f
           q2 == rest \o f
<1>1. /\ l \in Seq(Entries) /\ q \in Seq(Entries) /\ k \in Nat
      /\ \A i \in DOMAIN q : k + i \in DOMAIN A /\ q[i] = A[k + i]
      /\ v = Nodes(A) /\ WalkedTo(A, P, s, b, k) /\ Listing(A, s)
  BY DEF Walking, WalkedTo
<1>2. /\ entry = q[1] /\ rest \in Seq(Entries) /\ Len(rest) = Len(q) - 1 /\ 1 \in DOMAIN q
      /\ \A i \in 1..Len(rest) : rest[i] = q[i + 1]
      /\ Len(q) \in Nat \ {0} /\ DOMAIN q = 1..Len(q)
  <2>1. Len(q) \in Nat \ {0} /\ DOMAIN q = 1..Len(q) /\ entry = q[1]
    BY <1>1, EmptySeq
  <2>2. /\ rest \in Seq(Entries) /\ Len(rest) = Len(q) - 1
        /\ \A i \in 1..Len(rest) : rest[i] = q[i + 1]
    BY <1>1, HeadTailProperties
  <2> HIDE DEF rest, entry
  <2> QED
    BY <2>1, <2>2
<1>3. k = Len(l) + 1 - Len(q)
  BY DEF Turns
<1>4. /\ A \in Seq(Entries) /\ Len(A) = Len(l) + 1 /\ Len(l) \in Nat
      /\ A = <<Root(s)>> \o l /\ <<Root(s)>> \in Seq(Entries)
  BY <1>1, AllLists, RootIsEntry DEF All
<1>5. A2 = <<Root(s)>> \o l2
  BY DEF All
<1> HIDE DEF A, k, rest, entry, A2
<1>6. k + 1 \in DOMAIN A /\ entry = A[k + 1] /\ entry \in Entries
  BY <1>1, <1>2
<1>7. f = Found(P, A[k + 1], Nodes(A))
  BY <1>1, <1>6 DEF entry
<1>8. /\ IsFound(f, P, A[k + 1], Nodes(A))
      /\ {f[i].node : i \in DOMAIN f} = ToSet(Unseen(entry, P, v))
  BY <1>1, <1>6, <1>7, FoundLists
<1>9. f \in Seq(Entries)
  BY <1>8 DEF IsFound
<1>10. A2 = A \o f
  BY <1>1, <1>4, <1>5, <1>9, ConcatAssociative
<1>11. IsLonger(A2, A, f)
  BY <1>4, <1>9, <1>10, ConcatIsLonger
<1>12. StepByStep(b, P, s, MaxDepth)
  BY ReachSteps, DepthAssumption
<1>13. InTurn(A2, A, P, s, b, k, f)
  BY <1>1, <1>6, <1>7, <1>8, <1>11, <1>12 DEF InTurn
<1>14. WalkedTo(A2, P, s, b, k + 1) /\ Nodes(A2) = v \cup ToSet(Unseen(entry, P, v))
  BY <1>1, <1>8, <1>13, TurnKeeps
<1>15. /\ l2 \in Seq(Entries) /\ Len(l2) = Len(l) + Len(f)
       /\ Len(f) \in Nat /\ DOMAIN f = 1..Len(f)
  BY <1>1, <1>9, ConcatProperties
<1>16. /\ q2 \in Seq(Entries) /\ Len(q2) = Len(rest) + Len(f)
       /\ \A i \in 1..Len(rest) + Len(f) :
            q2[i] = IF i <= Len(rest) THEN rest[i] ELSE f[i - Len(rest)]
  BY <1>2, <1>9, ConcatProperties
<1> HIDE DEF l2, q2
<1>17. Turns(l2, q2) = k + 1
  BY <1>2, <1>3, <1>4, <1>15, <1>16 DEF Turns
<1>18. ASSUME NEW i \in DOMAIN q2
       PROVE  (k + 1) + i \in DOMAIN A2 /\ q2[i] = A2[(k + 1) + i]
  <2>1. i \in 1..Len(rest) + Len(f) /\ i \in Nat
    BY <1>16, <1>18
  <2>2. CASE i <= Len(rest)
    <3>1. i \in 1..Len(rest) /\ i + 1 \in DOMAIN q
      BY <1>2, <2>1, <2>2
    <3>2. q2[i] = q[i + 1]
      BY <1>2, <1>16, <2>1, <2>2, <3>1
    <3>3. k + (i + 1) \in DOMAIN A /\ q[i + 1] = A[k + (i + 1)]
      BY <1>1, <3>1
    <3>4. k + (i + 1) = (k + 1) + i
      BY <1>1, <2>1
    <3> QED
      BY <1>11, <3>2, <3>3, <3>4 DEF IsLonger
  <2>3. CASE ~(i <= Len(rest))
    <3>1. i - Len(rest) \in DOMAIN f
      BY <1>2, <1>15, <2>1, <2>3
    <3>2. q2[i] = f[i - Len(rest)]
      BY <1>16, <2>1, <2>3
    <3>3. Len(A) + (i - Len(rest)) = (k + 1) + i
      BY <1>2, <1>3, <1>4, <2>1
    <3> QED
      BY <1>11, <3>1, <3>2, <3>3 DEF IsLonger
  <2> QED
    BY <2>2, <2>3
<1>19. Walking(P, s, b, l2, q2, v \cup ToSet(Unseen(entry, P, v)))
  BY <1>1, <1>14, <1>15, <1>16, <1>17, <1>18 DEF Walking, A2, l2
<1> QED
  BY <1>13, <1>17, <1>19 DEF AfterTurn, A, k, rest, entry, A2, l2, q2

LEMMA BelowIsReach ==
  ASSUME NEW P, NEW s
  PROVE  IsReach(Below(P, s), P, s, MaxDepth)
<1>1. Below(P, s) = CHOOSE within : IsReach(within, P, s, MaxDepth)
  BY DEF Below, IsReach, Successors
<1>2. \E within : IsReach(within, P, s, MaxDepth)
  BY ReachExists, DepthAssumption
<1> QED
  BY <1>1, <1>2

\* The state of the walks over the edges es from s with the listed nodes ls: who walks (w), the
\* queue, the visited nodes, and the two lists.
WalkOf(P, s, l, q, v) == Walking(P, s, Below(P, s), l, q, v)
ResultOf(P, s, l) == Finished(l, P, s, Below(P, s))
Reaches(es, s) == Below(es, s)[MaxDepth]

Sound(es, s, ls, w, q, v, p, x) ==
  /\ IsGraph(es) /\ s \in Nat
  /\ w = "pipeline" => WalkOf(es, s, p, q, v) /\ x = <<>>
  /\ w = "web" =>
       /\ ResultOf(es, s, p)
       /\ WalkOf(Among(es, ls), s, x, q, v)
       /\ Reaches(es, s) \subseteq ls =>
            \E c : Repeats(All(s, x), All(s, p), es, c, Turns(x, q))
  /\ w = "nobody" =>
       /\ ResultOf(es, s, p)
       /\ ResultOf(Among(es, ls), s, x)
       /\ Reaches(es, s) \subseteq ls => x = p

LEMMA AmongIsGraph ==
  ASSUME NEW es, IsGraph(es), NEW ls
  PROVE  IsGraph(Among(es, ls)) /\ Among(es, ls) \subseteq es
<1>1. Among(es, ls) \in SUBSET es
  BY DEF Among
<1>2. IsFiniteSet(Among(es, ls))
  BY <1>1, FS_Subset DEF IsGraph
<1> QED
  BY <1>1, <1>2 DEF IsGraph

LEMMA SoundBegins ==
  ASSUME NEW es, IsGraph(es), NEW s \in Nat, NEW ls
  PROVE  Sound(es, s, ls, "pipeline", <<Root(s)>>, {s}, <<>>, <<>>)
<1>1. WalkOf(es, s, <<>>, <<Root(s)>>, {s})
  BY BelowIsReach, WalkingStarts DEF WalkOf
<1> QED
  BY <1>1 DEF Sound

LEMMA PipelineTurn ==
  ASSUME NEW es, NEW s, NEW ls, NEW q, NEW v, NEW p, NEW x,
         Sound(es, s, ls, "pipeline", q, v, p, x), q # <<>>,
         NEW f, f = Found(es, Head(q), v), NEW u, u = ToSet(Unseen(Head(q), es, v))
  PROVE  Sound(es, s, ls, "pipeline", Tail(q) \o f, v \cup u, p \o f, x)
<1>1. IsGraph(es) /\ s \in Nat /\ WalkOf(es, s, p, q, v) /\ x = <<>>
  BY DEF Sound
<1>2. Walking(es, s, Below(es, s), p, q, v) /\ IsReach(Below(es, s), es, s, MaxDepth)
  BY <1>1, BelowIsReach DEF WalkOf
<1>3. AtTurn(es, s, Below(es, s), p, q, v, f)
  BY <1>1, <1>2 DEF AtTurn
<1>4. Walking(es, s, Below(es, s), p \o f, Tail(q) \o f, v \cup u)
  BY <1>3, TurnIsTaken DEF AfterTurn
<1> QED
  BY <1>1, <1>4 DEF Sound, WalkOf

LEMMA WebTurn ==
  ASSUME NEW es, NEW s, NEW ls, NEW q, NEW v, NEW p, NEW x,
         Sound(es, s, ls, "web", q, v, p, x), q # <<>>,
         NEW f, f = Found(Among(es, ls), Head(q), v),
         NEW u, u = ToSet(Unseen(Head(q), Among(es, ls), v))
  PROVE  Sound(es, s, ls, "web", Tail(q) \o f, v \cup u, p, x \o f)
<1> DEFINE R == Among(es, ls)
           d == Below(R, s)
           b == Below(es, s)
           q2 == Tail(q) \o f
           x2 == x \o f
<1>1. IsGraph(es) /\ s \in Nat /\ ResultOf(es, s, p) /\ WalkOf(R, s, x, q, v)
  BY DEF Sound
<1>2. /\ IsGraph(R) /\ IsReach(d, R, s, MaxDepth) /\ IsReach(b, es, s, MaxDepth)
      /\ Walking(R, s, d, x, q, v) /\ Finished(p, es, s, b)
  BY <1>1, AmongIsGraph, BelowIsReach DEF WalkOf, ResultOf
<1>3. f = Found(R, Head(q), v) /\ u = ToSet(Unseen(Head(q), R, v))
  OBVIOUS
<1> HIDE DEF R, d, b
<1>4. /\ Walking(R, s, d, x2, q2, v \cup u)
      /\ InTurn(All(s, x2), All(s, x), R, s, d, Turns(x, q), f)
      /\ Turns(x2, q2) = Turns(x, q) + 1
  <2>1. /\ Walking(R, s, d, x \o f, Tail(q) \o f, v \cup ToSet(Unseen(Head(q), R, v)))
        /\ InTurn(All(s, x \o f), All(s, x), R, s, d, Turns(x, q), f)
        /\ Turns(x \o f, Tail(q) \o f) = Turns(x, q) + 1
    <3>1. AtTurn(R, s, d, x, q, v, f)
      BY <1>1, <1>2, <1>3 DEF AtTurn
    <3> QED
      BY <3>1, TurnIsTaken DEF AfterTurn
  <2> QED
    BY <1>3, <2>1
<1> HIDE DEF x2, q2
<1>5. ASSUME Reaches(es, s) \subseteq ls
      PROVE  \E c : Repeats(All(s, x2), All(s, p), es, c, Turns(x2, q2))
  <2>1. PICK c : Repeats(All(s, x), All(s, p), es, c, Turns(x, q))
    BY <1>5 DEF Sound
  <2>2. WalkedTo(All(s, p), es, s, b, Len(All(s, p)))
    BY <1>2 DEF Finished
  <2>3. b[MaxDepth] \subseteq ls
    BY <1>5 DEF Reaches, b
  <2>4. InTurn(All(s, x2), All(s, x), Among(es, ls), s, d, Turns(x, q), f)
    BY <1>4 DEF R
  <2>5. Repeats(All(s, x2), All(s, p), es, c, Turns(x, q) + 1)
    BY <1>1, <1>2, <2>1, <2>2, <2>3, <2>4, TurnRepeats
  <2> QED
    BY <1>4, <2>5
<1>6. WalkOf(R, s, x2, q2, v \cup u)
  BY <1>4 DEF WalkOf, d
<1> QED
  BY <1>1, <1>5, <1>6 DEF Sound, R, x2, q2

\* The pipeline is done, and the web application starts.
LEMMA SoundTurns ==
  ASSUME NEW es, NEW s, NEW ls, NEW v, NEW p, NEW x, Sound(es, s, ls, "pipeline", <<>>, v, p, x)
  PROVE  Sound(es, s, ls, "web", <<Root(s)>>, {s}, p, x)
<1> DEFINE b == Below(es, s)
           M == All(s, p)
           A == <<Root(s)>>
<1>1. IsGraph(es) /\ s \in Nat /\ Walking(es, s, b, p, <<>>, v) /\ x = <<>>
  BY DEF Sound, WalkOf
<1>2. Finished(p, es, s, b) /\ p \in Seq(Entries)
  BY <1>1, WalkingEnds DEF Finished
<1>3. Walking(Among(es, ls), s, Below(Among(es, ls), s), <<>>, A, {s})
  BY <1>1, BelowIsReach, WalkingStarts
<1>4. Listing(M, s) /\ Born(M, es, Len(M))
  BY <1>2 DEF Finished, WalkedTo
<1>5. PICK c : Births(c, M, es, Len(M))
  BY <1>4 DEF Born
<1>6. Len(M) \in Nat \ {0} /\ M[1] = Root(s)
  BY <1>4, DomainOfListing DEF Listing
<1>7. All(s, <<>>) = A /\ Len(A) = 1 /\ DOMAIN A = {1} /\ A[1] = Root(s)
  BY <1>1, EmptyList
<1>8. c[0] = 1
  BY <1>5 DEF Births
<1>9. Turns(<<>>, A) = 0
  BY <1>7 DEF Turns
<1> HIDE DEF A, M, b
<1>10. Repeats(A, M, es, c, 0)
  BY <1>5, <1>6, <1>7, <1>8 DEF Repeats
<1>11. \E e : Repeats(All(s, x), M, es, e, Turns(x, A))
  BY <1>1, <1>7, <1>9, <1>10
<1> QED
  BY <1>1, <1>2, <1>3, <1>11 DEF Sound, WalkOf, ResultOf, A, M, b

LEMMA SoundFinishes ==
  ASSUME NEW es, NEW s, NEW ls, NEW v, NEW p, NEW x, Sound(es, s, ls, "web", <<>>, v, p, x),
         NEW q, NEW w
  PROVE  Sound(es, s, ls, "nobody", q, w, p, x)
<1>1. /\ IsGraph(es) /\ s \in Nat /\ ResultOf(es, s, p)
      /\ Walking(Among(es, ls), s, Below(Among(es, ls), s), x, <<>>, v)
  BY DEF Sound, WalkOf
<1>2. /\ Finished(x, Among(es, ls), s, Below(Among(es, ls), s))
      /\ Turns(x, <<>>) = Len(All(s, x))
  BY <1>1, WalkingEnds
<1>3. p \in Seq(Entries) /\ x \in Seq(Entries)
  BY <1>1, <1>2 DEF ResultOf, Finished
<1>4. ASSUME Reaches(es, s) \subseteq ls PROVE x = p
  <2>1. PICK c : Repeats(All(s, x), All(s, p), es, c, Len(All(s, x)))
    BY <1>2, <1>4 DEF Sound
  <2> QED
    BY <1>1, <1>3, <2>1, RepeatedIsEqual
<1> QED
  BY <1>1, <1>2, <1>4 DEF Sound, ResultOf

\* The invariant of both walks.
WalkInv ==
  /\ walker \in {"nobody", "pipeline", "web"}
  /\ impact = [pipeline |-> impact.pipeline, web |-> impact.web]
  /\ start = 0 => walker = "nobody" /\ impact = Nobody
  /\ start # 0 =>
       Sound(edges, start, listed, walker, queue, visited, impact.pipeline, impact.web)

-------------------------------------------------------------------------------
(***************************************************************************)
(* From the lists of the walks to the invariant of Assessment.             *)
(***************************************************************************)
LEMMA ImpactIsImpact ==
  ASSUME NEW P, IsGraph(P), start \in Nat, NEW l, ResultOf(P, start, l)
  PROVE  IsImpact(l, P)
<1>1. ImpactOf(l, P, start, Below(P, start))
  BY BelowIsReach, FinishedIsImpact DEF ResultOf
<1>2. \A entry : PathFrom(start, entry, P) <=> IsPath(entry, P)
  BY DEF PathFrom, IsPath
<1> QED
  BY <1>1, <1>2 DEF ImpactOf, IsImpact

LEMMA SoundIsAgreement ==
  ASSUME Sound(edges, start, listed, "nobody", queue, visited, impact.pipeline, impact.web)
  PROVE  ImpactsAgree
<1> DEFINE P == edges
           R == Among(edges, listed)
           m == impact.pipeline
           l == impact.web
<1>1. /\ IsGraph(P) /\ start \in Nat /\ ResultOf(P, start, m) /\ ResultOf(R, start, l)
      /\ Below(P, start)[MaxDepth] \subseteq listed => l = m
  BY DEF Sound, Reaches
<1>2. R = {e \in edges : {e[1], e[2]} \subseteq listed}
  BY DEF Among
<1>3. IsGraph(R) /\ R \subseteq P
  BY <1>1, AmongIsGraph
<1> HIDE DEF R
<1>4. IsImpact(m, P) /\ IsImpact(l, R)
  BY <1>1, <1>3, ImpactIsImpact
<1>5. ASSUME NEW i \in DOMAIN l
      PROVE  \E j \in DOMAIN m : m[j].node = l[i].node /\ m[j].distance <= l[i].distance
  <2>1. IsReach(Below(P, start), P, start, MaxDepth) /\ IsReach(Below(R, start), R, start, MaxDepth)
    BY BelowIsReach
  <2>2. Finished(m, P, start, Below(P, start)) /\ Finished(l, R, start, Below(R, start))
    BY <1>1 DEF ResultOf
  <2> QED
    BY <1>1, <1>3, <1>5, <2>1, <2>2, FewerEdgesFindLess
<1> QED
  BY <1>1, <1>2, <1>4, <1>5 DEF ImpactsAgree, ImpactIsShortest, PageMatchesSnapshot

LEMMA WalkInvIsAgreement == WalkInv => ImpactsAgree
<1> SUFFICES ASSUME WalkInv PROVE ImpactsAgree
  OBVIOUS
<1>1. CASE Walks
  BY <1>1, SoundIsAgreement DEF WalkInv, Walks
<1>2. CASE ~Walks
  BY <1>2 DEF ImpactsAgree, ImpactIsShortest, PageMatchesSnapshot
<1> QED
  BY <1>1, <1>2

LEMMA BeginKeeps ==
  ASSUME WalkInv, Unasked, AskImpact
  PROVE  WalkInv'
<1>1. PICK g \in Graphs : Begin(g.edges, g.start, g.listed)
  BY DEF AskImpact
<1>2. IsGraph(g.edges) /\ g.start \in Nat \ {0}
  BY GraphAssumption DEF IsGraph
<1>3. impact = Nobody
  BY DEF WalkInv, Unasked
<1>4. /\ edges' = g.edges /\ start' = g.start /\ listed' = g.listed /\ walker' = "pipeline"
      /\ queue' = <<Root(g.start)>> /\ visited' = {g.start} /\ impact' = Nobody
  BY <1>1, <1>3 DEF Begin, Root
<1>5. Sound(g.edges, g.start, g.listed, "pipeline", <<Root(g.start)>>, {g.start}, <<>>, <<>>)
  BY <1>2, SoundBegins
<1>6. Nobody.pipeline = <<>> /\ Nobody.web = <<>>
      /\ Nobody = [pipeline |-> Nobody.pipeline, web |-> Nobody.web]
  BY DEF Nobody
<1> QED
  BY <1>2, <1>4, <1>5, <1>6 DEF WalkInv

LEMMA VisitKeeps ==
  ASSUME WalkInv, Visit
  PROVE  WalkInv'
<1> DEFINE p == impact.pipeline
           x == impact.web
           f == Found(Walked, Head(queue), visited)
           u == ToSet(Unseen(Head(queue), Walked, visited))
<1>1. start # 0 /\ queue # <<>> /\ walker \in {"pipeline", "web"}
  BY DEF WalkInv, Visit
<1>2. Sound(edges, start, listed, walker, queue, visited, p, x)
  BY <1>1 DEF WalkInv
<1>3. /\ queue' = Tail(queue) \o f /\ visited' = visited \cup u
      /\ impact' = [impact EXCEPT ![walker] = @ \o f]
      /\ edges' = edges /\ start' = start /\ listed' = listed /\ walker' = walker
  BY DEF Visit, Marked, Found
<1>4. impact = [pipeline |-> p, web |-> x]
  BY DEF WalkInv
<1>5. CASE walker = "pipeline"
  <2>1. Walked = edges
    BY <1>5 DEF Walked
  <2>2. f = Found(edges, Head(queue), visited) /\ u = ToSet(Unseen(Head(queue), edges, visited))
    BY <2>1
  <2> HIDE DEF f, u, p, x
  <2>3. impact' = [pipeline |-> p \o f, web |-> x]
    BY <1>3, <1>4, <1>5
  <2>4. Sound(edges, start, listed, "pipeline", queue, visited, p, x)
    BY <1>2, <1>5
  <2>5. Sound(edges, start, listed, "pipeline", Tail(queue) \o f, visited \cup u, p \o f, x)
    BY <1>1, <2>2, <2>4, PipelineTurn
  <2>6. impact'.pipeline = p \o f /\ impact'.web = x
        /\ impact' = [pipeline |-> impact'.pipeline, web |-> impact'.web]
    BY <2>3
  <2> QED
    BY <1>1, <1>3, <1>5, <2>5, <2>6 DEF WalkInv
<1>6. CASE walker = "web"
  <2>1. Walked = Among(edges, listed)
    BY <1>6 DEF Walked, Among
  <2>2. /\ f = Found(Among(edges, listed), Head(queue), visited)
        /\ u = ToSet(Unseen(Head(queue), Among(edges, listed), visited))
    BY <2>1
  <2> HIDE DEF f, u, p, x
  <2>3. impact' = [pipeline |-> p, web |-> x \o f]
    BY <1>3, <1>4, <1>6
  <2>4. Sound(edges, start, listed, "web", queue, visited, p, x)
    BY <1>2, <1>6
  <2>5. Sound(edges, start, listed, "web", Tail(queue) \o f, visited \cup u, p, x \o f)
    BY <1>1, <2>2, <2>4, WebTurn
  <2>6. impact'.pipeline = p /\ impact'.web = x \o f
        /\ impact' = [pipeline |-> impact'.pipeline, web |-> impact'.web]
    BY <2>3
  <2> QED
    BY <1>1, <1>3, <1>6, <2>5, <2>6 DEF WalkInv
<1> QED
  BY <1>1, <1>5, <1>6

LEMMA TurnOrFinishKeeps ==
  ASSUME WalkInv, Turn \/ Finish
  PROVE  WalkInv'
<1> DEFINE p == impact.pipeline
           x == impact.web
<1>1. start # 0 /\ queue = <<>> /\ walker \in {"pipeline", "web"}
  BY DEF WalkInv, Turn, Finish
<1>2. Sound(edges, start, listed, walker, queue, visited, p, x)
  BY <1>1 DEF WalkInv
<1>3. /\ impact = [pipeline |-> p, web |-> x] /\ impact' = impact
      /\ edges' = edges /\ start' = start /\ listed' = listed
  BY DEF WalkInv, Turn, Finish
<1>4. CASE Turn
  <2>1. walker' = "web" /\ queue' = <<Root(start)>> /\ visited' = {start}
    BY <1>4 DEF Turn, Root
  <2>2. Sound(edges, start, listed, "pipeline", <<>>, visited, p, x)
    BY <1>1, <1>2, <1>4 DEF Turn
  <2>3. Sound(edges, start, listed, "web", <<Root(start)>>, {start}, p, x)
    BY <2>2, SoundTurns
  <2> QED
    BY <1>1, <1>3, <2>1, <2>3 DEF WalkInv
<1>5. CASE Finish
  <2>1. walker' = "nobody" /\ queue' = queue /\ visited' = visited
    BY <1>5 DEF Finish
  <2>2. Sound(edges, start, listed, "web", <<>>, visited, p, x)
    BY <1>1, <1>2, <1>5 DEF Finish
  <2>3. Sound(edges, start, listed, "nobody", queue, visited, p, x)
    BY <2>2, SoundFinishes
  <2> QED
    BY <1>1, <1>3, <2>1, <2>3 DEF WalkInv
<1> QED
  BY <1>4, <1>5

\* Both lineage walks of the code find every node within the depth once and by a shortest path,
\* and agree as far as the page reads the graph, for every graph of the database, with cycles
\* or without, every choice of listed nodes and every maximal depth.
THEOREM ImpactsAgreeHolds == Spec => []ImpactsAgree
<1>1. Init => WalkInv
  BY DEF Init, WalkInit, WalkInv, Nobody
<1>2. WalkInv /\ [Next]_vars => WalkInv'
  <2> SUFFICES ASSUME WalkInv, [Next]_vars PROVE WalkInv'
    OBVIOUS
  <2>1. ASSUME UNCHANGED walkVars PROVE WalkInv'
    BY <2>1 DEF WalkInv, walkVars
  <2>2. CASE AskRules \/ AskScore \/ AskPolls \/ AskCause \/ AskDrift \/ AskSchema
    BY <2>1, <2>2 DEF AskRules, AskScore, AskPolls, AskCause, AskDrift, AskSchema, Asks
  <2>3. CASE Unasked /\ AskImpact
    BY <2>3, BeginKeeps
  <2>4. CASE Walk
    BY <2>4, VisitKeeps, TurnOrFinishKeeps DEF Walk
  <2>5. CASE UNCHANGED vars
    BY <2>1, <2>5 DEF vars
  <2> QED
    BY <2>2, <2>3, <2>4, <2>5 DEF Next
<1> QED
  BY <1>1, <1>2, WalkInvIsAgreement, PTL DEF Spec

-------------------------------------------------------------------------------
(***************************************************************************)
(* The quality rules.                                                      *)
(***************************************************************************)
IsContext(c) ==
  /\ DOMAIN c = {"type", "now", "observations", "runs"}
  /\ c.type \in {"weather", "earthquake"} /\ c.now \in Int
  /\ c.observations \in Seq(Range(c.observations))
  /\ \A i \in DOMAIN c.observations : c.observations[i].at \in Int
  /\ c.runs \in Seq(Range(c.runs))
  /\ \A i \in DOMAIN c.runs : c.runs[i].received \in Nat

\* The rules a dataset has, with the parameters their evaluators ask for.
IsDefault(r) ==
  \/ \E minutes \in Nat : r = FreshWithin(minutes)
  \/ \E name : r = CompleteColumn(name)
  \/ \E name, low : r = AtLeast(name, low)
  \/ \E name, low, high : r = Between(name, low, high)
  \/ r \in {Continuous, UniqueKey, UsualVolume}

LEMMA DefaultsAreDefault ==
  ASSUME NEW type \in {"weather", "earthquake"}, NEW i \in DOMAIN DefaultRules[type]
  PROVE  IsDefault(DefaultRules[type][i])
<1>0. /\ \A minutes \in Nat : IsDefault(FreshWithin(minutes))
      /\ \A name : IsDefault(CompleteColumn(name))
      /\ \A name, low : IsDefault(AtLeast(name, low))
      /\ \A name, low, high : IsDefault(Between(name, low, high))
      /\ IsDefault(Continuous) /\ IsDefault(UniqueKey) /\ IsDefault(UsualVolume)
  BY Zenon DEF IsDefault
<1>1. CASE type = "weather"
  <2>1. DefaultRules[type] =
          <<FreshWithin(180), CompleteColumn("temperature_c"),
            Between("temperature_c", -90, 60), Between("relative_humidity_pct", 0, 100),
            AtLeast("precipitation_mm", 0), Continuous, UniqueKey, UsualVolume>>
    BY <1>1 DEF DefaultRules
  <2>2. i \in 1..8
    BY <2>1
  <2>3. DefaultRules[type][i] \in
          {FreshWithin(180), CompleteColumn("temperature_c"),
           Between("temperature_c", -90, 60), Between("relative_humidity_pct", 0, 100),
           AtLeast("precipitation_mm", 0), Continuous, UniqueKey, UsualVolume}
    BY <2>1, <2>2
  <2> QED
    BY <1>0, <2>3
<1>2. CASE type = "earthquake"
  <2>1. DefaultRules[type] =
          <<FreshWithin(1440), CompleteColumn("event_id"), UniqueKey,
            Between("magnitude", -2, 10), Between("latitude", -90, 90),
            Between("longitude", -180, 180), Between("depth_km", -10, 1000), UsualVolume>>
    BY <1>2 DEF DefaultRules
  <2>2. i \in 1..8
    BY <2>1
  <2>3. DefaultRules[type][i] \in
          {FreshWithin(1440), CompleteColumn("event_id"), UniqueKey,
           Between("magnitude", -2, 10), Between("latitude", -90, 90),
           Between("longitude", -180, 180), Between("depth_km", -10, 1000), UsualVolume}
    BY <2>1, <2>2
  <2> QED
    BY <1>0, <2>3
<1> QED
  BY <1>1, <1>2

LEMMA RequiredOf ==
  /\ DOMAIN Required = {"freshness", "completeness", "uniqueness", "range", "volume", "timestamp_gap"}
  /\ Required["freshness"] = {"max_age_minutes"}
  /\ Required["completeness"] = {"column", "max_null_rate"}
  /\ Required["uniqueness"] = {} /\ Required["volume"] = {}
  /\ Required["range"] = {"column"}
  /\ Required["timestamp_gap"] = {"expected_interval_minutes", "maximum_allowed_gap_minutes"}
BY DEF Required

\* A default rule is skipped or evaluated.
LEMMA DefaultIsEvaluated ==
  ASSUME NEW c, NEW r, IsDefault(r)
  PROVE  /\ NotApplicable(c, r) => Evaluate(c, r) = Skipped
         /\ ~NotApplicable(c, r) =>
              /\ r.type = "freshness" => Evaluate(c, r) = Freshness(c, r)
              /\ r.type = "completeness" => Evaluate(c, r) = Completeness(c, r)
              /\ r.type = "uniqueness" => Evaluate(c, r) = Uniqueness(c, r)
              /\ r.type = "range" => Evaluate(c, r) = InRange(c, r)
              /\ r.type = "timestamp_gap" => Evaluate(c, r) = TimestampGap(c, r)
              /\ r.type = "volume" => Evaluate(c, r) = Volume(c, r)
<1>1. r.type \in DOMAIN Required /\ Required[r.type] \subseteq DOMAIN r.config
  <2>1. CASE \E minutes \in Nat : r = FreshWithin(minutes)
    BY <2>1, RequiredOf DEF FreshWithin
  <2>2. CASE \E name : r = CompleteColumn(name)
    BY <2>2, RequiredOf DEF CompleteColumn
  <2>3. CASE \E name, low : r = AtLeast(name, low)
    BY <2>3, RequiredOf DEF AtLeast
  <2>4. CASE \E name, low, high : r = Between(name, low, high)
    BY <2>4, RequiredOf DEF Between
  <2>5. CASE r \in {Continuous, UniqueKey, UsualVolume}
    BY <2>5, RequiredOf DEF Continuous, UniqueKey, UsualVolume
  <2> QED
    BY <2>1, <2>2, <2>3, <2>4, <2>5 DEF IsDefault
<1>2. NotApplicable(c, r) => Evaluate(c, r) = Skipped
  BY <1>1, Zenon DEF Evaluate
<1>3. ASSUME ~NotApplicable(c, r)
      PROVE  Evaluate(c, r) =
               CASE r.type = "freshness" -> Freshness(c, r)
                 [] r.type = "completeness" -> Completeness(c, r)
                 [] r.type = "uniqueness" -> Uniqueness(c, r)
                 [] r.type = "range" -> InRange(c, r)
                 [] r.type = "timestamp_gap" -> TimestampGap(c, r)
                 [] r.type = "volume" -> Volume(c, r)
  BY <1>1, <1>3, Zenon DEF Evaluate
<1> QED
  BY <1>2, <1>3, Zenon

\* The parameters of a default rule follow from its type.
LEMMA DefaultParameters ==
  ASSUME NEW r, IsDefault(r)
  PROVE  /\ r.type = "freshness" => r.config["max_age_minutes"] \in Nat
         /\ r.type = "completeness" => r.config["max_null_rate"] = 0
         /\ r.type = "timestamp_gap" => r.config["maximum_allowed_gap_minutes"] = 90
<1>1. CASE \E minutes \in Nat : r = FreshWithin(minutes)
  BY <1>1 DEF FreshWithin
<1>2. CASE \E name : r = CompleteColumn(name)
  BY <1>2 DEF CompleteColumn
<1>3. CASE \E name, low : r = AtLeast(name, low)
  BY <1>3 DEF AtLeast
<1>4. CASE \E name, low, high : r = Between(name, low, high)
  BY <1>4 DEF Between
<1>5. CASE r \in {Continuous, UniqueKey, UsualVolume}
  BY <1>5 DEF Continuous, UniqueKey, UsualVolume
<1> QED
  BY <1>1, <1>2, <1>3, <1>4, <1>5 DEF IsDefault

\* What the properties take for the results of a type: each of a default rule.
LEMMA ResultsAreDefault ==
  ASSUME IsContext(question.context), NEW type, NEW x \in ResultsOf(type)
  PROVE  /\ IsDefault(x.rule) /\ x.rule.type = type
         /\ x.result = Evaluate(question.context, x.rule)
<1> DEFINE rules == DefaultRules[question.context.type]
<1>1. PICK i \in {j \in DOMAIN rules : rules[j].type = type} :
        x = [rule |-> rules[i], result |-> Evaluate(question.context, rules[i])]
  BY DEF ResultsOf
<1>2. IsDefault(rules[i])
  BY DefaultsAreDefault DEF IsContext
<1> QED
  BY <1>1, <1>2

LEMMA ContextIsFinite ==
  ASSUME NEW c, IsContext(c)
  PROVE  /\ DOMAIN c.observations = 1..Len(c.observations) /\ Len(c.observations) \in Nat
         /\ c.observations = <<>> <=> DOMAIN c.observations = {}
         /\ IsFiniteSet(DOMAIN c.observations)
         /\ Cardinality(DOMAIN c.observations) = Len(c.observations)
         /\ \A part \in SUBSET DOMAIN c.observations :
              IsFiniteSet(part) /\ Cardinality(part) \in Nat
<1> DEFINE o == c.observations
<1>1. o \in Seq(Range(o))
  BY DEF IsContext
<1> HIDE DEF o
<1>2. DOMAIN o = 1..Len(o) /\ Len(o) \in Nat
  BY <1>1
<1>3. o = <<>> <=> DOMAIN o = {}
  <2>1. o = <<>> <=> Len(o) = 0
    BY <1>1
  <2> QED
    BY <1>2, <2>1
<1>4. IsFiniteSet(DOMAIN o) /\ Cardinality(DOMAIN o) = Len(o)
  <2>1. IsFiniteSet(1..Len(o)) /\ Cardinality(1..Len(o)) = IF 1 > Len(o) THEN 0 ELSE Len(o) - 1 + 1
    BY <1>2, FS_Interval
  <2> QED
    BY <1>2, <2>1
<1>5. \A part \in SUBSET DOMAIN o : IsFiniteSet(part) /\ Cardinality(part) \in Nat
  BY <1>4, PartIsSmaller
<1> QED
  BY <1>2, <1>3, <1>4, <1>5 DEF o

LEMMA LargestIsLargest ==
  ASSUME NEW S \in SUBSET Int, IsFiniteSet(S), S # {}
  PROVE  Largest(S) \in S /\ \A x \in S : x <= Largest(S)
<1> DEFINE same == [x \in S |-> x]
<1>1. \A x \in S : same[x] = x /\ same[x] \in Int
  OBVIOUS
<1> HIDE DEF same
<1>2. \E x \in S : \A y \in S : same[y] <= same[x]
  BY <1>1, LatestExists
<1>3. \E x \in S : \A y \in S : y <= x
  BY <1>1, <1>2
<1> QED
  BY <1>3 DEF Largest

\* The newest observation decides.
LEMMA FreshIffRecentNow ==
  ASSUME IsContext(question.context), NEW r, IsDefault(r), r.type = "freshness",
         DOMAIN question.context.observations # {}
  PROVE  Evaluate(question.context, r).status = "PASS" <=>
           \E i \in Observed : At(i) >= question.context.now - r.config["max_age_minutes"]
<1> DEFINE c == question.context
           T == Times(c)
           limit == r.config["max_age_minutes"]
<1>1. c.now \in Int /\ limit \in Nat
  BY DefaultParameters DEF IsContext
<1>2. \A i \in Observed : At(i) \in Int /\ At(i) \in T
  BY DEF IsContext, Observed, At, Times
<1>3. \A t \in T : \E i \in Observed : At(i) = t
  BY DEF Observed, At, Times
<1>4. T \in SUBSET Int /\ T # {}
  BY <1>2, <1>3 DEF Observed
<1>5. IsFiniteSet(T)
  <2> DEFINE at == [i \in Observed |-> At(i)]
  <2>1. at \in Surjection(Observed, T)
    BY <1>2, <1>3 DEF Surjection
  <2>2. IsFiniteSet(Observed)
    BY ContextIsFinite DEF Observed
  <2> HIDE DEF at, T
  <2> QED
    BY <2>1, <2>2, FS_Surjection
<1>6. Evaluate(c, r) = Freshness(c, r)
  <2>1. c.observations # <<>>
    BY ContextIsFinite
  <2>2. ~NotApplicable(c, r)
    BY <2>1 DEF NotApplicable
  <2> QED
    BY <2>2, DefaultIsEvaluated
<1> HIDE DEF c, T, limit
<1>7. Largest(T) \in T /\ \A t \in T : t <= Largest(T)
  BY <1>4, <1>5, LargestIsLargest
<1> DEFINE age == Largest({0, c.now - Largest(T)})
<1>8. Largest(T) \in Int /\ c.now - Largest(T) \in Int
  <2> HIDE DEF age
  <2>1. Largest(T) \in Int
    BY <1>4, <1>7
  <2>2. c.now \in Int
    BY <1>1
  <2> QED
    BY <2>1, <2>2
<1>9. age \in {0, c.now - Largest(T)} /\ 0 <= age /\ c.now - Largest(T) <= age
  <2> DEFINE both == {0, c.now - Largest(T)}
  <2>1. both \in SUBSET Int /\ both # {} /\ IsFiniteSet(both)
    <3>1. IsFiniteSet({} \cup {0}) /\ IsFiniteSet(({} \cup {0}) \cup {c.now - Largest(T)})
      BY FS_EmptySet, FS_AddElement
    <3>2. both = ({} \cup {0}) \cup {c.now - Largest(T)}
      OBVIOUS
    <3> DEFINE rest == c.now - Largest(T)
    <3>3. rest \in Int /\ both = {0, rest}
      BY <1>8
    <3> HIDE DEF rest
    <3>4. both \in SUBSET Int /\ both # {}
      BY <3>3
    <3> QED
      BY <3>1, <3>2, <3>4 DEF rest
  <2>2. 0 \in both /\ c.now - Largest(T) \in both
    OBVIOUS
  <2> HIDE DEF both
  <2>3. Largest(both) \in both /\ \A x \in both : x <= Largest(both)
    BY <2>1, LargestIsLargest
  <2> QED
    BY <2>2, <2>3 DEF both
<1>10. age \in Int
  BY <1>8, <1>9
<1>11. Freshness(c, r).status = "PASS" <=> age <= limit
  <2>1. Freshness(c, r) = Judged(IF age <= limit THEN 0 ELSE 1)
    BY DEF Freshness, T, limit
  <2> HIDE DEF age
  <2> QED
    BY <2>1 DEF Judged, Verdict
<1> HIDE DEF age
<1>12. age <= limit <=> Largest(T) >= c.now - limit
  BY <1>1, <1>8, <1>9, <1>10
<1>13. Largest(T) >= c.now - limit <=> \E t \in T : t >= c.now - limit
  <2>1. \A t \in T : t \in Int
    BY <1>4
  <2> QED
    BY <1>1, <1>7, <1>8, <2>1
<1>14. (\E t \in T : t >= c.now - limit) <=> \E i \in Observed : At(i) >= c.now - limit
  BY <1>2, <1>3
<1>15. Evaluate(c, r).status = "PASS" <=> \E i \in Observed : At(i) >= c.now - limit
  BY <1>6, <1>11, <1>12, <1>13, <1>14
<1> QED
  BY <1>15 DEF c, limit

\* An observation that the completeness rule counts is out of range too.
LEMMA NullFailsTwiceNow ==
  ASSUME NEW c, IsContext(c), NEW r, IsDefault(r), r.type = "completeness",
         NEW s, IsDefault(s), s.type = "range",
         r.config["column"] = s.config["column"], Evaluate(c, r).status = "FAIL"
  PROVE  Evaluate(c, s).status = "FAIL"
<1>1. Evaluate(c, r) = Completeness(c, r) /\ ~NotApplicable(c, r)
  <2>1. Skipped.status = "SKIPPED"
    BY DEF Skipped, Verdict
  <2> QED
    BY <2>1, DefaultIsEvaluated
<1>2. ~NotApplicable(c, s)
  BY <1>1 DEF NotApplicable
<1>3. Evaluate(c, s) = InRange(c, s)
  BY <1>2, DefaultIsEvaluated
<1> DEFINE column == r.config["column"]
           nulls == {i \in DOMAIN c.observations : c.observations[i].fields[column] = <<>>}
<1>4. Nulls(c, column) = Cardinality(nulls) /\ Cardinality(nulls) \in Nat /\ IsFiniteSet(nulls)
  <2>1. Nulls(c, column) = Cardinality(nulls)
    BY DEF Nulls, Where
  <2>2. nulls \in SUBSET DOMAIN c.observations
    OBVIOUS
  <2> HIDE DEF nulls, column
  <2> QED
    BY <2>1, <2>2, ContextIsFinite
<1>5. Cardinality(nulls) # 0
  <2>1. r.config["max_null_rate"] = 0 /\ Len(c.observations) \in Nat
    BY DefaultParameters, ContextIsFinite
  <2>2. Completeness(c, r).status
          = IF 100 * Nulls(c, column) <= r.config["max_null_rate"] * Len(c.observations)
            THEN "PASS" ELSE "FAIL"
    BY DEF Completeness, Verdict
  <2> HIDE DEF nulls, column
  <2>3. ~(100 * Nulls(c, column) <= 0)
    BY <1>1, <2>1, <2>2
  <2> QED
    BY <1>4, <2>3
<1>6. nulls # {}
  <2> HIDE DEF nulls
  <2> QED
    BY <1>4, <1>5, FS_EmptySet
<1> DEFINE outside == Where(c.observations, LAMBDA o :
                        LET field == o.fields[s.config["column"]] IN
                        \/ field = <<>>
                        \/ "min" \in DOMAIN s.config /\ field[1] < s.config["min"]
                        \/ "max" \in DOMAIN s.config /\ field[1] > s.config["max"])
<1>7. nulls \subseteq outside /\ outside \in SUBSET DOMAIN c.observations
  BY DEF Where
<1>8. InRange(c, s) = Judged(Cardinality(outside))
  BY DEF InRange
<1> HIDE DEF nulls, outside
<1>9. Cardinality(outside) # 0
  <2>1. IsFiniteSet(outside) /\ outside # {}
    BY <1>6, <1>7, ContextIsFinite
  <2> QED
    BY <2>1, FS_EmptySet
<1> QED
  BY <1>3, <1>8, <1>9 DEF Judged, Verdict

\* A rule that cannot be evaluated gives no verdict.
LEMMA UnusableNeverJudgesNow == UnusableNeverJudges
<1> SUFFICES ASSUME NEW r \in StoredRules,
                    r.type \notin DOMAIN Required \/ ~(Required[r.type] \subseteq DOMAIN r.config)
             PROVE  Evaluate(question.context, r).status \in {"ERROR", "SKIPPED"}
  BY DEF UnusableNeverJudges
<1>1. Evaluate(question.context, r) \in {Unable, Skipped}
  BY Zenon DEF Evaluate
<1> QED
  BY <1>1 DEF Unable, Errored, Skipped, Verdict

\* Where a logical key occurs for the first time it is counted, everywhere else it repeats.
LEMMA DuplicatesAreRepeatsNow ==
  ASSUME IsContext(question.context), NEW r, IsDefault(r), r.type = "uniqueness", Observed # {}
  PROVE  Evaluate(question.context, r).affected = Cardinality({i \in Observed : \E j \in Observed :
           /\ j < i
           /\ question.context.observations[i].key = question.context.observations[j].key
           /\ question.context.type = "weather" => At(i) = At(j)})
<1> DEFINE c == question.context
           key == [i \in Observed |-> LogicalKey(c, c.observations[i])]
           keys == {key[i] : i \in Observed}
           repeats == {i \in Observed : \E j \in Observed :
             /\ j < i
             /\ c.observations[i].key = c.observations[j].key
             /\ c.type = "weather" => At(i) = At(j)}
           firsts == Observed \ repeats
<1>1. /\ Observed = 1..Len(c.observations) /\ Len(c.observations) \in Nat
      /\ c.observations # <<>>
      /\ IsFiniteSet(Observed) /\ Cardinality(Observed) = Len(c.observations)
  BY ContextIsFinite DEF Observed
<1>2. \A i, j \in Observed :
        key[i] = key[j] <=> /\ c.observations[i].key = c.observations[j].key
                            /\ c.type = "weather" => At(i) = At(j)
  <2>1. CASE c.type = "earthquake"
    BY <2>1 DEF LogicalKey
  <2>2. CASE c.type = "weather"
    BY <2>2 DEF LogicalKey, At
  <2> QED
    BY <2>1, <2>2 DEF IsContext
<1>3. repeats = {i \in Observed : \E j \in Observed : j < i /\ key[i] = key[j]}
  <2> HIDE DEF key
  <2> QED
    BY <1>2
<1>4. Evaluate(c, r).affected = Len(c.observations) - Cardinality(keys)
  <2>1. ~NotApplicable(c, r)
    BY <1>1 DEF NotApplicable
  <2>2. Evaluate(c, r) = Uniqueness(c, r)
    BY <2>1, DefaultIsEvaluated
  <2>3. keys = {LogicalKey(c, c.observations[i]) : i \in DOMAIN c.observations}
    BY DEF Observed
  <2> HIDE DEF keys
  <2> QED
    BY <2>2, <2>3 DEF Uniqueness, Judged, Verdict
<1> HIDE DEF key, c
<1>5. \A i \in firsts : key[i] \in keys
  OBVIOUS
<1>6. \A i, j \in firsts : key[i] = key[j] => i = j
  <2> SUFFICES ASSUME NEW i \in firsts, NEW j \in firsts, key[i] = key[j], i # j PROVE FALSE
    OBVIOUS
  <2>1. i < j \/ j < i
    BY <1>1
  <2> QED
    BY <1>3, <2>1
<1>7. ASSUME NEW k \in keys PROVE \E i \in firsts : key[i] = k
  <2> DEFINE with == {i \in Observed : key[i] = k}
             same == [i \in with |-> i]
  <2>1. with # {} /\ with \subseteq Observed
    OBVIOUS
  <2>2. \A i \in with : same[i] = i /\ same[i] \in Int
    BY <1>1
  <2>3. IsFiniteSet(with)
    BY <1>1, <2>1, PartIsSmaller
  <2> HIDE DEF with, same
  <2>4. PICK i \in with : \A j \in with : same[i] <= same[j]
    BY <2>1, <2>2, <2>3, EarliestExists
  <2>5. \A j \in with : i <= j /\ i \in Int /\ j \in Int
    BY <2>2, <2>4
  <2>6. i \in Observed /\ key[i] = k
    BY <2>4 DEF with
  <2>7. i \notin repeats
    <3> SUFFICES ASSUME NEW j \in Observed, j < i, key[i] = key[j] PROVE FALSE
      BY <1>3
    <3>1. j \in with
      BY <2>6 DEF with
    <3> QED
      BY <2>5, <3>1
  <2> QED
    BY <2>6, <2>7
<1>8. IsFiniteSet(firsts) /\ Cardinality(firsts) \in Nat
  BY <1>1, PartIsSmaller
<1>9. Cardinality(keys) = Cardinality(firsts)
  <2> HIDE DEF keys, firsts
  <2> QED
    BY <1>5, <1>6, <1>7, <1>8, SameSize
<1>10. Cardinality(Observed) = Cardinality(repeats) + Cardinality(firsts)
  <2>1. repeats \subseteq Observed
    OBVIOUS
  <2> HIDE DEF repeats
  <2> QED
    BY <1>1, <2>1, PartsAddUp
<1>11. Cardinality(repeats) \in Nat
  <2>1. repeats \subseteq Observed
    OBVIOUS
  <2> HIDE DEF repeats
  <2> QED
    BY <1>1, <2>1, PartIsSmaller
<1> HIDE DEF repeats, firsts, keys
<1>12. Evaluate(c, r).affected = Cardinality(repeats)
  BY <1>1, <1>4, <1>8, <1>9, <1>10, <1>11
<1> QED
  BY <1>12 DEF c, repeats

\* The times after which nothing comes for longer than g although something follows.
Holes(s, g) ==
  {t \in {s[i] : i \in DOMAIN s} :
     /\ \E i \in DOMAIN s : s[i] > t
     /\ \A i \in DOMAIN s : ~(s[i] > t /\ s[i] <= t + g)}
\* The places in order after which the next value is more than g away.
Jumps(s, g) == {i \in 1..(Len(s) - 1) : Sorted(s)[i + 1] - Sorted(s)[i] > g}

LEMMA JumpIsHole ==
  ASSUME NEW s \in Seq(Int), NEW g \in Nat, NEW i \in Jumps(s, g)
  PROVE  Sorted(s)[i] \in Holes(s, g) /\ Cardinality(NotAbove(s, Sorted(s)[i])) = i
<1> DEFINE t == Sorted(s)[i]
           next == Sorted(s)[i + 1]
<1>1. i \in 1..Len(s) /\ i + 1 \in 1..Len(s) /\ i \in Nat /\ next - t > g
  BY DEF Jumps
<1>2. /\ t \in {s[j] : j \in DOMAIN s} /\ t \in Int
      /\ \A x \in Int : t <= x <=> Cardinality(NotAbove(s, x)) >= i
  BY <1>1, SortedPlaces
<1>3. /\ next \in {s[j] : j \in DOMAIN s} /\ next \in Int
      /\ \A x \in Int : next <= x <=> Cardinality(NotAbove(s, x)) >= i + 1
  BY <1>1, SortedPlaces
<1> HIDE DEF t, next
<1>4. \A x \in Int : Cardinality(NotAbove(s, x)) \in Nat
  BY UnderAndNotAbove
<1>5. t < next /\ t + g < next
  BY <1>1, <1>2, <1>3
<1>6. Cardinality(NotAbove(s, t)) = i
  <2>1. Cardinality(NotAbove(s, t)) >= i /\ ~(Cardinality(NotAbove(s, t)) >= i + 1)
    BY <1>2, <1>3, <1>5
  <2> QED
    BY <1>1, <1>2, <1>4, <2>1
<1>7. ASSUME NEW j \in DOMAIN s, s[j] > t, s[j] <= t + g PROVE FALSE
  <2>1. s[j] \in Int /\ ~(next <= s[j])
    BY <1>2, <1>3, <1>5, <1>7
  <2>2. ~(Cardinality(NotAbove(s, s[j])) >= i + 1)
    BY <1>3, <2>1
  <2>3. NotAbove(s, t) \subseteq NotAbove(s, s[j])
    <3>1. \A k \in DOMAIN s : s[k] \in Int
      OBVIOUS
    <3> QED
      BY <1>2, <1>7, <2>1, <3>1 DEF NotAbove
  <2>4. j \in NotAbove(s, s[j]) /\ j \notin NotAbove(s, t)
    BY <1>2, <1>7, <2>1 DEF NotAbove
  <2>5. IsFiniteSet(NotAbove(s, s[j])) /\ NotAbove(s, t) # NotAbove(s, s[j])
    BY <2>1, <2>4, UnderAndNotAbove
  <2>6. Cardinality(NotAbove(s, t)) < Cardinality(NotAbove(s, s[j]))
    BY <2>3, <2>5, PartIsSmaller
  <2> QED
    BY <1>1, <1>4, <1>6, <2>1, <2>2, <2>6
<1>8. \E j \in DOMAIN s : s[j] > t
  BY <1>2, <1>3, <1>5
<1>9. t \in Holes(s, g)
  BY <1>2, <1>7, <1>8 DEF Holes
<1> QED
  BY <1>6, <1>9 DEF t

LEMMA HoleIsJump ==
  ASSUME NEW s \in Seq(Int), NEW g \in Nat, NEW t \in Holes(s, g)
  PROVE  \E i \in Jumps(s, g) : Sorted(s)[i] = t
<1> DEFINE i == Cardinality(NotAbove(s, t))
<1>1. PICK j \in DOMAIN s : s[j] = t
  BY DEF Holes
<1>2. PICK above \in DOMAIN s : s[above] > t
  BY DEF Holes
<1>3. t \in Int /\ s[above] \in Int
  BY <1>1
<1>4. /\ IsFiniteSet(DOMAIN s) /\ Cardinality(DOMAIN s) = Len(s) /\ Len(s) \in Nat
      /\ Under(s, t) \subseteq NotAbove(s, t) /\ NotAbove(s, t) \subseteq DOMAIN s
      /\ IsFiniteSet(NotAbove(s, t))
      /\ Cardinality(Under(s, t)) \in Nat /\ i \in Nat
  BY <1>3, UnderAndNotAbove
<1>5. j \in NotAbove(s, t) /\ j \notin Under(s, t) /\ above \notin NotAbove(s, t)
  BY <1>1, <1>2, <1>3 DEF NotAbove, Under
<1>6. Cardinality(Under(s, t)) < i
  <2>1. Under(s, t) # NotAbove(s, t)
    BY <1>5
  <2> QED
    BY <1>4, <2>1, PartIsSmaller
<1>7. i < Len(s)
  <2>1. NotAbove(s, t) # DOMAIN s
    BY <1>5
  <2> QED
    BY <1>4, <2>1, PartIsSmaller
<1> HIDE DEF i
<1>8. i \in 1..(Len(s) - 1) /\ i \in 1..Len(s) /\ i + 1 \in 1..Len(s)
  BY <1>4, <1>6, <1>7
<1>9. /\ Sorted(s)[i] \in Int
      /\ Sorted(s)[i] <= t <=> Cardinality(NotAbove(s, t)) >= i
      /\ t <= Sorted(s)[i] <=> Cardinality(Under(s, t)) < i
  BY <1>3, <1>8, SortedPlaces
<1>10. Sorted(s)[i] = t
  BY <1>3, <1>4, <1>6, <1>9 DEF i
<1>11. /\ Sorted(s)[i + 1] \in {s[k] : k \in DOMAIN s} /\ Sorted(s)[i + 1] \in Int
       /\ Sorted(s)[i + 1] <= t <=> Cardinality(NotAbove(s, t)) >= i + 1
  BY <1>3, <1>8, SortedPlaces
<1>12. Sorted(s)[i + 1] > t
  BY <1>3, <1>4, <1>11 DEF i
<1>13. ~(Sorted(s)[i + 1] <= t + g)
  BY <1>11, <1>12 DEF Holes
<1>14. i \in Jumps(s, g)
  BY <1>3, <1>8, <1>10, <1>11, <1>13 DEF Jumps
<1> QED
  BY <1>10, <1>14

LEMMA GapsOfTimes ==
  ASSUME NEW s \in Seq(Int), NEW g \in Nat
  PROVE  Cardinality(Jumps(s, g)) = Cardinality(Holes(s, g))
<1>1. IsFiniteSet(Jumps(s, g))
  <2>1. Len(s) - 1 \in Int
    OBVIOUS
  <2>2. IsFiniteSet(1..(Len(s) - 1))
    BY <2>1, FS_Interval
  <2>3. Jumps(s, g) \subseteq 1..(Len(s) - 1)
    BY DEF Jumps
  <2> QED
    BY <2>2, <2>3, PartIsSmaller
<1>2. \A i \in Jumps(s, g) : Sorted(s)[i] \in Holes(s, g) /\ Cardinality(NotAbove(s, Sorted(s)[i])) = i
  BY JumpIsHole
<1>3. \A i, j \in Jumps(s, g) : Sorted(s)[i] = Sorted(s)[j] => i = j
  BY <1>2
<1>4. \A t \in Holes(s, g) : \E i \in Jumps(s, g) : Sorted(s)[i] = t
  BY HoleIsJump
<1> DEFINE J == Jumps(s, g)
           H == Holes(s, g)
           f == Sorted(s)
<1>5. \A i \in J : f[i] \in H
  BY <1>2
<1> HIDE DEF J, H, f
<1>6. IsFiniteSet(J) /\ (\A i, j \in J : f[i] = f[j] => i = j)
  BY <1>1, <1>3 DEF J, f
<1>7. \A t \in H : \E i \in J : f[i] = t
  BY <1>4 DEF H, J, f
<1>8. Cardinality(H) = Cardinality(J)
  BY <1>5, <1>6, <1>7, SameSize
<1> QED
  BY <1>8 DEF H, J

LEMMA EarthquakesHaveNoGaps ==
  ASSUME NEW i \in DOMAIN DefaultRules["earthquake"]
  PROVE  DefaultRules["earthquake"][i].type # "timestamp_gap"
<1>1. DefaultRules["earthquake"] =
        <<FreshWithin(1440), CompleteColumn("event_id"), UniqueKey,
          Between("magnitude", -2, 10), Between("latitude", -90, 90),
          Between("longitude", -180, 180), Between("depth_km", -10, 1000), UsualVolume>>
  BY DEF DefaultRules
<1>2. i \in 1..8
  BY <1>1
<1>3. DefaultRules["earthquake"][i] \in
        {FreshWithin(1440), CompleteColumn("event_id"), UniqueKey,
         Between("magnitude", -2, 10), Between("latitude", -90, 90),
         Between("longitude", -180, 180), Between("depth_km", -10, 1000), UsualVolume}
  BY <1>1, <1>2
<1>4. \A r \in {FreshWithin(1440), CompleteColumn("event_id"), UniqueKey,
                Between("magnitude", -2, 10), Between("latitude", -90, 90),
                Between("longitude", -180, 180), Between("depth_km", -10, 1000), UsualVolume} :
        r.type \in {"freshness", "completeness", "uniqueness", "range", "volume"}
  BY DEF FreshWithin, CompleteColumn, UniqueKey, Between, UsualVolume
<1> QED
  BY <1>3, <1>4

\* Only the weather is asked for gaps.
LEMMA GapsAreOfWeather ==
  ASSUME IsContext(question.context), ResultsOf("timestamp_gap") # {}
  PROVE  question.context.type = "weather"
<1> DEFINE rules == DefaultRules[question.context.type]
<1>1. PICK i \in {j \in DOMAIN rules : rules[j].type = "timestamp_gap"} : TRUE
  BY DEF ResultsOf
<1>2. question.context.type # "earthquake"
  BY <1>1, EarthquakesHaveNoGaps
<1> QED
  BY <1>2 DEF IsContext

LEMMA GapsAreHolesNow ==
  ASSUME IsContext(question.context), NEW x \in ResultsOf("timestamp_gap")
  PROVE  x.result.affected = Cardinality({t \in {At(i) : i \in Observed} :
           /\ \E i \in Observed : At(i) > t
           /\ \A i \in Observed :
                ~(At(i) > t /\ At(i) <= t + x.rule.config["maximum_allowed_gap_minutes"])})
<1> DEFINE c == question.context
           g == x.rule.config["maximum_allowed_gap_minutes"]
           s == [i \in DOMAIN c.observations |-> c.observations[i].at]
           holes == {t \in {At(i) : i \in Observed} :
             /\ \E i \in Observed : At(i) > t
             /\ \A i \in Observed : ~(At(i) > t /\ At(i) <= t + g)}
<1>1. /\ IsDefault(x.rule) /\ x.rule.type = "timestamp_gap" /\ x.result = Evaluate(c, x.rule)
      /\ c.type = "weather" /\ g = 90
  BY ResultsAreDefault, GapsAreOfWeather, DefaultParameters
<1>2. DOMAIN c.observations = 1..Len(c.observations) /\ Len(c.observations) \in Nat
  BY ContextIsFinite
<1>3. s \in Seq(Int) /\ Len(s) = Len(c.observations)
  <2>1. \A i \in DOMAIN c.observations : c.observations[i].at \in Int
    BY DEF IsContext
  <2>2. s \in [1..Len(c.observations) -> Int]
    BY <1>2, <2>1
  <2> QED
    BY <1>2, <2>2
<1>4. Observed = DOMAIN s /\ \A i \in Observed : At(i) = s[i]
  BY DEF Observed, At
<1>5. holes = Holes(s, g)
  <2> HIDE DEF s, g
  <2>1. {At(i) : i \in Observed} = {s[i] : i \in DOMAIN s}
    BY <1>4
  <2>2. \A t : /\ (\E i \in Observed : At(i) > t) <=> (\E i \in DOMAIN s : s[i] > t)
               /\ (\A i \in Observed : ~(At(i) > t /\ At(i) <= t + g))
                    <=> (\A i \in DOMAIN s : ~(s[i] > t /\ s[i] <= t + g))
    BY <1>4
  <2> QED
    BY <2>1, <2>2 DEF Holes
<1>6. CASE NotApplicable(c, x.rule)
  <2>1. c.observations = <<>> \/ Len(c.observations) < 2
    BY <1>1, <1>6 DEF NotApplicable
  <2>2. Len(s) < 2 /\ Len(s) \in Nat
    BY <1>2, <1>3, <2>1
  <2>3. x.result.affected = 0
    BY <1>1, <1>6, DefaultIsEvaluated DEF Skipped, Verdict
  <2> HIDE DEF s
  <2>4. \A i, j \in DOMAIN s : i = j /\ s[i] \in Int
    BY <1>3, <2>2
  <2>5. Holes(s, g) = {}
    BY <2>4 DEF Holes
  <2>6. Cardinality(Holes(s, g)) = 0
    BY <2>5, FS_EmptySet
  <2> QED
    BY <1>5, <2>3, <2>6
<1>7. CASE ~NotApplicable(c, x.rule)
  <2>1. x.result = TimestampGap(c, x.rule)
    BY <1>1, <1>7, DefaultIsEvaluated
  <2>2. TimestampGap(c, x.rule)
          = Judged(Cardinality({i \in 1..(Len(Sorted(s)) - 1) : Sorted(s)[i + 1] - Sorted(s)[i] > g}))
    BY DEF TimestampGap
  <2> HIDE DEF s, g, c
  <2>3. Len(Sorted(s)) = Len(s)
    <3>1. Len(s) \in Nat
      BY <1>3
    <3> DEFINE n == Len(s)
               e(k) == CHOOSE v \in {s[i] : i \in DOMAIN s} :
                         /\ Cardinality({i \in DOMAIN s : s[i] < v}) < k
                         /\ Cardinality({i \in DOMAIN s : s[i] <= v}) >= k
    <3>2. Sorted(s) = [k \in 1..n |-> e(k)]
      BY DEF Sorted
    <3> HIDE DEF n, e
    <3>3. Sorted(s) \in [1..n -> {e(k) : k \in 1..n}]
      BY <3>2
    <3> QED
      BY <3>1, <3>3 DEF n
  <2>4. x.result.affected = Cardinality(Jumps(s, g))
    BY <2>1, <2>2, <2>3 DEF Judged, Verdict, Jumps
  <2>5. g \in Nat
    BY <1>1
  <2> HIDE DEF holes
  <2> QED
    BY <1>3, <1>5, <2>4, <2>5, GapsOfTimes DEF holes, g
<1> QED
  BY <1>6, <1>7

\* The runs whose volume counts.
Counted(runs) == {i \in DOMAIN runs : runs[i].status \in {"SUCCESS", "NO_CHANGE"}}

LEMMA CountedAreFinite ==
  ASSUME NEW S, NEW runs \in Seq(S)
  PROVE  Counted(runs) \in SUBSET Nat /\ Counted(runs) \in SUBSET Int /\ IsFiniteSet(Counted(runs))
<1>1. Len(runs) \in Nat /\ DOMAIN runs = 1..Len(runs)
  OBVIOUS
<1>2. IsFiniteSet(1..Len(runs))
  BY <1>1, FS_Interval
<1>3. Counted(runs) \subseteq 1..Len(runs)
  BY <1>1 DEF Counted
<1> QED
  BY <1>1, <1>2, <1>3, PartIsSmaller

\* The volumes are those of the runs that count, in their order.
LEMMA VolumesAre ==
  ASSUME NEW S, NEW runs \in Seq(S)
  PROVE  /\ Cardinality(Counted(runs)) \in Nat
         /\ InOrder(Counted(runs)) \in [1..Cardinality(Counted(runs)) -> Counted(runs)]
         /\ Volumes(runs) = [k \in 1..Cardinality(Counted(runs)) |->
                               runs[InOrder(Counted(runs))[k]].received]
<1> DEFINE ok == Counted(runs)
           n == Cardinality(ok)
<1>1. ok \in SUBSET Int /\ IsFiniteSet(ok)
  BY CountedAreFinite
<1> HIDE DEF ok
<1>2. n \in Nat /\ InOrder(ok) \in [1..n -> ok]
  BY <1>1, InOrderPlaces, PlacesDiffer
<1>3. Volumes(runs) = [k \in DOMAIN InOrder(ok) |-> runs[InOrder(ok)[k]].received]
  BY DEF Volumes, ok, Counted
<1> HIDE DEF n
<1>4. DOMAIN InOrder(ok) = 1..n
  BY <1>2
<1>5. Volumes(runs) = [k \in 1..n |-> runs[InOrder(ok)[k]].received]
  BY <1>3, <1>4
<1> QED
  BY <1>2, <1>5 DEF ok, n

LEMMA VolumesAreNumbers ==
  ASSUME NEW c, IsContext(c)
  PROVE  Volumes(c.runs) \in Seq(Nat)
<1> DEFINE n == Cardinality(Counted(c.runs))
           order == InOrder(Counted(c.runs))
<1>1. c.runs \in Seq(Range(c.runs)) /\ \A i \in DOMAIN c.runs : c.runs[i].received \in Nat
  BY DEF IsContext
<1>2. /\ n \in Nat /\ order \in [1..n -> Counted(c.runs)]
      /\ Volumes(c.runs) = [k \in 1..n |-> c.runs[order[k]].received]
  BY <1>1, VolumesAre
<1> HIDE DEF n, order
<1>3. \A k \in 1..n : order[k] \in DOMAIN c.runs
  BY <1>2 DEF Counted
<1>4. Volumes(c.runs) \in [1..n -> Nat]
  BY <1>1, <1>2, <1>3
<1> QED
  BY <1>2, <1>4

\* A median has a majority on each side of it, itself included.
LEMMA MedianMajority ==
  ASSUME NEW V \in Seq(Nat), Len(V) > MinimumRuns, NEW x \in Int
  PROVE  /\ BaselineMedian(V) \in Nat
         /\ BaselineMedian(V) <= x <=>
              2 * Cardinality({i \in 2..(MinimumRuns + 1) : V[i] <= x}) > MinimumRuns
         /\ x <= BaselineMedian(V) <=>
              2 * Cardinality({i \in 2..(MinimumRuns + 1) : x <= V[i]}) > MinimumRuns
<1> DEFINE n == MinimumRuns
           m == (n + 1) \div 2
           w == SubSeq(V, 2, n + 1)
           up == [i \in 1..n |-> i + 1]
           median == Sorted(w)[m]
           low == {i \in 2..(n + 1) : V[i] <= x}
           high == {i \in 2..(n + 1) : x <= V[i]}
<1>1. n \in Nat /\ n % 2 = 1
  BY RunsAssumption
<1>2. m \in 1..n /\ 2 * m = n + 1
  <2> HIDE DEF n
  <2> QED
    BY <1>1
<1>3. w \in Seq(Nat) /\ Len(w) = n /\ \A i \in 1..n : w[i] = V[i + 1]
  <2>1. Len(V) > n /\ n \in Nat
    BY <1>1
  <2> HIDE DEF n
  <2> QED
    BY <2>1
<1>4. BaselineMedian(V) = median
  BY DEF BaselineMedian
<1> HIDE DEF n, m, w
<1>5. w \in Seq(Int) /\ DOMAIN w = 1..n
  BY <1>1, <1>3
<1>6. m \in 1..Len(w)
  BY <1>2, <1>3
<1>7. /\ median \in {w[i] : i \in DOMAIN w} /\ median \in Int
      /\ median <= x <=> Cardinality(NotAbove(w, x)) >= m
      /\ x <= median <=> Cardinality(Under(w, x)) < m
  BY <1>5, <1>6, SortedPlaces
<1>8. median \in Nat
  BY <1>3, <1>5, <1>7
<1>9. /\ IsFiniteSet(DOMAIN w) /\ Cardinality(DOMAIN w) = n
      /\ NotAbove(w, x) \subseteq DOMAIN w /\ Under(w, x) \subseteq DOMAIN w
      /\ IsFiniteSet(NotAbove(w, x))
      /\ Cardinality(NotAbove(w, x)) \in Nat /\ Cardinality(Under(w, x)) \in Nat
  BY <1>3, <1>5, UnderAndNotAbove
<1>10. \A i \in 1..n : up[i] = i + 1 /\ up[i] \in 2..(n + 1) /\ V[up[i]] = w[i] /\ w[i] \in Int
  <2>1. \A i \in 1..n : w[i] \in Int
    <3> HIDE DEF up
    <3>1. w \in Seq(Int)
      BY <1>5
    <3>2. \A i \in DOMAIN w : w[i] \in Int
      BY <3>1
    <3> QED
      BY <1>5, <3>2
  <2>2. \A i \in 1..n : up[i] = i + 1
    OBVIOUS
  <2>3. \A i \in 1..n : i + 1 \in 2..(n + 1)
    BY <1>1
  <2> HIDE DEF up
  <2> QED
    BY <1>3, <2>1, <2>2, <2>3
<1>11. \A j \in 2..(n + 1) : \E i \in 1..n : up[i] = j
  <2> SUFFICES ASSUME NEW j \in 2..(n + 1) PROVE \E i \in 1..n : up[i] = j
    OBVIOUS
  <2>1. j - 1 \in 1..n /\ (j - 1) + 1 = j
    BY <1>1
  <2> QED
    BY <2>1
<1>12. \A i, j \in 1..n : up[i] = up[j] => i = j
  BY <1>1
<1> HIDE DEF up
<1>13. Cardinality(low) = Cardinality(NotAbove(w, x))
  <2>1. NotAbove(w, x) = {i \in 1..n : w[i] <= x}
    BY <1>5 DEF NotAbove
  <2>2. \A i \in NotAbove(w, x) : up[i] \in low
    BY <1>10, <2>1
  <2>3. \A j \in low : \E i \in NotAbove(w, x) : up[i] = j
    BY <1>10, <1>11, <2>1
  <2>4. \A i, j \in NotAbove(w, x) : up[i] = up[j] => i = j
    BY <1>12, <2>1
  <2> DEFINE A == NotAbove(w, x)
  <2>5. IsFiniteSet(A)
    BY <1>9
  <2>6. (\A i \in A : up[i] \in low) /\ (\A j \in low : \E i \in A : up[i] = j)
    BY <2>2, <2>3
  <2>7. \A i, j \in A : up[i] = up[j] => i = j
    BY <2>4
  <2> HIDE DEF low, A
  <2>8. Cardinality(low) = Cardinality(A)
    BY <2>5, <2>6, <2>7, SameSize
  <2> QED
    BY <2>8 DEF A
<1>14. Cardinality(high) = n - Cardinality(Under(w, x))
  <2> DEFINE over == DOMAIN w \ Under(w, x)
  <2>1. over = {i \in 1..n : x <= w[i]}
    <3>1. Under(w, x) = {i \in 1..n : w[i] < x}
      BY <1>5 DEF Under
    <3>2. \A i \in 1..n : ~(w[i] < x) <=> x <= w[i]
      BY <1>10
    <3> QED
      BY <1>5, <3>1, <3>2
  <2> HIDE DEF over
  <2>2. \A i \in over : up[i] \in high
    BY <1>10, <2>1
  <2>3. \A j \in high : \E i \in over : up[i] = j
    BY <1>10, <1>11, <2>1
  <2>4. \A i, j \in over : up[i] = up[j] => i = j
    BY <1>12, <2>1
  <2>5. IsFiniteSet(over) /\ Cardinality(over) \in Nat
    <3>1. over \subseteq DOMAIN w
      BY DEF over
    <3> QED
      BY <1>9, <3>1, PartIsSmaller
  <2>6. Cardinality(DOMAIN w) = Cardinality(Under(w, x)) + Cardinality(over)
    BY <1>9, PartsAddUp DEF over
  <2> HIDE DEF high
  <2>7. Cardinality(high) = Cardinality(over)
    BY <2>2, <2>3, <2>4, <2>5, SameSize
  <2> QED
    BY <1>1, <1>9, <2>5, <2>6, <2>7
<1> HIDE DEF median, low, high
<1>15. median <= x <=> 2 * Cardinality(low) > n
  BY <1>1, <1>2, <1>7, <1>9, <1>13
<1>16. x <= median <=> 2 * Cardinality(high) > n
  BY <1>1, <1>2, <1>7, <1>9, <1>14
<1> QED
  BY <1>4, <1>8, <1>15, <1>16 DEF low, high, n

LEMMA VolumeRuleApplies ==
  ASSUME NEW c, NEW r, IsDefault(r), r.type = "volume"
  PROVE  Evaluate(c, r) = Volume(c, r)
<1>1. ~NotApplicable(c, r)
  BY DEF NotApplicable
<1> QED
  BY <1>1, DefaultIsEvaluated

LEMMA VolumeIsMajorityNow ==
  ASSUME NEW c, IsContext(c), NEW r, IsDefault(r), r.type = "volume",
         Len(Volumes(c.runs)) > MinimumRuns
  PROVE  Evaluate(c, r).status = "PASS" <=>
           /\ 2 * Cardinality({i \in 2..(MinimumRuns + 1) :
                 Volumes(c.runs)[i] <= 2 * Volumes(c.runs)[1]}) > MinimumRuns
           /\ 2 * Cardinality({i \in 2..(MinimumRuns + 1) :
                 Volumes(c.runs)[1] <= 2 * Volumes(c.runs)[i]}) > MinimumRuns
           /\ 2 * Cardinality({i \in 2..(MinimumRuns + 1) : Volumes(c.runs)[i] > 0}) > MinimumRuns
<1> DEFINE V == Volumes(c.runs)
           n == MinimumRuns
           first == V[1]
           half == (first + 1) \div 2
           median == BaselineMedian(V)
           count(S) == 2 * Cardinality(S) > n
<1>1. n \in Nat /\ V \in Seq(Nat) /\ Len(V) > n
  BY RunsAssumption, VolumesAreNumbers
<1>2. Evaluate(c, r).status = "PASS" <=> median # 0 /\ median <= 2 * first /\ first <= 2 * median
  <2>1. ~(Len(V) < n + 1)
    <3> HIDE DEF V, n
    <3> QED
      BY <1>1
  <2>2. Volume(c, r) = Judged(IF median # 0 /\ median <= 2 * first /\ first <= 2 * median
                              THEN 0 ELSE 1)
    BY <2>1 DEF Volume
  <2>3. Evaluate(c, r) = Volume(c, r)
    BY VolumeRuleApplies
  <2> HIDE DEF V, median, first
  <2> QED
    BY <2>2, <2>3 DEF Judged, Verdict
<1> HIDE DEF V
<1>3. \A i \in 2..(n + 1) : V[i] \in Nat
  BY <1>1
<1>4. first \in Nat /\ 2 * first \in Int
  <2>1. V[1] \in Nat
    BY <1>1
  <2> QED
    BY <2>1
<1> HIDE DEF first
<1>5. half \in Int /\ \A k \in Nat : first <= 2 * k <=> half <= k
  BY <1>4
<1>6. median \in Nat
  BY <1>1, <1>5, MedianMajority
<1>7. median <= 2 * first <=> count({i \in 2..(n + 1) : V[i] <= 2 * first})
  BY <1>1, <1>4, MedianMajority
<1> HIDE DEF half
<1>8. first <= 2 * median <=> count({i \in 2..(n + 1) : first <= 2 * V[i]})
  <2>1. half <= median <=> count({i \in 2..(n + 1) : half <= V[i]})
    BY <1>1, <1>5, MedianMajority
  <2>2. {i \in 2..(n + 1) : half <= V[i]} = {i \in 2..(n + 1) : first <= 2 * V[i]}
    BY <1>3, <1>5
  <2> HIDE DEF median, n
  <2> QED
    BY <1>5, <1>6, <2>1, <2>2
<1>9. median # 0 <=> count({i \in 2..(n + 1) : V[i] > 0})
  <2>1. 1 <= median <=> count({i \in 2..(n + 1) : 1 <= V[i]})
    <3>1. \A x \in Int : x <= median <=> count({i \in 2..(n + 1) : x <= V[i]})
      BY <1>1, MedianMajority
    <3> HIDE DEF median, count, n
    <3> QED
      BY <3>1
  <2>2. {i \in 2..(n + 1) : 1 <= V[i]} = {i \in 2..(n + 1) : V[i] > 0}
    BY <1>3
  <2>3. median # 0 <=> 1 <= median
    BY <1>6
  <2> HIDE DEF median, n
  <2> QED
    BY <2>1, <2>2, <2>3
<1>10. Evaluate(c, r).status = "PASS" <=>
         /\ count({i \in 2..(n + 1) : V[i] <= 2 * first})
         /\ count({i \in 2..(n + 1) : first <= 2 * V[i]})
         /\ count({i \in 2..(n + 1) : V[i] > 0})
  <2> HIDE DEF count, median
  <2> QED
    BY <1>2, <1>7, <1>8, <1>9
<1> QED
  BY <1>10 DEF V, first

\* A run that does not count is as good as none.
LEMMA VolumesOfTail ==
  ASSUME NEW S, NEW runs \in Seq(S), runs # <<>>, runs[1].status \notin {"SUCCESS", "NO_CHANGE"}
  PROVE  Volumes(Tail(runs)) = Volumes(runs)
<1> DEFINE ok == Counted(runs)
           rest == Counted(Tail(runs))
           n == Cardinality(rest)
           up == [i \in rest |-> i + 1]
<1>1. /\ Tail(runs) \in Seq(S) /\ Len(runs) \in Nat \ {0} /\ Len(Tail(runs)) = Len(runs) - 1
      /\ \A i \in 1..(Len(runs) - 1) : Tail(runs)[i] = runs[i + 1]
  OBVIOUS
<1>2. /\ DOMAIN runs = 1..Len(runs) /\ DOMAIN Tail(runs) = 1..(Len(runs) - 1)
  BY <1>1
<1>3. /\ ok \in SUBSET Int /\ IsFiniteSet(ok)
      /\ rest \in SUBSET Int /\ IsFiniteSet(rest)
  BY <1>1, CountedAreFinite
<1>4. \A i \in rest : up[i] = i + 1 /\ i + 1 \in ok /\ Tail(runs)[i] = runs[i + 1]
  BY <1>1, <1>2 DEF Counted
<1>5. ASSUME NEW j \in ok PROVE \E i \in rest : up[i] = j
  <2>1. j \in 1..Len(runs) /\ j # 1
    BY <1>2 DEF Counted
  <2>2. j - 1 \in 1..(Len(runs) - 1) /\ (j - 1) + 1 = j
    BY <1>1, <2>1
  <2>3. j - 1 \in rest
    BY <1>1, <1>2, <2>2 DEF Counted
  <2> QED
    BY <2>2, <2>3
<1> HIDE DEF ok, rest, up
<1>6. \A i, j \in rest : up[i] = up[j] => i = j
  BY <1>3, <1>4
<1>7. Cardinality(ok) = n
  <2>1. \A i \in rest : up[i] \in ok
    BY <1>4
  <2> QED
    BY <1>3, <1>5, <1>6, <2>1, SameSize
<1>8. /\ n \in Nat /\ InOrder(rest) \in [1..n -> rest]
      /\ \A k \in 1..n : Cardinality(Through(rest, InOrder(rest)[k])) = k
      /\ \A x \in ok : InOrder(ok)[Cardinality(Through(ok, x))] = x
  BY <1>3, InOrderPlaces, PlacesDiffer
<1> HIDE DEF n
<1>9. ASSUME NEW k \in 1..n PROVE InOrder(ok)[k] = InOrder(rest)[k] + 1
  <2> DEFINE x == InOrder(rest)[k]
             A == Through(rest, x)
             B == Through(ok, x + 1)
  <2>1. x \in rest /\ x \in Int /\ x + 1 \in ok /\ Cardinality(A) = k
    BY <1>3, <1>4, <1>8
  <2> HIDE DEF x
  <2>2. A \subseteq rest /\ IsFiniteSet(A)
    <3>1. A \subseteq rest
      BY DEF Through
    <3> HIDE DEF A
    <3> QED
      BY <1>3, <3>1, PartIsSmaller
  <2>3. \A i \in A : up[i] \in B
    BY <1>3, <1>4, <2>1 DEF Through
  <2>4. ASSUME NEW j \in B PROVE \E i \in A : up[i] = j
    <3>1. j \in ok /\ j <= x + 1
      BY DEF Through
    <3>2. PICK i \in rest : up[i] = j
      BY <1>5, <3>1
    <3>3. i + 1 = j /\ i \in Int
      BY <1>3, <1>4, <3>2
    <3>4. i <= x
      BY <2>1, <3>1, <3>3
    <3> QED
      BY <3>2, <3>4 DEF Through
  <2>5. \A i, j \in A : up[i] = up[j] => i = j
    BY <1>6, <2>2
  <2> HIDE DEF A, B
  <2>6. Cardinality(B) = k
    BY <2>1, <2>2, <2>3, <2>4, <2>5, SameSize
  <2>7. InOrder(ok)[Cardinality(B)] = x + 1
    BY <1>8, <2>1 DEF B
  <2> QED
    BY <2>6, <2>7 DEF x
<1>10. Volumes(runs) = [k \in 1..n |-> runs[InOrder(ok)[k]].received]
  <2>1. Volumes(runs) = [k \in 1..Cardinality(ok) |-> runs[InOrder(ok)[k]].received]
    BY VolumesAre DEF ok
  <2> QED
    BY <1>7, <2>1
<1>11. Volumes(Tail(runs)) = [k \in 1..n |-> Tail(runs)[InOrder(rest)[k]].received]
  BY <1>1, VolumesAre DEF rest, n
<1>12. \A k \in 1..n : runs[InOrder(ok)[k]] = Tail(runs)[InOrder(rest)[k]]
  BY <1>4, <1>8, <1>9
<1> QED
  BY <1>10, <1>11, <1>12

LEMMA OldVolumeIsJudgedAgainNow ==
  ASSUME NEW c, IsContext(c), NEW r, IsDefault(r), r.type = "volume",
         c.runs # <<>>, Head(c.runs).status \notin {"SUCCESS", "NO_CHANGE"}
  PROVE  Evaluate(c, r) = Evaluate([c EXCEPT !.runs = Tail(c.runs)], r)
<1> DEFINE d == [c EXCEPT !.runs = Tail(c.runs)]
<1>1. d.runs = Tail(c.runs)
  BY DEF IsContext
<1>2. Volumes(d.runs) = Volumes(c.runs)
  <2>1. c.runs \in Seq(Range(c.runs))
    BY DEF IsContext
  <2>2. c.runs[1].status \notin {"SUCCESS", "NO_CHANGE"}
    BY <2>1
  <2> QED
    BY <1>1, <2>1, <2>2, VolumesOfTail
<1> HIDE DEF d
<1>3. Volume(c, r) = Volume(d, r)
  BY <1>2 DEF Volume
<1> QED
  BY <1>3, VolumeRuleApplies DEF d

\* Every verdict of the rules is what a reader of the observations and runs would say,
\* whatever they are: freshness looks for the newest observation, uniqueness counts repeated
\* keys, gaps are counted in the order of time, NULL fails the range rule too, the median of
\* the volumes is a majority, and a rule that cannot be evaluated judges nothing
\* (rules/*.py, registry.py, engine.py, quality_context).
THEOREM RulesJudgeAsMeantHolds == Spec => []RulesJudgeAsMeant
<1>1. QuestionGiven => RulesJudgeAsMeant
  <2> SUFFICES ASSUME QuestionGiven PROVE RulesJudgeAsMeant
    OBVIOUS
  <2>1. UnusableNeverJudges
    BY UnusableNeverJudgesNow
  <2>2. CASE ~Asked("rules")
    BY <2>1, <2>2 DEF RulesJudgeAsMeant, FreshIffRecent, DuplicatesAreRepeats, GapsAreHoles,
      NullFailsTwice, VolumeIsMajority, OldVolumeIsJudgedAgain
  <2>3. CASE Asked("rules")
    <3>1. IsContext(question.context)
      BY <2>3, ContextAssumption DEF QuestionGiven, IsContext
    <3>2. \A type : \A x \in ResultsOf(type) :
            /\ IsDefault(x.rule) /\ x.rule.type = type
            /\ x.result = Evaluate(question.context, x.rule)
      BY <3>1, ResultsAreDefault
    <3>3. FreshIffRecent
      BY <3>1, <3>2, FreshIffRecentNow DEF FreshIffRecent, Observed
    <3>4. DuplicatesAreRepeats
      BY <3>1, <3>2, DuplicatesAreRepeatsNow DEF DuplicatesAreRepeats
    <3>5. GapsAreHoles
      BY <3>1, GapsAreHolesNow DEF GapsAreHoles
    <3>6. NullFailsTwice
      BY <3>1, <3>2, NullFailsTwiceNow DEF NullFailsTwice
    <3>7. VolumeIsMajority
      <4> DEFINE V == Volumes(question.context.runs)
                 count(S) == 2 * Cardinality(S) > MinimumRuns
      <4>1. ASSUME NEW v \in ResultsOf("volume"), Len(V) > MinimumRuns
            PROVE  v.result.status = "PASS" <=>
                     /\ count({i \in 2..(MinimumRuns + 1) : V[i] <= 2 * V[1]})
                     /\ count({i \in 2..(MinimumRuns + 1) : V[1] <= 2 * V[i]})
                     /\ count({i \in 2..(MinimumRuns + 1) : V[i] > 0})
        <5> DEFINE c == question.context
                   r == v.rule
        <5>1. v.result = Evaluate(c, r) /\ IsDefault(r) /\ r.type = "volume" /\ IsContext(c)
          BY <3>1, <3>2
        <5>2. Len(Volumes(c.runs)) > MinimumRuns
          BY <4>1
        <5> HIDE DEF c, r
        <5>3. Evaluate(c, r).status = "PASS" <=>
                /\ 2 * Cardinality({i \in 2..(MinimumRuns + 1) :
                      Volumes(c.runs)[i] <= 2 * Volumes(c.runs)[1]}) > MinimumRuns
                /\ 2 * Cardinality({i \in 2..(MinimumRuns + 1) :
                      Volumes(c.runs)[1] <= 2 * Volumes(c.runs)[i]}) > MinimumRuns
                /\ 2 * Cardinality({i \in 2..(MinimumRuns + 1) : Volumes(c.runs)[i] > 0}) > MinimumRuns
          BY <5>1, <5>2, VolumeIsMajorityNow
        <5> QED
          BY <5>1, <5>3 DEF c
      <4> QED
        BY <4>1 DEF VolumeIsMajority
    <3>8. OldVolumeIsJudgedAgain
      <4> SUFFICES ASSUME question.context.runs # <<>>,
                          Head(question.context.runs).status \notin Succeeded,
                          NEW v \in ResultsOf("volume")
                   PROVE  v.result = Evaluate([question.context EXCEPT !.runs = Tail(question.context.runs)], v.rule)
        BY DEF OldVolumeIsJudgedAgain
      <4>1. v.result = Evaluate(question.context, v.rule) /\ IsDefault(v.rule) /\ v.rule.type = "volume"
        BY <3>2
      <4> QED
        BY <3>1, <4>1, OldVolumeIsJudgedAgainNow DEF Succeeded
    <3> QED
      BY <2>1, <3>3, <3>4, <3>5, <3>6, <3>7, <3>8 DEF RulesJudgeAsMeant
  <2> QED
    BY <2>2, <2>3
<1> QED
  BY <1>1, QuestionIsGiven, PTL

-------------------------------------------------------------------------------
(***************************************************************************)
(* Root causes.  Score and name together give each candidate a key of its  *)
(* own, by which it is ranked.                                             *)
(***************************************************************************)
IsSignals(S) ==
  /\ IsFiniteSet(S) /\ S # {}
  /\ \A s \in S : s.weight \in Int /\ s.cause \in {Causes[i] : i \in 1..9}

ScoreAt(S, i) == ScoreOf(S, Causes[i])
Key(S, i) == 10 * ScoreAt(S, i) - i
Ahead(S, i) == {j \in Candidates(S) : Key(S, j) > Key(S, i)}

LEMMA NineCauses == DOMAIN Causes = 1..9
BY DEF Causes

LEMMA ScoreIsTotal ==
  ASSUME NEW S, IsSignals(S), NEW cause
  PROVE  /\ IsFiniteSet({s \in S : s.cause = cause})
         /\ ScoreOf(S, cause) = Total([s \in S |-> s.weight], {s \in S : s.cause = cause})
         /\ ScoreOf(S, cause) \in Int
<1> DEFINE part == {s \in S : s.cause = cause}
           weight == [s \in S |-> s.weight]
<1>1. part \subseteq S /\ \A s \in part : weight[s] = s.weight /\ weight[s] \in Int
  BY DEF IsSignals
<1>2. IsFiniteSet(part)
  <2> HIDE DEF part
  <2> QED
    BY <1>1, PartIsSmaller DEF IsSignals
<1>3. ScoreOf(S, cause) = SumFunction([s \in part |-> s.weight])
  BY DEF ScoreOf
<1> HIDE DEF part, weight
<1>4. [s \in part |-> s.weight] = [s \in part |-> weight[s]]
  BY <1>1
<1>5. ScoreOf(S, cause) = Total(weight, part)
  BY <1>3, <1>4 DEF Total
<1>6. Total(weight, part) \in Int
  BY <1>1, <1>2, TotalSteps
<1> QED
  BY <1>2, <1>5, <1>6 DEF part, weight

LEMMA KeysRank ==
  ASSUME NEW S, IsSignals(S)
  PROVE  /\ IsFiniteSet(Candidates(S)) /\ Candidates(S) # {} /\ Candidates(S) \subseteq 1..9
         /\ \A i \in Candidates(S) : ScoreAt(S, i) \in Int /\ Key(S, i) \in Int
         /\ \A i, j \in Candidates(S) :
              /\ Key(S, i) = Key(S, j) => i = j
              /\ Key(S, i) <= Key(S, j) => ScoreAt(S, i) <= ScoreAt(S, j)
              /\ Key(S, i) > Key(S, j) <=> Precedes(S, i, j)
         /\ \A i \in Candidates(S) : Rank(S, i) = 1 + Cardinality(Ahead(S, i))
<1> DEFINE C == Candidates(S)
<1>1. C \subseteq 1..9
  BY NineCauses DEF Candidates
<1>2. C # {}
  <2>1. PICK s \in S : TRUE
    BY DEF IsSignals
  <2>2. PICK i \in 1..9 : s.cause = Causes[i]
    BY DEF IsSignals
  <2>3. i \in C
    BY <2>2, NineCauses DEF Candidates
  <2> QED
    BY <2>3
<1> HIDE DEF C
<1>3. IsFiniteSet(C)
  <2>0. \A n \in Int : IsFiniteSet(1..n)
    BY FS_Interval
  <2> DEFINE nine == 9
  <2>2. nine \in Int
    OBVIOUS
  <2> HIDE DEF nine
  <2>3. IsFiniteSet(1..nine)
    BY <2>0, <2>2
  <2>1. IsFiniteSet(1..9)
    BY <2>3 DEF nine
  <2> QED
    BY <1>1, <2>1, PartIsSmaller
<1>4. \A i \in C : ScoreAt(S, i) \in Int
  BY ScoreIsTotal DEF ScoreAt
<1>5. \A i \in C : Key(S, i) \in Int
  BY <1>1, <1>4 DEF Key
<1>6. ASSUME NEW i \in C, NEW j \in C
      PROVE  /\ Key(S, i) = Key(S, j) => i = j
             /\ Key(S, i) <= Key(S, j) => ScoreAt(S, i) <= ScoreAt(S, j)
             /\ Key(S, i) > Key(S, j) <=> Precedes(S, i, j)
  <2>1. i \in 1..9 /\ j \in 1..9 /\ ScoreAt(S, i) \in Int /\ ScoreAt(S, j) \in Int
    BY <1>1, <1>4
  <2>2. Precedes(S, i, j) <=> \/ ScoreAt(S, i) > ScoreAt(S, j)
                              \/ ScoreAt(S, i) = ScoreAt(S, j) /\ i < j
    BY DEF Precedes, ScoreAt
  <2> QED
    BY <2>1, <2>2 DEF Key
<1>7. ASSUME NEW i \in C PROVE Rank(S, i) = 1 + Cardinality(Ahead(S, i))
  <2>1. Ahead(S, i) = {j \in C : Precedes(S, j, i)}
    BY <1>6 DEF Ahead, C
  <2> QED
    BY <2>1 DEF Rank, C
<1> QED
  BY <1>1, <1>2, <1>3, <1>4, <1>5, <1>6, <1>7 DEF C

\* One candidate is the first, and if there is another one, one is the second.
LEMMA FirstAndSecond ==
  ASSUME NEW S, IsSignals(S)
  PROVE  \E t \in Candidates(S) :
           /\ Rank(S, t) = 1
           /\ \A i \in Candidates(S) : Key(S, i) <= Key(S, t)
           /\ \A i \in Candidates(S) : Rank(S, i) = 1 => i = t
           /\ Candidates(S) \ {t} # {} =>
                \E u \in Candidates(S) :
                  Rank(S, u) = 2 /\ \A i \in Candidates(S) \ {t} : Key(S, i) <= Key(S, u)
<1> DEFINE C == Candidates(S)
           key == [i \in C |-> Key(S, i)]
<1>1. /\ IsFiniteSet(C) /\ C # {}
      /\ \A i \in C : Key(S, i) \in Int /\ Rank(S, i) = 1 + Cardinality(Ahead(S, i))
      /\ \A i, j \in C : Key(S, i) = Key(S, j) => i = j
  BY KeysRank
<1>2. \A i \in C : key[i] = Key(S, i) /\ key[i] \in Int
  BY <1>1
<1>3. \A i \in C : Ahead(S, i) = {j \in C : Key(S, j) > Key(S, i)}
  BY DEF Ahead
<1> HIDE DEF C, key
<1>4. PICK t \in C : \A i \in C : key[i] <= key[t]
  BY <1>1, <1>2, LatestExists
<1>5. \A i \in C : Key(S, i) <= Key(S, t)
  BY <1>2, <1>4
<1>6. Ahead(S, t) = {}
  BY <1>1, <1>3, <1>5
<1>7. Rank(S, t) = 1
  <2>1. Cardinality(Ahead(S, t)) = 0
    BY <1>6, FS_EmptySet
  <2> QED
    BY <1>1, <2>1
<1>8. ASSUME NEW i \in C, Rank(S, i) = 1 PROVE i = t
  <2>1. IsFiniteSet(Ahead(S, i)) /\ Cardinality(Ahead(S, i)) \in Nat
    <3>1. Ahead(S, i) \subseteq C
      BY <1>3
    <3> QED
      BY <1>1, <3>1, PartIsSmaller
  <2>2. Cardinality(Ahead(S, i)) = 0
    BY <1>1, <1>8, <2>1
  <2>3. Ahead(S, i) = {}
    BY <2>1, <2>2, FS_EmptySet
  <2>4. Key(S, t) <= Key(S, i)
    BY <1>1, <1>3, <2>3
  <2>5. Key(S, i) = Key(S, t)
    BY <1>1, <1>5, <2>4
  <2> QED
    BY <1>1, <2>5
<1>9. ASSUME C \ {t} # {}
      PROVE  \E u \in C : Rank(S, u) = 2 /\ \A i \in C \ {t} : Key(S, i) <= Key(S, u)
  <2> DEFINE others == C \ {t}
  <2>1. IsFiniteSet(others) /\ others # {} /\ others \subseteq C
    BY <1>1, <1>9, FS_RemoveElement
  <2> HIDE DEF others
  <2>2. \A i \in others : key[i] \in Int
    BY <1>2, <2>1
  <2>3. PICK u \in others : \A i \in others : key[i] <= key[u]
    BY <2>1, <2>2, LatestExists
  <2>4. \A i \in others : Key(S, i) <= Key(S, u)
    BY <1>2, <2>1, <2>3
  <2>5. u \in C /\ u # t /\ Key(S, t) > Key(S, u)
    <3>1. u \in C /\ u # t
      BY <2>1, <2>3 DEF others
    <3>2. Key(S, u) <= Key(S, t) /\ Key(S, u) # Key(S, t)
      BY <1>1, <1>5, <3>1
    <3> QED
      BY <1>1, <3>1, <3>2
  <2>6. Ahead(S, u) = {t}
    <3>1. \A j \in C : Key(S, j) > Key(S, u) => j = t
      BY <1>1, <2>1, <2>4, <2>5 DEF others
    <3> QED
      BY <1>3, <2>5, <3>1
  <2>7. Cardinality(Ahead(S, u)) = 1
    BY <2>6, FS_Singleton
  <2>8. Rank(S, u) = 2
    BY <1>1, <2>5, <2>7
  <2> QED
    BY <2>4, <2>5, <2>8 DEF others
<1> QED
  BY <1>5, <1>7, <1>8, <1>9 DEF C

\* The entry of a candidate in the ranking.
CauseEntry(S, i) ==
  [cause |-> Causes[i], score |-> ScoreAt(S, i), rank |-> Rank(S, i),
   confidence |-> Confidence(ScoreAt(S, i),
                    {ScoreAt(S, j) : j \in {k \in Candidates(S) : Rank(S, k) = Rank(S, i) + 1}})]

LEMMA TopIsFirst ==
  ASSUME NEW e, IsSignals(Signals(e)), NEW t \in Candidates(Signals(e)),
         Rank(Signals(e), t) = 1,
         \A i \in Candidates(Signals(e)) : Rank(Signals(e), i) = 1 => i = t
  PROVE  TopCause(e) = CauseEntry(Signals(e), t)
<1> DEFINE S == Signals(e)
<1>1. Ranked(S) = {CauseEntry(S, i) : i \in Candidates(S)}
  BY DEF Ranked, CauseEntry, ScoreAt
<1>2. \A i \in Candidates(S) : CauseEntry(S, i).rank = Rank(S, i)
  BY DEF CauseEntry
<1>3. TopCause(e) = CHOOSE c \in Ranked(S) : c.rank = 1
  BY DEF TopCause
<1> HIDE DEF S
<1>4. CauseEntry(S, t) \in Ranked(S) /\ CauseEntry(S, t).rank = 1
  BY <1>1, <1>2 DEF S
<1>5. \A c \in Ranked(S) : c.rank = 1 => c = CauseEntry(S, t)
  BY <1>1, <1>2 DEF S
<1> QED
  BY <1>3, <1>4, <1>5 DEF S

\* What speaks for a cause.
Direct(e) ==
  (IF e.quality # "none" THEN {QualitySignal(e)} ELSE {}) \cup DriftSignals(e)
    \cup IngestionSignals(e)

Source == "UPSTREAM_SOURCE_FAILURE"

LEMMA QualitySignalIs ==
  ASSUME NEW e
  PROVE  /\ QualitySignal(e).weight \in {10, 12}
         /\ QualitySignal(e).cause \in {"FRESHNESS_DELAY", "TIMESTAMP_GAP", "VOLUME_CHANGE",
                                        "DATABASE_OR_PIPELINE_ERROR", "INVALID_VALUES"}
<1>1. CASE e.family = "freshness"
  BY <1>1 DEF QualitySignal, Signal
<1>2. CASE e.family = "continuity"
  BY <1>2 DEF QualitySignal, Signal
<1>3. CASE e.family = "volume"
  BY <1>3 DEF QualitySignal, Signal
<1>4. CASE e.family \notin {"freshness", "continuity", "volume"}
  BY <1>4 DEF QualitySignal, Signal
<1> QED
  BY <1>1, <1>2, <1>3, <1>4

LEMMA DriftSignalsAre ==
  ASSUME NEW e
  PROVE  /\ IsFiniteSet(DriftSignals(e))
         /\ DriftSignals(e) = {} <=> e.drift.status # "DRIFT"
         /\ \A s, t \in DriftSignals(e) : s = t
         /\ \A s \in DriftSignals(e) :
              s.weight \in {10, 12} /\ s.cause \in {"SCHEMA_CHANGE", "DISTRIBUTION_SHIFT"}
<1>1. CASE e.drift.status # "DRIFT"
  <2>1. DriftSignals(e) = {}
    BY <1>1 DEF DriftSignals
  <2> QED
    BY <1>1, <2>1, FS_EmptySet
<1>2. CASE e.drift.status = "DRIFT"
  <2> DEFINE schema == Signal("SCHEMA_CHANGE", 12, "schema_difference_detected")
             shift == Signal("DISTRIBUTION_SHIFT", 10, "psi_distribution_shift")
  <2>1. /\ schema.weight = 12 /\ schema.cause = "SCHEMA_CHANGE"
        /\ shift.weight = 10 /\ shift.cause = "DISTRIBUTION_SHIFT"
    BY DEF Signal
  <2>2. DriftSignals(e) = {schema} \/ DriftSignals(e) = {shift}
    BY <1>2 DEF DriftSignals
  <2> HIDE DEF schema, shift
  <2> QED
    BY <1>2, <2>1, <2>2, FS_Singleton
<1> QED
  BY <1>1, <1>2

LEMMA IngestionSignalsAre ==
  ASSUME NEW e
  PROVE  /\ IsFiniteSet(IngestionSignals(e))
         /\ IngestionSignals(e) = {} <=> e.ingestion # "FAILED"
         /\ \A s \in IngestionSignals(e) : s.weight \in {2, 12} /\ s.cause = Source
         /\ e.ingestion = "FAILED" =>
              \E s : /\ s.weight = 12
                     /\ ~e.upstream => IngestionSignals(e) = {s}
                     /\ e.upstream => \E t : t.weight = 2 /\ IngestionSignals(e) = {s, t}
<1> DEFINE failed == Signal("UPSTREAM_SOURCE_FAILURE", 12, "ingestion_failed")
           known == Signal("UPSTREAM_SOURCE_FAILURE", 2, "upstream_source_in_lineage")
<1>1. failed.weight = 12 /\ known.weight = 2 /\ failed.cause = Source /\ known.cause = Source
  BY DEF Signal, Source
<1>2. /\ e.ingestion # "FAILED" => IngestionSignals(e) = {}
      /\ e.ingestion = "FAILED" =>
           /\ ~e.upstream => IngestionSignals(e) = {failed}
           /\ e.upstream => IngestionSignals(e) = {failed, known}
  BY DEF IngestionSignals
<1> HIDE DEF failed, known
<1>3. IsFiniteSet({}) /\ IsFiniteSet({failed}) /\ IsFiniteSet({failed, known})
  <2>1. IsFiniteSet({failed} \cup {known}) /\ {failed} \cup {known} = {failed, known}
    BY FS_Singleton, FS_AddElement
  <2> QED
    BY <2>1, FS_Singleton, FS_EmptySet
<1> QED
  BY <1>1, <1>2, <1>3

\* Only a failed source has two signals, which add up.
LEMMA DirectSignals ==
  ASSUME NEW e
  PROVE  /\ IsFiniteSet(Direct(e))
         /\ Direct(e) = {} <=>
              e.quality = "none" /\ e.drift.status # "DRIFT" /\ e.ingestion # "FAILED"
         /\ \A s \in Direct(e) : s.weight \in {2, 10, 12} /\ \E i \in 1..9 : s.cause = Causes[i]
         /\ \A s \in Direct(e) : s.cause # Source => s.weight \in {10, 12}
         /\ \A s, t \in Direct(e) : s.cause = t.cause /\ s.cause # Source => s = t
         /\ {s \in Direct(e) : s.cause = Source} = IngestionSignals(e)
<1> DEFINE Q == IF e.quality # "none" THEN {QualitySignal(e)} ELSE {}
           five == {"FRESHNESS_DELAY", "TIMESTAMP_GAP", "VOLUME_CHANGE",
                    "DATABASE_OR_PIPELINE_ERROR", "INVALID_VALUES"}
           two == {"SCHEMA_CHANGE", "DISTRIBUTION_SHIFT"}
<1>1. /\ IsFiniteSet(Q) /\ (Q = {} <=> e.quality = "none")
      /\ \A s, t \in Q : s = t
      /\ \A s \in Q : s.weight \in {10, 12} /\ s.cause \in five
  BY QualitySignalIs, FS_Singleton, FS_EmptySet
<1>2. Direct(e) = (Q \cup DriftSignals(e)) \cup IngestionSignals(e)
  BY DEF Direct
<1> HIDE DEF Q
<1>3. IsFiniteSet(Direct(e))
  <2>1. IsFiniteSet(Q) /\ IsFiniteSet(DriftSignals(e)) /\ IsFiniteSet(IngestionSignals(e))
    BY <1>1, DriftSignalsAre, IngestionSignalsAre
  <2>2. IsFiniteSet(Q \cup DriftSignals(e))
    BY <2>1, FS_Union
  <2>3. IsFiniteSet((Q \cup DriftSignals(e)) \cup IngestionSignals(e))
    BY <2>1, <2>2, FS_Union
  <2> QED
    BY <1>2, <2>3
<1>4. five \cap two = {} /\ Source \notin five /\ Source \notin two
  BY DEF Source
<1>5. \A c \in five \cup two \cup {Source} : \E i \in 1..9 : c = Causes[i]
  <2>1. \E i \in 1..9 : Causes[i] = "FRESHNESS_DELAY"
    BY DEF Causes
  <2>2. \E i \in 1..9 : Causes[i] = "TIMESTAMP_GAP"
    BY DEF Causes
  <2>3. \E i \in 1..9 : Causes[i] = "VOLUME_CHANGE"
    BY DEF Causes
  <2>4. \E i \in 1..9 : Causes[i] = "DATABASE_OR_PIPELINE_ERROR"
    BY DEF Causes
  <2>5. \E i \in 1..9 : Causes[i] = "INVALID_VALUES"
    BY DEF Causes
  <2>6. \E i \in 1..9 : Causes[i] = "SCHEMA_CHANGE"
    BY DEF Causes
  <2>7. \E i \in 1..9 : Causes[i] = "DISTRIBUTION_SHIFT"
    BY DEF Causes
  <2>8. \E i \in 1..9 : Causes[i] = Source
    BY DEF Causes, Source
  <2> QED
    BY <2>1, <2>2, <2>3, <2>4, <2>5, <2>6, <2>7, <2>8
<1> HIDE DEF five, two
<1>6. \A s \in DriftSignals(e) : s.weight \in {10, 12} /\ s.cause \in two
  BY DriftSignalsAre DEF two
<1>7. \A s \in IngestionSignals(e) : s.weight \in {2, 12} /\ s.cause = Source
  BY IngestionSignalsAre
<1>8. Direct(e) = {} <=>
        e.quality = "none" /\ e.drift.status # "DRIFT" /\ e.ingestion # "FAILED"
  BY <1>1, <1>2, DriftSignalsAre, IngestionSignalsAre
<1>9. \A s \in Direct(e) : s.weight \in {2, 10, 12} /\ \E i \in 1..9 : s.cause = Causes[i]
  BY <1>1, <1>2, <1>5, <1>6, <1>7
<1>10. \A s \in Direct(e) : s.cause # Source => s.weight \in {10, 12}
  BY <1>1, <1>2, <1>6, <1>7
<1>11. \A s, t \in Direct(e) : s.cause = t.cause /\ s.cause # Source => s = t
  BY <1>1, <1>2, <1>4, <1>6, <1>7, DriftSignalsAre
<1>12. {s \in Direct(e) : s.cause = Source} = IngestionSignals(e)
  BY <1>1, <1>2, <1>4, <1>6, <1>7
<1> QED
  BY <1>3, <1>8, <1>9, <1>10, <1>11, <1>12

LEMMA SignalsAreSignals ==
  ASSUME NEW e
  PROVE  /\ IsSignals(Signals(e))
         /\ Direct(e) # {} => Signals(e) = Direct(e)
         /\ Direct(e) = {} => \E s : s.weight = 0 /\ s.cause = Causes[7] /\ Signals(e) = {s}
<1>1. Direct(e) # {} => Signals(e) = Direct(e)
  BY DEF Signals, Direct
<1>2. Direct(e) = {} => Signals(e) = {Signal("UNKNOWN", 0, "no_persisted_supporting_evidence")}
  BY DEF Signals, Direct
<1>3. Direct(e) = {} => \E s : s.weight = 0 /\ s.cause = Causes[7] /\ Signals(e) = {s}
  BY <1>2 DEF Signal, Causes
<1>4. CASE Direct(e) # {}
  <2>1. \A s \in Direct(e) : s.weight \in Int /\ s.cause \in {Causes[i] : i \in 1..9}
    BY DirectSignals
  <2> QED
    BY <1>1, <1>3, <1>4, <2>1, DirectSignals DEF IsSignals
<1>5. CASE Direct(e) = {}
  <2>1. PICK s : s.weight = 0 /\ s.cause = Causes[7] /\ Signals(e) = {s}
    BY <1>3, <1>5
  <2>2. IsSignals({s})
    <3>1. IsFiniteSet({s}) /\ {s} # {}
      BY FS_Singleton
    <3>2. s.weight \in Int /\ s.cause \in {Causes[i] : i \in 1..9}
      BY <2>1
    <3> QED
      BY <3>1, <3>2 DEF IsSignals
  <2> QED
    BY <1>1, <1>3, <2>1, <2>2
<1> QED
  BY <1>4, <1>5

LEMMA ScoreOfOne ==
  ASSUME NEW S, IsSignals(S), NEW cause, NEW s, {x \in S : x.cause = cause} = {s}
  PROVE  ScoreOf(S, cause) = s.weight
<1> DEFINE weight == [x \in S |-> x.weight]
<1>1. s \in S
  OBVIOUS
<1>2. weight[s] = s.weight /\ weight[s] \in Int
  BY <1>1 DEF IsSignals
<1>3. ScoreOf(S, cause) = Total(weight, {s})
  BY ScoreIsTotal
<1> HIDE DEF weight
<1>4. IsFiniteSet({s}) /\ \A x \in {s} : weight[x] \in Int
  BY <1>2, FS_Singleton
<1>5. Total(weight, {s}) = weight[s] + Total(weight, {s} \ {s})
  BY <1>4, TotalSteps
<1>6. Total(weight, {s} \ {s}) = 0
  <2>1. IsFiniteSet({}) /\ {s} \ {s} = {}
    BY FS_EmptySet
  <2>2. Total(weight, {}) = 0
    BY <2>1, TotalOfNone
  <2> QED
    BY <2>1, <2>2
<1> QED
  BY <1>2, <1>3, <1>5, <1>6

LEMMA ScoreOfPair ==
  ASSUME NEW S, IsSignals(S), NEW cause, NEW s, NEW t, s # t,
         {x \in S : x.cause = cause} = {s, t}
  PROVE  ScoreOf(S, cause) = s.weight + t.weight
<1> DEFINE weight == [x \in S |-> x.weight]
<1>1. s \in S /\ t \in S
  OBVIOUS
<1>2. /\ weight[s] = s.weight /\ weight[s] \in Int
      /\ weight[t] = t.weight /\ weight[t] \in Int
  BY <1>1 DEF IsSignals
<1>3. ScoreOf(S, cause) = Total(weight, {s, t}) /\ IsFiniteSet({s, t})
  BY ScoreIsTotal
<1> HIDE DEF weight
<1>4. Total(weight, {s, t}) = weight[s] + Total(weight, {s, t} \ {s})
  BY <1>2, <1>3, TotalSteps
<1>5. {s, t} \ {s} = {t} /\ {t} \ {t} = {} /\ IsFiniteSet({t}) /\ IsFiniteSet({})
  BY FS_Singleton, FS_EmptySet
<1>6. Total(weight, {t}) = weight[t] + Total(weight, {t} \ {t})
  BY <1>2, <1>5, TotalSteps
<1>7. Total(weight, {}) = 0
  BY <1>5, TotalOfNone
<1>8. Total(weight, {s, t} \ {s}) = Total(weight, {t}) /\ Total(weight, {t} \ {t}) = Total(weight, {})
  BY <1>5
<1>9. Total(weight, {s, t}) = weight[s] + (weight[t] + 0)
  BY <1>4, <1>6, <1>7, <1>8
<1>10. Total(weight, {s, t}) = s.weight + t.weight
  BY <1>2, <1>9
<1> QED
  BY <1>3, <1>10

\* Where something speaks for a cause, each candidate has what its only signal weighs, but a
\* failed source has both of its signals.
LEMMA DirectScores ==
  ASSUME NEW e, Direct(e) # {}
  PROVE  /\ \A i \in Candidates(Signals(e)) : i # 8 => ScoreAt(Signals(e), i) \in {10, 12}
         /\ 8 \in Candidates(Signals(e)) <=> e.ingestion = "FAILED"
         /\ 8 \in Candidates(Signals(e)) => ScoreAt(Signals(e), 8) \in {12, 14}
         /\ 8 \in Candidates(Signals(e)) /\ e.upstream => ScoreAt(Signals(e), 8) = 14
<1> DEFINE S == Signals(e)
           part(c) == {s \in S : s.cause = c}
<1>1. IsSignals(S) /\ S = Direct(e)
  BY SignalsAreSignals
<1>2. Causes[8] = Source /\ \A i \in 1..9 : i # 8 => Causes[i] # Source
  BY DEF Causes, Source
<1>3. \A i : i \in Candidates(S) <=> i \in 1..9 /\ \E s \in S : s.cause = Causes[i]
  BY NineCauses DEF Candidates
<1> HIDE DEF S
<1>4. ASSUME NEW i \in Candidates(S), i # 8 PROVE ScoreAt(S, i) \in {10, 12}
  <2>1. Causes[i] # Source
    BY <1>2, <1>3, <1>4
  <2>2. PICK s \in S : s.cause = Causes[i]
    BY <1>3, <1>4
  <2>3. part(Causes[i]) = {s} /\ s.weight \in {10, 12}
    BY <1>1, <2>1, <2>2, DirectSignals
  <2>4. ScoreOf(S, Causes[i]) = s.weight
    BY <1>1, <2>3, ScoreOfOne
  <2> QED
    BY <2>3, <2>4 DEF ScoreAt
<1>5. part(Source) = IngestionSignals(e)
  BY <1>1, DirectSignals
<1>6. 8 \in Candidates(S) <=> e.ingestion = "FAILED"
  <2>1. 8 \in Candidates(S) <=> part(Source) # {}
    BY <1>2, <1>3
  <2> QED
    BY <1>5, <2>1, IngestionSignalsAre
<1>7. ASSUME e.ingestion = "FAILED"
      PROVE  ScoreAt(S, 8) \in {12, 14} /\ (e.upstream => ScoreAt(S, 8) = 14)
  <2>1. PICK s : /\ s.weight = 12
                 /\ ~e.upstream => IngestionSignals(e) = {s}
                 /\ e.upstream => \E t : t.weight = 2 /\ IngestionSignals(e) = {s, t}
    BY <1>7, IngestionSignalsAre
  <2>2. CASE ~e.upstream
    <3>1. ScoreOf(S, Source) = s.weight
      BY <1>1, <1>5, <2>1, <2>2, ScoreOfOne
    <3> QED
      BY <1>2, <2>1, <2>2, <3>1 DEF ScoreAt
  <2>3. CASE e.upstream
    <3>1. PICK t : t.weight = 2 /\ IngestionSignals(e) = {s, t}
      BY <2>1, <2>3
    <3>2. s # t
      BY <2>1, <3>1
    <3>3. ScoreOf(S, Source) = s.weight + t.weight
      BY <1>1, <1>5, <3>1, <3>2, ScoreOfPair
    <3> QED
      BY <1>2, <2>1, <3>1, <3>3 DEF ScoreAt
  <2> QED
    BY <2>2, <2>3
<1> QED
  BY <1>4, <1>6, <1>7 DEF S

LEMMA HighLeadsAllNow ==
  ASSUME NEW e, TopCause(e).confidence = "HIGH", NEW c \in Ranked(Signals(e)), c.rank # 1
  PROVE  c.score < TopCause(e).score
<1> DEFINE S == Signals(e)
           C == Candidates(S)
<1>1. IsSignals(S)
  BY SignalsAreSignals
<1>2. PICK t \in C :
        /\ Rank(S, t) = 1
        /\ \A i \in C : Key(S, i) <= Key(S, t)
        /\ \A i \in C : Rank(S, i) = 1 => i = t
        /\ C \ {t} # {} =>
             \E u \in C : Rank(S, u) = 2 /\ \A i \in C \ {t} : Key(S, i) <= Key(S, u)
  BY <1>1, FirstAndSecond
<1>3. TopCause(e) = CauseEntry(S, t)
  BY <1>1, <1>2, TopIsFirst
<1>4. PICK i \in C : c = CauseEntry(S, i)
  BY DEF Ranked, CauseEntry, ScoreAt
<1> HIDE DEF C, S
<1>5. i # t
  BY <1>2, <1>4 DEF CauseEntry
<1>6. PICK u \in C : Rank(S, u) = 2 /\ \A j \in C \ {t} : Key(S, j) <= Key(S, u)
  BY <1>2, <1>4, <1>5
<1>7. /\ ScoreAt(S, i) \in Int /\ ScoreAt(S, u) \in Int /\ ScoreAt(S, t) \in Int
      /\ ScoreAt(S, i) <= ScoreAt(S, u)
  BY <1>1, <1>4, <1>5, <1>6, KeysRank DEF C
<1>8. Confidence(ScoreAt(S, t), {ScoreAt(S, j) : j \in {k \in C : Rank(S, k) = 2}}) = "HIGH"
  BY <1>2, <1>3 DEF CauseEntry, C, S
<1>9. ScoreAt(S, t) > ScoreAt(S, u)
  BY <1>6, <1>8 DEF Confidence
<1>10. c.score = ScoreAt(S, i) /\ TopCause(e).score = ScoreAt(S, t)
  BY <1>3, <1>4 DEF CauseEntry
<1> QED
  BY <1>7, <1>9, <1>10

LEMMA FailedSourceIsBlamedNow ==
  ASSUME NEW e, e.ingestion = "FAILED", e.upstream
  PROVE  TopCause(e).cause = "UPSTREAM_SOURCE_FAILURE" /\ TopCause(e).confidence = "HIGH"
<1> DEFINE S == Signals(e)
           C == Candidates(S)
<1>1. IsSignals(S)
  BY SignalsAreSignals
<1>2. PICK t \in C :
        /\ Rank(S, t) = 1
        /\ \A i \in C : Key(S, i) <= Key(S, t)
        /\ \A i \in C : Rank(S, i) = 1 => i = t
  BY <1>1, FirstAndSecond
<1>3. TopCause(e) = CauseEntry(S, t)
  BY <1>1, <1>2, TopIsFirst
<1>4. Direct(e) # {}
  BY DirectSignals
<1>5. /\ 8 \in C /\ ScoreAt(S, 8) = 14
      /\ \A i \in C : i # 8 => ScoreAt(S, i) \in {10, 12}
  BY <1>4, DirectScores
<1> HIDE DEF C, S
<1>6. t = 8
  <2>1. ScoreAt(S, 8) <= ScoreAt(S, t)
    BY <1>1, <1>2, <1>5, KeysRank DEF C
  <2> QED
    BY <1>5, <2>1
<1>7. ASSUME NEW j \in C, Rank(S, j) = 2 PROVE 14 > ScoreAt(S, j)
  <2>1. j # 8
    BY <1>2, <1>6, <1>7
  <2> QED
    BY <1>5, <2>1
<1>8. \A n \in {ScoreAt(S, j) : j \in {k \in C : Rank(S, k) = 2}} : 14 > n
  BY <1>7
<1>9. Confidence(14, {ScoreAt(S, j) : j \in {k \in C : Rank(S, k) = 2}}) = "HIGH"
  BY <1>8 DEF Confidence
<1>10. TopCause(e).confidence = "HIGH"
  BY <1>2, <1>3, <1>5, <1>6, <1>9 DEF CauseEntry, C
<1>11. TopCause(e).cause = Causes[8]
  BY <1>3, <1>6 DEF CauseEntry
<1> QED
  BY <1>10, <1>11 DEF Causes

LEMMA UnknownIffNothingCitedNow ==
  ASSUME NEW e
  PROVE  TopCause(e).confidence = "UNKNOWN" <=> Direct(e) = {}
<1> DEFINE S == Signals(e)
           C == Candidates(S)
<1>1. IsSignals(S)
  BY SignalsAreSignals
<1>2. PICK t \in C :
        /\ Rank(S, t) = 1
        /\ \A i \in C : Key(S, i) <= Key(S, t)
        /\ \A i \in C : Rank(S, i) = 1 => i = t
  BY <1>1, FirstAndSecond
<1>3. TopCause(e) = CauseEntry(S, t)
  BY <1>1, <1>2, TopIsFirst
<1>4. ScoreAt(S, t) \in Int
  BY <1>1, <1>2, KeysRank
<1>5. TopCause(e).confidence = "UNKNOWN" <=> ScoreAt(S, t) <= 0
  <2>1. \A n : \A m \in Int : Confidence(m, n) = "UNKNOWN" <=> m <= 0
    BY DEF Confidence
  <2> HIDE DEF S, C
  <2> QED
    BY <1>3, <1>4, <2>1 DEF CauseEntry
<1>6. CASE Direct(e) # {}
  <2>1. ScoreAt(S, t) \in {10, 12, 14}
    BY <1>2, <1>6, DirectScores
  <2> QED
    BY <1>5, <1>6, <2>1
<1>7. CASE Direct(e) = {}
  <2>1. PICK s : s.weight = 0 /\ s.cause = Causes[7] /\ S = {s}
    BY <1>7, SignalsAreSignals
  <2>2. s.cause = Causes[t]
    BY <2>1 DEF Candidates
  <2>3. {x \in S : x.cause = Causes[t]} = {s}
    BY <2>1, <2>2
  <2> HIDE DEF S
  <2>4. ScoreAt(S, t) = 0
    BY <1>1, <2>1, <2>3, ScoreOfOne DEF ScoreAt
  <2> QED
    BY <1>5, <1>7, <2>4
<1> QED
  BY <1>6, <1>7

\* Whatever the evidence of an incident is, the probable cause is called HIGH only if it leads
\* every other candidate, a failed source of the lineage is blamed with confidence, and UNKNOWN
\* is said exactly if the incident cites no quality result, however it ended, no DRIFT and no
\* failed ingestion (rca/engine.py, rca/service.py).
THEOREM CausesAreEarnedHolds == Spec => []CausesAreEarned
<1>1. CausesAreEarned
  <2>1. HighLeadsAll
    BY HighLeadsAllNow DEF HighLeadsAll
  <2>2. FailedSourceIsBlamed
    BY FailedSourceIsBlamedNow DEF FailedSourceIsBlamed
  <2>3. UnknownIffNothingCited
    BY UnknownIffNothingCitedNow, DirectSignals DEF UnknownIffNothingCited
  <2> QED
    BY <2>1, <2>2, <2>3 DEF CausesAreEarned
<1> QED
  BY <1>1, PTL

-------------------------------------------------------------------------------
(***************************************************************************)
(* Drift.                                                                  *)
(***************************************************************************)
LEMMA StoredBaselineSufficesNow ==
  ASSUME NEW b, NEW c
  PROVE  EvaluateStored(BaselineSummary(b), c) = EvaluateSamples(b, c)
<1> DEFINE row == BaselineSummary(b)
<1>1. /\ row.sample_count = Len(b) /\ row.bins = BinEdges(b)
      /\ row.distribution = Distribution(b, BinEdges(b))
  BY DEF BaselineSummary
<1> HIDE DEF row
<1>2. EvaluateStored(row, c) = EvaluateSamples(b, c)
  BY <1>1 DEF EvaluateStored, EvaluateSamples
<1> QED
  BY <1>2 DEF row

LEMMA QuietIsStable ==
  ASSUME NEW m \in Nat \ {0}, NEW n \in Nat \ {0}
  PROVE  StatusFor(0, m * n) = "STABLE"
<1>1. m * n \in Nat /\ m * n > 0
  OBVIOUS
<1> DEFINE totals == m * n
<1> HIDE DEF totals
<1>2. totals \in Nat /\ totals > 0
  BY <1>1 DEF totals
<1>3. Threshold = 200 \/ Threshold = 300
  BY SampleAssumption
<1>4. ~(0 >= Threshold * totals) /\ ~(2 * 0 >= Threshold * totals)
  BY <1>2, <1>3
<1>5. StatusFor(0, totals) = "STABLE"
  BY <1>4 DEF StatusFor
<1> QED
  BY <1>5 DEF totals

LEMMA SharesAreNumbers ==
  ASSUME NEW s \in Samples, NEW n \in 0..Len(s), Len(s) # 0
  PROVE  LnShare(n, Len(s)) \in Int
<1>1. s \in Seq(Int) /\ 1..Len(s) \subseteq DOMAIN Ln
  BY SamplesAssumption
<1>2. Len(s) \in Nat
  BY <1>1
<1>3. Len(s) \in DOMAIN Ln /\ (n # 0 => n \in DOMAIN Ln)
  BY <1>1, <1>2
<1>4. Ln[Len(s)] \in Nat /\ (n # 0 => Ln[n] \in Nat)
  BY <1>3, LnAssumption
<1> QED
  BY <1>4 DEF LnShare, Epsilon

\* All deciles of equal values are that value.
LEMMA ConstantHasOneEdge ==
  ASSUME NEW s \in Seq(Int), Len(s) # 0, NEW v \in Int, \A i \in DOMAIN s : s[i] = v
  PROVE  BinEdges(s) = {10 * v}
<1>1. Len(s) \in Nat /\ Len(s) # 0
  OBVIOUS
<1>2. \A k \in 1..Len(s) : Sorted(s)[k] = v
  BY SortedPlaces
<1> DEFINE p == Len(s) - 1
<1>3. p \in Nat /\ Len(s) = p + 1
  BY <1>1
<1> HIDE DEF p
<1>4. ASSUME NEW k \in 1..9 PROVE Quantile(s, k) = 10 * v
  <2> DEFINE position == p * k
             lower == 1 + position \div 10
             upper == IF lower = Len(s) THEN lower ELSE lower + 1
  <2>1. position \in Nat /\ position <= 9 * p
    <3>1. k = 1 \/ k = 2 \/ k = 3 \/ k = 4 \/ k = 5 \/ k = 6 \/ k = 7 \/ k = 8 \/ k = 9
      OBVIOUS
    <3> QED
      BY <1>3, <3>1
  <2>2. Quantile(s, k) = 10 * Sorted(s)[lower]
                           + (Sorted(s)[upper] - Sorted(s)[lower]) * (position % 10)
    BY DEF Quantile, p
  <2> HIDE DEF position
  <2>3. position \div 10 \in 0..p
    BY <1>3, <2>1
  <2>4. lower \in 1..Len(s)
    BY <1>3, <2>3
  <2>5. upper \in 1..Len(s)
    BY <1>1, <2>4
  <2> HIDE DEF lower, upper
  <2>6. Quantile(s, k) = 10 * v + (v - v) * (position % 10)
    BY <1>2, <2>2, <2>4, <2>5
  <2>7. position % 10 \in Int
    BY <2>1
  <2>8. v - v = 0 /\ 0 * (position % 10) = 0
    BY <2>7
  <2> QED
    BY <2>6, <2>8
<1>5. 1 \in 1..9
  OBVIOUS
<1> QED
  BY <1>4, <1>5 DEF BinEdges

\* What is not below the only edge is in the bin above it.
LEMMA DistributionAboveEdge ==
  ASSUME NEW s \in Seq(Int), NEW v \in Int, \A i \in DOMAIN s : s[i] >= v
  PROVE  /\ DOMAIN Distribution(s, {10 * v}).counts = {0, 1}
         /\ Distribution(s, {10 * v}).counts[0] = 0
         /\ Distribution(s, {10 * v}).counts[1] = Len(s)
         /\ Distribution(s, {10 * v}).total = Len(s)
<1> DEFINE cuts == {10 * v}
           D == Distribution(s, cuts)
<1>1. Cardinality(cuts) = 1
  BY FS_Singleton
<1>2. ASSUME NEW i \in DOMAIN s PROVE Bin(cuts, s[i]) = 1
  <2>1. s[i] \in Int /\ 10 * v <= 10 * s[i]
    OBVIOUS
  <2>2. {e \in cuts : e <= 10 * s[i]} = cuts
    BY <2>1
  <2> HIDE DEF cuts
  <2> QED
    BY <1>1, <2>2 DEF Bin
<1> HIDE DEF cuts
<1>3. /\ D.counts = [b \in 0..1 |-> Cardinality({i \in DOMAIN s : Bin(cuts, s[i]) = b})]
      /\ D.total = Len(s)
  BY <1>1 DEF Distribution
<1> HIDE DEF D
<1>4. 0..1 = {0, 1}
  OBVIOUS
<1>5. {i \in DOMAIN s : Bin(cuts, s[i]) = 0} = {} /\ {i \in DOMAIN s : Bin(cuts, s[i]) = 1} = DOMAIN s
  <2> DEFINE in == [i \in DOMAIN s |-> Bin(cuts, s[i])]
  <2>1. \A i \in DOMAIN s : Bin(cuts, s[i]) = in[i] /\ in[i] = 1 /\ in[i] # 0
    BY <1>2
  <2> HIDE DEF in
  <2>2. {i \in DOMAIN s : in[i] = 0} = {} /\ {i \in DOMAIN s : in[i] = 1} = DOMAIN s
    BY <2>1
  <2> QED
    BY <2>1, <2>2
<1>6. Cardinality({}) = 0 /\ Cardinality(DOMAIN s) = Len(s)
  <2>1. v \in Int
    OBVIOUS
  <2> QED
    BY <2>1, FS_EmptySet, UnderAndNotAbove
<1>7. D.counts[0] = 0 /\ D.counts[1] = Len(s) /\ DOMAIN D.counts = {0, 1}
  <2> DEFINE at(b) == Cardinality({i \in DOMAIN s : Bin(cuts, s[i]) = b})
  <2>1. D.counts = [b \in {0, 1} |-> at(b)]
    BY <1>3, <1>4
  <2>2. at(0) = 0 /\ at(1) = Len(s)
    BY <1>5, <1>6
  <2> HIDE DEF at
  <2> QED
    BY <2>1, <2>2
<1> QED
  BY <1>3, <1>7 DEF D, cuts

LEMMA BlindAboveConstantNow ==
  ASSUME NEW b \in Samples, NEW c \in Samples,
         \A i \in DOMAIN b : b[i] = b[1], \A i \in DOMAIN c : c[i] >= b[1]
  PROVE  EvaluateSamples(b, c).status \in {"STABLE", "SKIPPED"}
<1> DEFINE v == b[1]
           cuts == BinEdges(b)
           E == Distribution(b, cuts)
           A == Distribution(c, cuts)
<1>1. b \in Seq(Int) /\ c \in Seq(Int) /\ Len(b) \in Nat /\ Len(c) \in Nat
  BY SamplesAssumption
<1>2. CASE Len(b) < MinSamples \/ Len(c) < MinSamples
  BY <1>2 DEF EvaluateSamples, NumericResult
<1>3. CASE ~(Len(b) < MinSamples) /\ ~(Len(c) < MinSamples)
  <2>1. Len(b) \in Nat \ {0} /\ Len(c) \in Nat \ {0}
    BY <1>1, <1>3, SampleAssumption
  <2>2. v \in Int /\ \A i \in DOMAIN b : b[i] = v
    BY <1>1, <2>1
  <2>3. \A i \in DOMAIN c : c[i] >= v
    OBVIOUS
  <2> HIDE DEF v
  <2>4. cuts = {10 * v}
    BY <1>1, <2>1, <2>2, ConstantHasOneEdge
  <2>5. \A i \in DOMAIN b : b[i] >= v
    BY <2>2
  <2>6. /\ DOMAIN E.counts = {0, 1} /\ E.counts[0] = 0 /\ E.counts[1] = Len(b) /\ E.total = Len(b)
    BY <1>1, <2>2, <2>4, <2>5, DistributionAboveEdge
  <2>7. /\ DOMAIN A.counts = {0, 1} /\ A.counts[0] = 0 /\ A.counts[1] = Len(c) /\ A.total = Len(c)
    BY <1>1, <2>2, <2>3, <2>4, DistributionAboveEdge
  <2>8. EvaluateSamples(b, c).status = StatusFor(Psi(E, A), E.total * A.total)
    BY <1>3 DEF EvaluateSamples, Compared, NumericResult
  <2> HIDE DEF E, A, cuts
  <2> DEFINE gain(x) == A.counts[x] * E.total - E.counts[x] * A.total
             ratio(x) == LnShare(A.counts[x], A.total) - LnShare(E.counts[x], E.total)
             term == [x \in {0, 1} |-> gain(x) * ratio(x)]
  <2>9. Psi(E, A) = SumFunction(term)
    BY <2>6 DEF Psi
  <2>10. \A x \in {0, 1} : gain(x) = 0
    <3>1. 0 * Len(b) - 0 * Len(c) = 0 /\ Len(c) * Len(b) - Len(b) * Len(c) = 0
      BY <2>1
    <3> QED
      BY <2>6, <2>7, <3>1
  <2>11. \A x \in {0, 1} : ratio(x) \in Int
    <3>1. /\ LnShare(0, Len(b)) \in Int /\ LnShare(Len(b), Len(b)) \in Int
          /\ LnShare(0, Len(c)) \in Int /\ LnShare(Len(c), Len(c)) \in Int
      BY <2>1, SharesAreNumbers
    <3> QED
      BY <2>6, <2>7, <3>1
  <2> HIDE DEF gain, ratio
  <2>12. \A x \in {0, 1} : term[x] = 0
    BY <2>10, <2>11
  <2>13. Psi(E, A) = 0
    <3>1. IsFiniteSet({0, 1})
      <4>1. IsFiniteSet({0} \cup {1}) /\ {0} \cup {1} = {0, 1}
        BY FS_Singleton, FS_AddElement
      <4> QED
        BY <4>1
    <3>2. Total(term, {0, 1}) = SumFunction([x \in {0, 1} |-> term[x]])
      BY DEF Total
    <3>3. [x \in {0, 1} |-> term[x]] = term
      OBVIOUS
    <3> HIDE DEF term
    <3>4. Total(term, {0, 1}) = 0
      BY <2>12, <3>1, TotalOfNone
    <3> QED
      BY <2>9, <3>2, <3>3, <3>4
  <2> QED
    BY <2>1, <2>6, <2>7, <2>8, <2>13, QuietIsStable
<1> QED
  BY <1>2, <1>3

LEMMA EdgesAreFinite ==
  ASSUME NEW s \in Seq(Int), Len(s) # 0
  PROVE  IsFiniteSet(BinEdges(s))
<1> DEFINE ks == 1..9
           f == [k \in ks |-> Quantile(s, k)]
           T == BinEdges(s)
<1>1. T = {f[k] : k \in ks}
  BY DEF BinEdges
<1>2. IsFiniteSet(ks)
  <2>1. \A n \in Int : IsFiniteSet(1..n)
    BY FS_Interval
  <2> DEFINE nine == 9
  <2>2. nine \in Int
    OBVIOUS
  <2> HIDE DEF nine
  <2>3. IsFiniteSet(1..nine)
    BY <2>1, <2>2
  <2> QED
    BY <2>3 DEF nine
<1>3. DOMAIN f = ks
  OBVIOUS
<1> HIDE DEF ks, T
<1>4. f \in Surjection(ks, T)
  BY <1>1 DEF Surjection
<1> HIDE DEF f
<1>5. IsFiniteSet(T)
  BY <1>2, <1>4, FS_Surjection
<1> QED
  BY <1>5 DEF T

\* A distribution counts each value of the sample in one bin.
LEMMA DistributionCounts ==
  ASSUME NEW s \in Seq(Int), NEW cuts, IsFiniteSet(cuts)
  PROVE  LET D == Distribution(s, cuts)
             bins == 0..Cardinality(cuts)
         IN  /\ DOMAIN D.counts = bins /\ D.counts = [b \in bins |-> D.counts[b]]
             /\ IsFiniteSet(bins)
             /\ \A b \in bins : D.counts[b] \in Nat
             /\ Total(D.counts, bins) = Len(s)
             /\ D.total = Len(s) /\ DOMAIN D = {"counts", "total"}
             /\ D = [counts |-> D.counts, total |-> D.total]
<1> DEFINE D == Distribution(s, cuts)
           n == Cardinality(cuts)
           bins == 0..n
           I == DOMAIN s
           h == [i \in I |-> Bin(cuts, s[i])]
<1>1. n \in Nat
  BY FS_CardinalityType
<1>2. IsFiniteSet(bins)
  <2> HIDE DEF n
  <2> QED
    BY <1>1, FS_Interval
<1>3. IsFiniteSet(I) /\ Cardinality(I) = Len(s)
  <2>1. 0 \in Int
    OBVIOUS
  <2> QED
    BY <2>1, UnderAndNotAbove
<1>4. \A i \in I : h[i] = Bin(cuts, s[i])
  OBVIOUS
<1>5. \A i \in I : h[i] \in bins
  <2> SUFFICES ASSUME NEW i \in I PROVE Bin(cuts, s[i]) \in bins
    OBVIOUS
  <2> DEFINE below == {e \in cuts : e <= 10 * s[i]}
  <2>1. below \subseteq cuts /\ Bin(cuts, s[i]) = Cardinality(below)
    BY DEF Bin
  <2> HIDE DEF below
  <2>2. Cardinality(below) \in Nat /\ Cardinality(below) <= Cardinality(cuts)
    BY <2>1, PartIsSmaller
  <2> QED
    BY <1>1, <2>1, <2>2
<1>6. D = [counts |-> [b \in bins |-> Cardinality({i \in I : Bin(cuts, s[i]) = b})],
           total |-> Len(s)]
  BY DEF Distribution
<1> HIDE DEF D, n, I, h
<1>7. \A b : {i \in I : Bin(cuts, s[i]) = b} = Sorting(I, h, b)
  BY <1>4 DEF Sorting
<1>8. D.counts = [b \in bins |-> Cardinality(Sorting(I, h, b))] /\ D.total = Len(s)
  BY <1>6, <1>7
<1>9. \A b \in bins : D.counts[b] \in Nat
  <2> SUFFICES ASSUME NEW b \in bins PROVE Cardinality(Sorting(I, h, b)) \in Nat
    BY <1>8
  <2>1. Sorting(I, h, b) \subseteq I
    BY DEF Sorting
  <2> QED
    BY <1>3, <2>1, PartIsSmaller
<1>10. Total(D.counts, bins) = Len(s)
  <2> HIDE DEF bins
  <2> QED
    BY <1>2, <1>3, <1>5, <1>8, TotalOfCounts
<1>11. D = [counts |-> D.counts, total |-> D.total] /\ DOMAIN D = {"counts", "total"}
  BY <1>6
<1>12. DOMAIN D.counts = bins /\ D.counts = [b \in bins |-> D.counts[b]]
  BY <1>8
<1> QED
  BY <1>2, <1>8, <1>9, <1>10, <1>11, <1>12 DEF D, n

\* What a bin with e expected and a actual values of five adds to the index.
Part(e, a) == (a * 5 - e * 5) * (LnShare(a, 5) - LnShare(e, 5))

\* A move of a value to another bin counts, the more the emptier the bins are.
LEMMA PartIs ==
  ASSUME NEW e \in 0..5, NEW a \in 0..5
  PROVE  /\ Part(e, a) \in Nat
         /\ e = a => Part(e, a) = 0
         /\ e > a => Part(e, a) = Part(a, e)
         /\ e < a =>
              \/ e = 0 /\ Part(e, a) >= 60000
              \/ e = 1 /\ a = 2 /\ Part(e, a) = 3465
              \/ e = 2 /\ a = 3 /\ Part(e, a) = 2030
              \/ e = 3 /\ a = 4 /\ Part(e, a) = 1435
              \/ e = 4 /\ a = 5 /\ Part(e, a) = 1115
              \/ e \in 1..3 /\ a >= e + 2 /\ Part(e, a) >= 5000
<1>1. /\ LnShare(0, 5) = -13816 /\ LnShare(1, 5) = -1609 /\ LnShare(2, 5) = -916
      /\ LnShare(3, 5) = -510 /\ LnShare(4, 5) = -223 /\ LnShare(5, 5) = 0
  BY LnAssumption DEF LnShare, Epsilon
<1> DEFINE share(n) == LnShare(n, 5)
<1>2. /\ share(0) = -13816 /\ share(1) = -1609 /\ share(2) = -916
      /\ share(3) = -510 /\ share(4) = -223 /\ share(5) = 0
  BY <1>1
<1>3. Part(e, a) = (a * 5 - e * 5) * (share(a) - share(e))
      /\ Part(a, e) = (e * 5 - a * 5) * (share(e) - share(a))
  BY DEF Part
<1> HIDE DEF share
<1>4. e = 0 \/ e = 1 \/ e = 2 \/ e = 3 \/ e = 4 \/ e = 5
  OBVIOUS
<1>5. a = 0 \/ a = 1 \/ a = 2 \/ a = 3 \/ a = 4 \/ a = 5
  OBVIOUS
<1> QED
  BY <1>2, <1>3, <1>4, <1>5

LEMMA PartIsNumber ==
  \A e, a \in 0..5 : Part(e, a) \in Nat /\ (e = a => Part(e, a) = 0)
<1> SUFFICES ASSUME NEW e \in 0..5, NEW a \in 0..5
             PROVE  Part(e, a) \in Nat /\ (e = a => Part(e, a) = 0)
  OBVIOUS
<1> QED
  BY PartIs

LEMMA TwoPartsShow ==
  ASSUME NEW e \in 0..5, NEW a \in 0..5, NEW e2 \in 0..5, NEW a2 \in 0..5,
         e < a, e2 > a2, e + e2 <= 5, a + a2 <= 5
  PROVE  Part(e, a) + Part(e2, a2) >= 3750
<1> DEFINE p == Part(e, a)
           q == Part(a2, e2)
<1>1. Part(e2, a2) = q /\ q \in Nat /\ p \in Nat
  BY PartIs
<1>2. \/ e = 0 /\ p >= 60000
      \/ e = 1 /\ a = 2 /\ p = 3465
      \/ e = 2 /\ a = 3 /\ p = 2030
      \/ e = 3 /\ a = 4 /\ p = 1435
      \/ e = 4 /\ a = 5 /\ p = 1115
      \/ e \in 1..3 /\ a >= e + 2 /\ p >= 5000
  BY PartIs
<1>3. a2 < e2
  OBVIOUS
<1>4. \/ a2 = 0 /\ q >= 60000
      \/ a2 = 1 /\ e2 = 2 /\ q = 3465
      \/ a2 = 2 /\ e2 = 3 /\ q = 2030
      \/ a2 = 3 /\ e2 = 4 /\ q = 1435
      \/ a2 = 4 /\ e2 = 5 /\ q = 1115
      \/ a2 \in 1..3 /\ e2 >= a2 + 2 /\ q >= 5000
  BY <1>3, PartIs
<1> HIDE DEF p, q
<1>5. p + q >= 3750
  BY <1>1, <1>2, <1>4
<1> QED
  BY <1>1, <1>5 DEF p

LEMMA SmallSamplesNeverCalmNow ==
  ASSUME NEW b \in Samples, NEW c \in Samples, Len(b) = MinSamples, Len(c) = MinSamples
  PROVE  EvaluateSamples(b, c).status = "STABLE" <=>
           Distribution(b, BinEdges(b)) = Distribution(c, BinEdges(b))
<1> DEFINE cuts == BinEdges(b)
           E == Distribution(b, cuts)
           A == Distribution(c, cuts)
           bins == 0..Cardinality(cuts)
<1>1. b \in Seq(Int) /\ c \in Seq(Int) /\ Len(b) = 5 /\ Len(c) = 5
  BY SamplesAssumption, SampleAssumption
<1>2. IsFiniteSet(cuts)
  <2>1. Len(b) # 0
    BY <1>1
  <2> QED
    BY <1>1, <2>1, EdgesAreFinite
<1>3. EvaluateSamples(b, c).status = StatusFor(Psi(E, A), E.total * A.total)
  <2>1. ~(Len(b) < MinSamples) /\ ~(Len(c) < MinSamples)
    BY <1>1, SampleAssumption
  <2> QED
    BY <2>1 DEF EvaluateSamples, Compared, NumericResult
<1> HIDE DEF cuts
<1>4. /\ DOMAIN E.counts = bins /\ E.counts = [x \in bins |-> E.counts[x]]
      /\ \A x \in bins : E.counts[x] \in Nat
      /\ Total(E.counts, bins) = 5 /\ E.total = 5 /\ E = [counts |-> E.counts, total |-> E.total]
      /\ IsFiniteSet(bins)
  BY <1>1, <1>2, DistributionCounts
<1>5. /\ DOMAIN A.counts = bins /\ A.counts = [x \in bins |-> A.counts[x]]
      /\ \A x \in bins : A.counts[x] \in Nat
      /\ Total(A.counts, bins) = 5 /\ A.total = 5 /\ A = [counts |-> A.counts, total |-> A.total]
  BY <1>1, <1>2, DistributionCounts
<1> DEFINE expected == E.counts
           actual == A.counts
           part == [x \in bins |-> Part(expected[x], actual[x])]
<1>6. Psi(E, A) = Total(part, bins)
  <2> DEFINE term == [x \in bins |-> (actual[x] * E.total - expected[x] * A.total)
                                * (LnShare(actual[x], A.total) - LnShare(expected[x], E.total))]
  <2> HIDE DEF E, A, bins
  <2>1. Psi(E, A) = SumFunction(term)
    BY <1>4 DEF Psi
  <2>2. \A x \in bins : term[x] = part[x]
    BY <1>4, <1>5 DEF Part
  <2>3. [x \in bins |-> part[x]] = term
    BY <2>2
  <2> HIDE DEF term, part
  <2> QED
    BY <2>1, <2>3 DEF Total
<1>7. E = A <=> expected = actual
  BY <1>4, <1>5
<1>8. expected = actual <=> \A x \in bins : expected[x] = actual[x]
  BY <1>4, <1>5
<1> HIDE DEF E, A, bins
<1>9. \A x \in bins : expected[x] \in 0..5 /\ actual[x] \in 0..5
  <2>1. \A f : (\A x \in bins : f[x] \in Nat) /\ Total(f, bins) = 5 => \A x \in bins : f[x] <= 5
    <3> SUFFICES ASSUME NEW f, \A x \in bins : f[x] \in Nat, Total(f, bins) = 5, NEW x \in bins
                 PROVE  f[x] <= 5
      OBVIOUS
    <3> DEFINE alone == [y \in bins |-> IF y = x THEN f[x] ELSE 0]
    <3>1. \A y \in bins : alone[y] \in Int /\ f[y] \in Int /\ alone[y] <= f[y]
      OBVIOUS
    <3>2. alone[x] = f[x] /\ \A y \in bins \ {x} : alone[y] = 0
      OBVIOUS
    <3> HIDE DEF alone
    <3>3. Total(alone, bins) <= Total(f, bins)
      BY <1>4, <3>1, TotalIsMonotone
    <3>8. \A y \in bins : alone[y] \in Int
      BY <3>1
    <3>4. Total(alone, bins) = alone[x] + Total(alone, bins \ {x})
      <4>1. IsFiniteSet(bins)
        BY <1>4
      <4>2. \A y \in bins : Total(alone, bins) = alone[y] + Total(alone, bins \ {y})
        BY <3>8, <4>1, TotalSteps
      <4> QED
        BY <4>2
    <3>5. IsFiniteSet(bins \ {x})
      BY <1>4, FS_RemoveElement
    <3>6. Total(alone, bins \ {x}) = 0
      BY <3>2, <3>5, TotalOfNone
    <3>7. f[x] \in Nat
      OBVIOUS
    <3> QED
      BY <3>2, <3>3, <3>4, <3>6, <3>7
  <2>2. (\A x \in bins : expected[x] <= 5) /\ \A x \in bins : actual[x] <= 5
    BY <1>4, <1>5, <2>1
  <2> QED
    BY <1>4, <1>5, <2>2
<1> HIDE DEF expected, actual
<1>10. \A x \in bins : /\ part[x] = Part(expected[x], actual[x]) /\ part[x] \in Nat
                       /\ expected[x] = actual[x] => part[x] = 0
  <2>1. \A x \in bins : /\ Part(expected[x], actual[x]) \in Nat
                        /\ expected[x] = actual[x] => Part(expected[x], actual[x]) = 0
    <3> HIDE DEF part
    <3> SUFFICES ASSUME NEW x \in bins
                 PROVE  /\ Part(expected[x], actual[x]) \in Nat
                        /\ expected[x] = actual[x] => Part(expected[x], actual[x]) = 0
      OBVIOUS
    <3> DEFINE e == expected[x]
               a == actual[x]
    <3>1. e \in 0..5 /\ a \in 0..5
      BY <1>9
    <3> HIDE DEF e, a
    <3>2. Part(e, a) \in Nat /\ (e = a => Part(e, a) = 0)
      BY <3>1, PartIsNumber
    <3> QED
      BY <3>2 DEF e, a
  <2>2. \A x \in bins : part[x] = Part(expected[x], actual[x])
    OBVIOUS
  <2> HIDE DEF part
  <2> SUFFICES ASSUME NEW x \in bins
               PROVE  /\ part[x] = Part(expected[x], actual[x]) /\ part[x] \in Nat
                      /\ expected[x] = actual[x] => part[x] = 0
    OBVIOUS
  <2>3. part[x] = Part(expected[x], actual[x])
    BY <2>2
  <2>4. Part(expected[x], actual[x]) \in Nat
    BY <2>1
  <2>5. expected[x] = actual[x] => Part(expected[x], actual[x]) = 0
    BY <2>1
  <2> QED
    BY <2>3, <2>4, <2>5
<1>11. E.total * A.total = 25
  BY <1>4, <1>5
<1>12. Threshold = 200 \/ Threshold = 300
  BY SampleAssumption
<1>13. CASE \A x \in bins : expected[x] = actual[x]
  <2> HIDE DEF part
  <2>1. Psi(E, A) = 0
    BY <1>4, <1>6, <1>10, <1>13, TotalOfNone
  <2>2. StatusFor(0, 25) = "STABLE"
    BY <1>12 DEF StatusFor
  <2> QED
    BY <1>3, <1>7, <1>8, <1>11, <1>13, <2>1, <2>2 DEF E, A, cuts
<1>14. CASE \E x \in bins : expected[x] # actual[x]
  <2> HIDE DEF part
  <2>1. /\ Total(expected, bins) = 5 /\ Total(actual, bins) = 5
        /\ \A x \in bins : expected[x] \in Int /\ actual[x] \in Int
    BY <1>4, <1>5, <1>9 DEF expected, actual
  <2>2. \E y \in bins : expected[y] < actual[y]
    <3> SUFFICES ASSUME \A y \in bins : ~(expected[y] < actual[y]) PROVE FALSE
      OBVIOUS
    <3>1. \A y \in bins : actual[y] <= expected[y]
      BY <2>1
    <3>2. PICK x \in bins : actual[x] < expected[x]
      BY <1>14, <2>1, <3>1
    <3>3. Total(actual, bins) < Total(expected, bins)
      BY <1>4, <2>1, <3>1, <3>2, TotalIsLess
    <3> QED
      BY <2>1, <3>3
  <2>3. \E z \in bins : expected[z] > actual[z]
    <3> SUFFICES ASSUME \A y \in bins : ~(expected[y] > actual[y]) PROVE FALSE
      OBVIOUS
    <3>1. \A y \in bins : expected[y] <= actual[y]
      BY <2>1
    <3>2. PICK x \in bins : expected[x] < actual[x]
      BY <1>14, <2>1, <3>1
    <3>3. Total(expected, bins) < Total(actual, bins)
      BY <1>4, <2>1, <3>1, <3>2, TotalIsLess
    <3> QED
      BY <2>1, <3>3
  <2>4. PICK y \in bins : expected[y] < actual[y]
    BY <2>2
  <2>5. PICK z \in bins : expected[z] > actual[z]
    BY <2>3
  <2>6. y # z
    BY <2>1, <2>4, <2>5
  <2>7. \A x \in bins : expected[x] \in Nat /\ actual[x] \in Nat
    BY <1>9
  <2>8. expected[y] + expected[z] <= 5 /\ actual[y] + actual[z] <= 5
    <3>1. Total(expected, bins) >= expected[y] + expected[z]
      BY <1>4, <2>6, <2>7, TotalOfTwo
    <3>2. Total(actual, bins) >= actual[y] + actual[z]
      BY <1>4, <2>6, <2>7, TotalOfTwo
    <3>3. /\ expected[y] \in Int /\ expected[z] \in Int
          /\ actual[y] \in Int /\ actual[z] \in Int
      BY <2>1
    <3> QED
      BY <2>1, <3>1, <3>2, <3>3
  <2>9. part[y] + part[z] >= 3750
    BY <1>9, <1>10, <2>4, <2>5, <2>8, TwoPartsShow
  <2>10. Total(part, bins) >= part[y] + part[z]
    BY <1>4, <1>10, <2>6, TotalOfTwo
  <2>11. Total(part, bins) \in Int
    <3>1. \A x \in bins : part[x] \in Int
      BY <1>10
    <3> QED
      BY <1>4, <3>1, TotalSteps
  <2>12. Total(part, bins) >= 3750
    <3>1. part[y] \in Int /\ part[z] \in Int
      BY <1>10
    <3> QED
      BY <2>9, <2>10, <2>11, <3>1
  <2>13. \A m \in Int : m >= 3750 => StatusFor(m, 25) # "STABLE"
    BY <1>12 DEF StatusFor
  <2>14. StatusFor(Psi(E, A), 25) # "STABLE"
    BY <1>6, <2>11, <2>12, <2>13
  <2> QED
    BY <1>3, <1>7, <1>8, <1>11, <1>14, <2>14 DEF E, A, cuts
<1> QED
  BY <1>13, <1>14

Opposite(k) == CASE k = "ADDED" -> "REMOVED" [] k = "REMOVED" -> "ADDED" [] OTHER -> k

IsSchema(s) == s \in [DOMAIN s -> [type : STRING, nullable : BOOLEAN]]

\* What is compared field by field.
Differs(b, c, f, kind) ==
  \/ kind = "ADDED" /\ f \in DOMAIN c \ DOMAIN b
  \/ kind = "REMOVED" /\ f \in DOMAIN b \ DOMAIN c
  \/ kind = "TYPE_CHANGED" /\ f \in DOMAIN b \cap DOMAIN c /\ b[f].type # c[f].type
  \/ /\ kind = "NULLABILITY_CHANGED" /\ f \in DOMAIN b \cap DOMAIN c
     /\ b[f].type = c[f].type /\ b[f].nullable # c[f].nullable

LEMMA DifferencesAre ==
  ASSUME NEW b, NEW c
  PROVE  /\ \A d \in CompareSchema(b, c) :
              d = Difference(d.field, d.kind) /\ Differs(b, c, d.field, d.kind)
         /\ \A f, kind : Differs(b, c, f, kind) => Difference(f, kind) \in CompareSchema(b, c)
<1>1. ASSUME NEW d \in CompareSchema(b, c)
      PROVE  d = Difference(d.field, d.kind) /\ Differs(b, c, d.field, d.kind)
  BY <1>1 DEF CompareSchema, Difference, Differs
<1>2. ASSUME NEW f, NEW kind, Differs(b, c, f, kind)
      PROVE  Difference(f, kind) \in CompareSchema(b, c)
  BY <1>2 DEF CompareSchema, Differs
<1> QED
  BY <1>1, <1>2

LEMMA DifferencesMirrorNow ==
  ASSUME NEW b, NEW c, IsSchema(b), IsSchema(c)
  PROVE  /\ CompareSchema(b, c) = {} <=> b = c
         /\ CompareSchema(c, b) = {[d EXCEPT !.kind = Opposite(d.kind)] : d \in CompareSchema(b, c)}
<1>1. ASSUME CompareSchema(b, c) = {} PROVE b = c
  <2>1. \A f, kind : ~Differs(b, c, f, kind)
    BY <1>1, DifferencesAre
  <2>2. DOMAIN b = DOMAIN c
    <3>1. \A f : ~Differs(b, c, f, "ADDED") /\ ~Differs(b, c, f, "REMOVED")
      BY <2>1
    <3> QED
      BY <3>1 DEF Differs
  <2>3. ASSUME NEW f \in DOMAIN b PROVE b[f] = c[f]
    <3>1. b[f] \in [type : STRING, nullable : BOOLEAN] /\ c[f] \in [type : STRING, nullable : BOOLEAN]
      BY <2>2 DEF IsSchema
    <3>2. b[f].type = c[f].type /\ b[f].nullable = c[f].nullable
      <4>1. ~Differs(b, c, f, "TYPE_CHANGED") /\ ~Differs(b, c, f, "NULLABILITY_CHANGED")
        BY <2>1
      <4> QED
        BY <2>2, <4>1 DEF Differs
    <3> QED
      BY <3>1, <3>2
  <2> QED
    BY <2>2, <2>3 DEF IsSchema
<1>2. ASSUME b = c PROVE CompareSchema(b, c) = {}
  <2> SUFFICES ASSUME NEW d \in CompareSchema(b, c) PROVE FALSE
    OBVIOUS
  <2>1. Differs(b, c, d.field, d.kind)
    BY DifferencesAre
  <2> QED
    BY <1>2, <2>1 DEF Differs
<1>3. \A f, kind : Differs(b, c, f, kind) <=> Differs(c, b, f, Opposite(kind)) /\ kind = Opposite(Opposite(kind))
  BY DEF Differs, Opposite
<1>4. \A f, kind : [Difference(f, kind) EXCEPT !.kind = Opposite(kind)] = Difference(f, Opposite(kind))
                   /\ Difference(f, kind).kind = kind /\ Difference(f, kind).field = f
  BY DEF Difference
<1>5. \A k : Opposite(Opposite(k)) = k
  BY DEF Opposite
<1>6. ASSUME NEW d \in CompareSchema(b, c)
      PROVE  [d EXCEPT !.kind = Opposite(d.kind)] \in CompareSchema(c, b)
  <2>1. d = Difference(d.field, d.kind) /\ Differs(b, c, d.field, d.kind)
    BY DifferencesAre
  <2>2. Difference(d.field, Opposite(d.kind)) \in CompareSchema(c, b)
    BY <1>3, <2>1, DifferencesAre
  <2> QED
    BY <1>4, <2>1, <2>2
<1>7. ASSUME NEW x \in CompareSchema(c, b)
      PROVE  \E d \in CompareSchema(b, c) : x = [d EXCEPT !.kind = Opposite(d.kind)]
  <2>1. x = Difference(x.field, x.kind) /\ Differs(c, b, x.field, x.kind)
    BY DifferencesAre
  <2> DEFINE d == Difference(x.field, Opposite(x.kind))
  <2>2. d \in CompareSchema(b, c)
    <3>1. Differs(b, c, x.field, Opposite(x.kind))
      BY <1>3, <1>5, <2>1
    <3> QED
      BY <3>1, DifferencesAre
  <2>3. [d EXCEPT !.kind = Opposite(Opposite(x.kind))] = x /\ d.kind = Opposite(x.kind)
    BY <1>4, <1>5, <2>1
  <2> HIDE DEF d
  <2> QED
    BY <2>2, <2>3
<1> QED
  BY <1>1, <1>2, <1>6, <1>7

\* Whatever samples and schemas are compared: a stored baseline gives the result of its sample,
\* no increase is seen above a constant baseline, the least number of samples shows every
\* difference, and the differences of schemas are complete and mirror one another
\* (drift/engine.py).
THEOREM DriftIsMeasuredHolds == Spec => []DriftIsMeasured
<1>1. QuestionGiven => DriftIsMeasured
  <2> SUFFICES ASSUME QuestionGiven PROVE DriftIsMeasured
    OBVIOUS
  <2>1. StoredBaselineSuffices
    BY StoredBaselineSufficesNow DEF StoredBaselineSuffices
  <2>2. Asked("drift") => question.baseline \in Samples /\ question.current \in Samples
    BY DEF QuestionGiven
  <2>3. BlindAboveConstant
    BY <2>2, BlindAboveConstantNow DEF BlindAboveConstant
  <2>4. SmallSamplesNeverCalm
    BY <2>2, SmallSamplesNeverCalmNow DEF SmallSamplesNeverCalm
  <2>5. DifferencesMirror
    <3>1. Asked("schema") => IsSchema(question.baseline) /\ IsSchema(question.current)
      BY SchemaAssumption DEF QuestionGiven, IsSchema
    <3> QED
      BY <3>1, DifferencesMirrorNow DEF DifferencesMirror, Opposite
  <2> QED
    BY <2>1, <2>3, <2>4, <2>5 DEF DriftIsMeasured
<1> QED
  BY <1>1, QuestionIsGiven, PTL
===============================================================================
