-------------------------- MODULE DriftBaselinesProofs --------------------------
(***************************************************************************)
(* Proofs about DriftBaselines for every registry, every set of processes  *)
(* and observations, and every bound.                                      *)
(***************************************************************************)
EXTENDS DriftBaselines, FiniteData, SequenceTheorems, FiniteSetTheorems, TLAPS

-------------------------------------------------------------------------------
(***************************************************************************)
(* The inductive invariant.                                                *)
(***************************************************************************)
\* A process runs the statements of its own command.
Roles ==
  /\ \A c \in Creators :
       pc[c] \in {"idle", "ensure", "sample", "version", "target", "deactivate", "insert"}
  /\ \A e \in Evaluators : pc[e] \in {"idle", "baseline", "compare"}

\* The features a process is done with are the first ones of the registry.
IsBeginning(s) ==
  \E n \in 0..Len(Registry) :
    /\ s = {Registry[i] : i \in 1..n}
    /\ IsFiniteSet(s) /\ Cardinality(s) = n

AsRegistered ==
  \A p \in Processes : IsBeginning(done[p]) /\ (pc[p] \in {"idle", "ensure"} => done[p] = {})

\* The committed rows of f are numbered from 1 to n, and the last one is active.
Numbered(f, n) ==
  /\ \A b \in RowsOf(f, baselines) : b.version \in 1..n
  /\ \A v \in 1..n : \E b \in RowsOf(f, baselines) : b.version = v
  /\ \A b \in RowsOf(f, baselines) : b \in active <=> b.version = n

Numbering ==
  /\ \A f \in Features : \E n \in Nat : Numbered(f, n)
  /\ \A a, b \in baselines : a.feature = b.feature /\ a.version = b.version => a = b

\* What a creation has read: a version that may be stale by now, and rows of the feature it is at.
Picks ==
  \A c \in Creators :
    /\ pc[c] \in {"target", "deactivate", "insert"} =>
         /\ pick[c].version # 0
         /\ \A f \in Upcoming(c) : \E n \in Nat : Numbered(f, n) /\ pick[c].version <= n + 1
    /\ pc[c] = "deactivate" => \A b \in pick[c].target : b.feature \in Upcoming(c)

\* A row that is written and not committed is the next one of its feature, whose active row it
\* replaces; no other transaction has one for that feature.
Drafts ==
  \A c \in Creators :
    /\ pc[c] \in {"idle", "ensure"} => draft[c] = NoDraft
    /\ \A b \in draft[c].new :
         /\ b.feature \in done[c]
         /\ Numbered(b.feature, b.version - 1)
         /\ RowsOf(b.feature, active) \subseteq draft[c].off
    /\ \A a, b \in draft[c].new : a.feature = b.feature => a = b
    /\ \A b \in draft[c].off :
         \/ \E a \in draft[c].new : a.feature = b.feature
         \/ pc[c] = "insert" /\ b.feature \in Upcoming(c)
    /\ \A d \in Creators \ {c} : \A a \in draft[c].new, b \in draft[d].new : a.feature # b.feature

HasSample(c) == pc[c] \in {"version", "target", "deactivate", "insert"}

\* The stored schema is written once, and it is what every schema baseline holds.
SchemaOnce ==
  /\ \A b \in baselines : b.feature = SchemaColumn => schema # 0 /\ b.basis = {schema}
  /\ \A c \in Creators :
       /\ draft[c].schema # 0 =>
            schema = 0 /\ \A d \in Creators \ {c} : draft[d].schema = 0
       /\ pc[c] \notin {"idle", "ensure"} => VisibleSchema(c) # 0
       /\ \A b \in draft[c].new : b.feature = SchemaColumn => b.basis = {VisibleSchema(c)}
       /\ HasSample(c) /\ SchemaColumn \in Upcoming(c) => pick[c].basis = {VisibleSchema(c)}

\* A numeric baseline is computed from finitely many observations, at least one.
IsSample(s) == s \subseteq Observations /\ IsFiniteSet(s) /\ s # {}

Samples ==
  /\ \A col \in Columns : IsFiniteSet(observed[col])
  /\ \A b \in baselines : b.feature \in Columns => IsSample(b.basis)
  /\ \A c \in Creators :
       /\ \A b \in draft[c].new : b.feature \in Columns => IsSample(b.basis)
       /\ HasSample(c) => \A f \in Upcoming(c) \cap Columns : IsSample(pick[c].basis)

\* Row b is the baseline a result names.
Names(r, b) == b.feature = r.feature /\ b.version = r.version

\* One result.
ResultIsTrue(r, h) ==
  /\ r.outcome # "DRIFT"
  /\ r.version = 0 => r.outcome = "BASELINE_UNAVAILABLE"
  /\ r.outcome = "BASELINE_UNAVAILABLE" => r.feature \notin h
  /\ r.version # 0 =>
       \E b \in baselines :
         /\ Names(r, b)
         /\ b.feature \in Columns => \A o \in r.current, s \in b.basis : ObservedAt[o] > ObservedAt[s]

\* A creation that had written the row of r had written nothing of feature f after version v.
NothingLater(r, f, v) ==
  \A k \in DOMAIN batches :
    (\E b \in batches[k] : Names(r, b)) => \A b \in batches[k] : b.feature = f => b.version <= v

ResultsAreTrue(rs, h) ==
  /\ \A i \in DOMAIN rs : ResultIsTrue(rs[i], h)
  /\ \A i, j \in DOMAIN rs : i < j => NothingLater(rs[i], rs[j].feature, rs[j].version)

\* The evaluations under way.
Evaluating ==
  \A e \in Evaluators :
    /\ pc[e] = "idle" => results[e] = <<>>
    /\ ResultsAreTrue(results[e], had[e])
    /\ \A f \in had[e] : RowsOf(f, active) # {}
    /\ \A f \in done[e] : \E i \in DOMAIN results[e] : results[e][i].feature = f
    /\ pc[e] = "compare" =>
         \A b \in found[e] :
           /\ b.feature \in Upcoming(e)
           /\ \A i \in DOMAIN results[e] : NothingLater(results[e][i], b.feature, b.version)

\* The evaluations that are stored.
Evaluated ==
  /\ \A e \in evaluations : ResultsAreTrue(e.results, e.had)
  /\ StatusIsTrue

IInv ==
  /\ TypeOK /\ Roles /\ AsRegistered /\ Numbering /\ Picks /\ Drafts
  /\ SchemaOnce /\ Samples /\ Evaluating /\ Evaluated

-------------------------------------------------------------------------------
(***************************************************************************)
(* The registry, the rows and the samples.                                 *)
(***************************************************************************)
\* The next feature is one that is not done yet, and the registry goes on after it.
LEMMA UpcomingNext ==
  ASSUME AsRegistered, NEW p \in Processes, NEW f \in Upcoming(p)
  PROVE  /\ f \in Features /\ f \notin done[p]
         /\ Upcoming(p) = {f}
         /\ IsBeginning(done[p] \cup {f})
<1>1. PICK n \in 0..Len(Registry) :
        /\ done[p] = {Registry[i] : i \in 1..n}
        /\ IsFiniteSet(done[p]) /\ Cardinality(done[p]) = n
  BY DEF AsRegistered, IsBeginning
<1>2. done[p] # Features /\ Upcoming(p) = {Registry[n + 1]} /\ f = Registry[n + 1]
  BY <1>1 DEF Upcoming
<1>3. /\ Registry \in Seq(Features) /\ Len(Registry) \in Nat /\ DOMAIN Registry = 1..Len(Registry)
      /\ Features = {Registry[i] : i \in 1..Len(Registry)}
      /\ \A i, j \in 1..Len(Registry) : Registry[i] = Registry[j] => i = j
  BY RegistryAssumption, LenProperties DEF ToSet, IsInjective
<1>4. n + 1 \in 1..Len(Registry)
  <2>1. n # Len(Registry)
    BY <1>1, <1>2, <1>3
  <2>2. Len(Registry) \in Nat
    BY <1>3
  <2> QED
    BY <2>1, <2>2
<1>5. f \in Features /\ f \notin done[p]
  <2>1. \A i \in 1..n : i \in 1..Len(Registry) /\ i # n + 1
    BY <1>3
  <2> QED
    BY <1>1, <1>2, <1>3, <1>4, <2>1
<1>6. IsBeginning(done[p] \cup {f})
  <2>1. done[p] \cup {f} = {Registry[i] : i \in 1..(n + 1)}
    <3>1. 1..(n + 1) = (1..n) \cup {n + 1}
      BY <1>3
    <3> QED
      BY <1>1, <1>2, <3>1
  <2>2. IsFiniteSet(done[p] \cup {f}) /\ Cardinality(done[p] \cup {f}) = n + 1
    BY <1>1, <1>5, FS_AddElement
  <2>3. n + 1 \in 0..Len(Registry)
    BY <1>3, <1>4
  <2> QED
    BY <2>1, <2>2, <2>3 DEF IsBeginning
<1> QED
  BY <1>2, <1>5, <1>6

\* A process without a next feature is done with all of them.
LEMMA NothingUpcoming ==
  ASSUME NEW p, Upcoming(p) = {}
  PROVE  done[p] = Features
BY DEF Upcoming

LEMMA EmptyPrefix == IsBeginning({})
<1>1. {} = {Registry[i] : i \in 1..0}
  OBVIOUS
<1>2. 0 \in 0..Len(Registry)
  BY RegistryAssumption, LenProperties
<1> QED
  BY <1>1, <1>2, FS_EmptySet DEF IsBeginning

\* What does not change while its variables do not.
LEMMA UpcomingKept ==
  ASSUME NEW p, done'[p] = done[p]
  PROVE  Upcoming(p)' = Upcoming(p)
BY DEF Upcoming

LEMMA NumberedKept ==
  ASSUME batches' = batches, active' = active, NEW f, NEW n
  PROVE  Numbered(f, n)' = Numbered(f, n)
BY DEF Numbered, RowsOf, baselines

LEMMA BaselinesKept ==
  ASSUME batches' = batches
  PROVE  baselines' = baselines
BY DEF baselines

\* The rows of one more batch.
LEMMA BaselinesAppended ==
  ASSUME NEW rows \in SUBSET Row, batches \in Seq(SUBSET Row), batches' = Append(batches, rows)
  PROVE  /\ baselines' = baselines \cup rows
         /\ batches' \in Seq(SUBSET Row)
         /\ DOMAIN batches' = DOMAIN batches \cup {Len(batches) + 1}
         /\ Len(batches) + 1 \notin DOMAIN batches
         /\ \A k \in DOMAIN batches : batches'[k] = batches[k]
         /\ batches'[Len(batches) + 1] = rows
<1>1. /\ Len(batches) \in Nat /\ DOMAIN batches = 1..Len(batches)
      /\ batches' \in Seq(SUBSET Row) /\ Len(batches') = Len(batches) + 1
      /\ \A i \in 1..Len(batches) : batches'[i] = batches[i]
      /\ batches'[Len(batches) + 1] = rows
  BY AppendProperties, LenProperties
<1>2. DOMAIN batches' = 1..(Len(batches) + 1)
  BY <1>1, LenProperties
<1>3. DOMAIN batches' = DOMAIN batches \cup {Len(batches) + 1} /\ Len(batches) + 1 \notin DOMAIN batches
  BY <1>1, <1>2
<1>4. ToSet(batches') = ToSet(batches) \cup {rows}
  BY <1>1, <1>3 DEF ToSet
<1> QED
  BY <1>1, <1>3, <1>4 DEF baselines

\* What is committed is in some batch, and consists of rows.
LEMMA InSomeBatch ==
  ASSUME batches \in Seq(SUBSET Row)
  PROVE  /\ \A b \in baselines : \E k \in DOMAIN batches : b \in batches[k]
         /\ \A k \in DOMAIN batches : batches[k] \subseteq baselines
         /\ baselines \subseteq Row
<1>1. \A k \in DOMAIN batches : batches[k] \in SUBSET Row
  BY LenProperties, ElementOfSeq
<1> QED
  BY <1>1 DEF baselines, ToSet

LEMMA RowFields ==
  ASSUME NEW b \in Row
  PROVE  /\ b.feature \in Features /\ b.version \in Nat /\ b.version # 0 /\ b.basis \in Basis
         /\ b = [feature |-> b.feature, version |-> b.version, basis |-> b.basis]
BY DEF Row

\* The version that is read is the last one.
LEMMA VersionRead ==
  ASSUME NEW f, NEW n \in Nat, Numbered(f, n)
  PROVE  (CHOOSE m \in {0} \cup {b.version : b \in RowsOf(f, baselines)} :
            \A b \in RowsOf(f, baselines) : b.version <= m) = n
<1> DEFINE V == {0} \cup {b.version : b \in RowsOf(f, baselines)}
           IsMax(m) == \A b \in RowsOf(f, baselines) : b.version <= m
<1>1. n \in V /\ IsMax(n)
  BY DEF Numbered
<1>2. ASSUME NEW m \in V, IsMax(m) PROVE m = n
  <2>1. m \in 0..n
    BY DEF Numbered
  <2>2. n = 0 \/ \E b \in RowsOf(f, baselines) : b.version = n
    BY DEF Numbered
  <2> QED
    BY <1>2, <2>1, <2>2
<1> QED
  BY <1>1, <1>2

\* The end of the window of a sample is at or after every observation in it.
LEMMA WindowEndsLast ==
  ASSUME NEW s, IsSample(s)
  PROVE  WindowEnd(s) \in Nat /\ \A o \in s : ObservedAt[o] <= WindowEnd(s)
<1>1. \A o \in s : ObservedAt[o] \in Nat
  BY TimeAssumption DEF IsSample
<1>2. PICK x \in s : \A y \in s : ObservedAt[y] <= ObservedAt[x]
  BY <1>1, LatestExists DEF IsSample
<1> QED
  BY <1>1, <1>2 DEF WindowEnd

\* Oldest observations, enough of them, are a sample.
LEMMA OldestIsSample ==
  ASSUME TypeOK, NEW col \in Columns, IsFiniteSet(observed[col]), NEW s \in Oldest(col),
         Cardinality(s) >= MinimumSamples
  PROVE  IsSample(s)
<1>1. s \subseteq observed[col] /\ observed[col] \subseteq Observations
  BY DEF Oldest, Leading, TypeOK
<1>2. IsFiniteSet(s)
  BY <1>1, FS_Subset
<1>3. s # {}
  BY FS_EmptySet, LimitAssumption
<1> QED
  BY <1>1, <1>2, <1>3 DEF IsSample

\* The current sample is later than the whole of the baseline's.
LEMMA LatestAfterIsLater ==
  ASSUME TypeOK, NEW col \in Columns, NEW s, IsSample(s), NEW l \in LatestAfter(col, s)
  PROVE  /\ l \subseteq Observations
         /\ \A o \in l, p \in s : ObservedAt[o] > ObservedAt[p]
<1>1. l \subseteq observed[col] /\ \A o \in l : ObservedAt[o] > WindowEnd(s)
  BY DEF LatestAfter, Leading
<1>2. l \subseteq Observations /\ s \subseteq Observations
  BY <1>1 DEF TypeOK, IsSample
<1>3. \A o \in Observations : ObservedAt[o] \in Nat
  BY TimeAssumption
<1> QED
  BY <1>1, <1>2, <1>3, WindowEndsLast

-------------------------------------------------------------------------------
(***************************************************************************)
(* Steps of the surroundings, of a creator and of an evaluator, by what    *)
(* they leave alone.                                                       *)
(***************************************************************************)
\* Every step is one of these.
LEMMA Steps ==
  ASSUME [Next]_vars
  PROVE  \/ \E o \in Observations : Ingest(o)
         \/ Register \/ Release
         \/ \E c \in Creators :
              \/ BeginCreation(c) \/ EnsureSchemaVersion(c) \/ Sample(c) \/ ReadVersion(c)
              \/ FindActive(c) \/ Deactivate(c) \/ Insert(c) \/ Commit(c)
              \/ Abort(c) \/ CrashCreator(c)
         \/ \E e \in Evaluators :
              \/ BeginEvaluation(e) \/ ReadBaseline(e) \/ CompareSchema(e) \/ CompareColumn(e)
              \/ FinishEvaluation(e) \/ CrashEvaluator(e)
         \/ UNCHANGED vars
BY DEF Next, Creates, Evaluates

\* Sampling skips the feature or takes a basis for it.
Skips(c, f) ==
  /\ done' = [done EXCEPT ![c] = @ \cup {f}]
  /\ pc' = pc /\ pick' = pick

Takes(c, f, basis) ==
  /\ basis \in IF f = SchemaColumn THEN {{VisibleSchema(c)}} ELSE Oldest(f)
  /\ f # SchemaColumn => Cardinality(basis) >= MinimumSamples
  /\ pick' = [pick EXCEPT ![c].basis = basis]
  /\ pc' = [pc EXCEPT ![c] = "version"]
  /\ done' = done

\* A process is a creator or an evaluator.
LEMMA OneRole ==
  /\ \A c \in Creators : c \in Processes /\ c \notin Evaluators
  /\ \A e \in Evaluators : e \in Processes /\ e \notin Creators
BY ProcessAssumption DEF Processes

-------------------------------------------------------------------------------
(***************************************************************************)
(* Types.                                                                  *)
(***************************************************************************)
\* The schema a creation reads has been written.
LEMMA VisibleSchemaType ==
  ASSUME TypeOK, NEW c \in Creators
  PROVE  VisibleSchema(c) \in 0..MaxReleases
BY DEF TypeOK, VisibleSchema

\* What may be sampled is a basis.
LEMMA SampleType ==
  ASSUME TypeOK, SchemaOnce, NEW c \in Creators, pc[c] = "sample", NEW f \in Features,
         NEW basis \in IF f = SchemaColumn THEN {{VisibleSchema(c)}} ELSE Oldest(f)
  PROVE  basis \in Basis
<1>1. CASE f = SchemaColumn
  <2>1. VisibleSchema(c) \in 0..MaxReleases /\ VisibleSchema(c) # 0
    BY VisibleSchemaType DEF SchemaOnce
  <2>2. MaxReleases \in Nat
    BY LimitAssumption
  <2> QED
    BY <1>1, <2>1, <2>2 DEF Basis
<1>2. CASE f # SchemaColumn
  <2>1. f \in Columns
    BY <1>2 DEF Features
  <2>2. basis \subseteq Observations
    BY <1>2, <2>1 DEF Oldest, Leading, TypeOK
  <2> QED
    BY <2>2 DEF Basis
<1> QED
  BY <1>1, <1>2

\* What a creation picks.
LEMMA PickType ==
  ASSUME TypeOK, NEW c \in Creators
  PROVE  /\ \A version \in Nat : [pick EXCEPT ![c].version = version]
               \in [Creators -> [version : Nat, basis : Basis, target : SUBSET baselines]]
         /\ \A basis \in Basis : [pick EXCEPT ![c].basis = basis]
               \in [Creators -> [version : Nat, basis : Basis, target : SUBSET baselines]]
         /\ \A target \in SUBSET baselines : [pick EXCEPT ![c].target = target]
               \in [Creators -> [version : Nat, basis : Basis, target : SUBSET baselines]]
<1>1. pick[c] \in [version : Nat, basis : Basis, target : SUBSET baselines]
  BY DEF TypeOK
<1>2. /\ \A version \in Nat : [pick[c] EXCEPT !.version = version]
            \in [version : Nat, basis : Basis, target : SUBSET baselines]
      /\ \A basis \in Basis : [pick[c] EXCEPT !.basis = basis]
            \in [version : Nat, basis : Basis, target : SUBSET baselines]
      /\ \A target \in SUBSET baselines : [pick[c] EXCEPT !.target = target]
            \in [version : Nat, basis : Basis, target : SUBSET baselines]
  BY <1>1
<1> QED
  BY <1>2 DEF TypeOK

\* One more result.
LEMMA ResultAppended ==
  ASSUME TypeOK, NEW e \in Evaluators, NEW r \in Result
  PROVE  [results EXCEPT ![e] = Append(@, r)] \in [Evaluators -> Seq(Result)]
<1>1. Append(results[e], r) \in Seq(Result)
  BY AppendProperties DEF TypeOK
<1> QED
  BY <1>1 DEF TypeOK

LEMMA SampleSteps ==
  ASSUME TypeOK, AsRegistered, Samples, NEW c \in Creators, Sample(c)
  PROVE  \E f \in Upcoming(c) : Skips(c, f) \/ \E basis : Takes(c, f, basis)
<1>1. PICK f \in Upcoming(c) :
        \E basis \in IF f = SchemaColumn THEN {{VisibleSchema(c)}} ELSE Oldest(f) :
          IF f # SchemaColumn /\ Cardinality(basis) < MinimumSamples
          THEN done' = [done EXCEPT ![c] = @ \cup {f}] /\ UNCHANGED <<pc, pick>>
          ELSE /\ pick' = [pick EXCEPT ![c].basis = basis]
               /\ Goto(c, "version")
               /\ UNCHANGED done
  BY DEF Sample
<1>2. PICK basis \in IF f = SchemaColumn THEN {{VisibleSchema(c)}} ELSE Oldest(f) :
        IF f # SchemaColumn /\ Cardinality(basis) < MinimumSamples
        THEN done' = [done EXCEPT ![c] = @ \cup {f}] /\ UNCHANGED <<pc, pick>>
        ELSE /\ pick' = [pick EXCEPT ![c].basis = basis]
             /\ Goto(c, "version")
             /\ UNCHANGED done
  BY <1>1
<1>3. f # SchemaColumn => Cardinality(basis) \in Nat
  <2>1. SUFFICES ASSUME f # SchemaColumn PROVE Cardinality(basis) \in Nat
    OBVIOUS
  <2>2. f \in Columns
    BY <1>1, <2>1, OneRole, UpcomingNext DEF Features
  <2>3. basis \in SUBSET observed[f] /\ IsFiniteSet(observed[f])
    BY <1>2, <2>1, <2>2 DEF Oldest, Leading, Samples
  <2> QED
    BY <2>3, FS_Subset, FS_CardinalityType
<1>4. CASE f # SchemaColumn /\ Cardinality(basis) < MinimumSamples
  BY <1>2, <1>4 DEF Skips
<1>5. CASE ~(f # SchemaColumn /\ Cardinality(basis) < MinimumSamples)
  BY <1>2, <1>3, <1>5, LimitAssumption DEF Takes, Goto
<1> QED
  BY <1>4, <1>5

LEMMA InitTypeOK == Init => TypeOK
<1> SUFFICES ASSUME Init PROVE TypeOK
  OBVIOUS
<1>1. release \in 1..MaxReleases /\ schema \in 0..MaxReleases /\ commands \in 0..MaxCommands
      /\ 0 \in 0..MaxReleases
  BY LimitAssumption DEF Init
<1>2. batches \in Seq(SUBSET Row) /\ baselines = {}
  BY DEF Init, baselines, ToSet
<1>3. {} \in Basis
  BY DEF Basis
<1>4. pc \in [Processes -> {"idle", "ensure", "sample", "version", "target", "deactivate",
                           "insert", "baseline", "compare"}]
  BY DEF Init
<1>5. /\ draft \in [Creators -> [new : SUBSET Row, off : SUBSET baselines, schema : 0..MaxReleases]]
      /\ pick \in [Creators -> [version : Nat, basis : Basis, target : SUBSET baselines]]
  BY <1>1, <1>2, <1>3 DEF Init, NoDraft, NoPick
<1>6. results \in [Evaluators -> Seq(Result)]
  BY DEF Init
<1> QED
  BY <1>1, <1>2, <1>4, <1>5, <1>6 DEF Init, TypeOK

LEMMA NextTypeOK == IInv /\ [Next]_vars => TypeOK'
<1> SUFFICES ASSUME IInv, [Next]_vars PROVE TypeOK'
  OBVIOUS
<1> USE DEF tables, creatorVars, evaluatorVars, Goto
<1>0. TypeOK /\ AsRegistered /\ SchemaOnce /\ Numbering /\ Picks /\ Samples
  BY DEF IInv
<1>a. ASSUME NEW o \in Observations, Ingest(o) PROVE TypeOK'
  <2>1. observed' \in [Columns -> SUBSET Observations]
    BY <1>0, <1>a DEF Ingest, TypeOK
  <2>2. baselines' = baselines
    BY <1>a, BaselinesKept DEF Ingest
  <2> QED
    BY <1>0, <1>a, <2>1, <2>2 DEF Ingest, TypeOK
<1>b. CASE Release
  <2>1. release' \in 1..MaxReleases
    BY <1>0, <1>b, LimitAssumption DEF Release, TypeOK
  <2>2. baselines' = baselines
    BY <1>b, BaselinesKept DEF Release
  <2> QED
    BY <1>0, <1>b, <2>1, <2>2 DEF Release, TypeOK
<1>r. CASE Register
  <2>1. schema' \in 0..MaxReleases
    BY <1>0, <1>r, LimitAssumption DEF Register, TypeOK
  <2>2. baselines' = baselines
    BY <1>r, BaselinesKept DEF Register
  <2> QED
    BY <1>0, <1>r, <2>1, <2>2 DEF Register, TypeOK
<1>c. ASSUME NEW c \in Creators, BeginCreation(c) PROVE TypeOK'
  <2>1. commands' \in 0..MaxCommands
    BY <1>0, <1>c, LimitAssumption DEF BeginCreation, Begin, TypeOK
  <2>2. baselines' = baselines
    BY <1>c, BaselinesKept DEF BeginCreation
  <2> QED
    BY <1>0, <1>c, <2>1, <2>2 DEF BeginCreation, Begin, TypeOK
<1>d. ASSUME NEW c \in Creators, EnsureSchemaVersion(c) PROVE TypeOK'
  <2>1. (IF schema = 0 THEN release ELSE 0) \in 0..MaxReleases
    BY <1>0, LimitAssumption DEF TypeOK
  <2>2. baselines' = baselines
    BY <1>d, BaselinesKept DEF EnsureSchemaVersion
  <2>3. draft' \in [Creators -> [new : SUBSET Row, off : SUBSET baselines, schema : 0..MaxReleases]]
    BY <1>0, <1>d, <2>1 DEF EnsureSchemaVersion, TypeOK
  <2> QED
    BY <1>0, <1>d, <2>2, <2>3 DEF EnsureSchemaVersion, TypeOK
<1>e. ASSUME NEW c \in Creators, Sample(c) PROVE TypeOK'
  <2>1. PICK f \in Upcoming(c) : Skips(c, f) \/ \E basis : Takes(c, f, basis)
    BY <1>0, <1>e, SampleSteps
  <2>2. f \in Features
    BY <1>0, <2>1, OneRole, UpcomingNext
  <2>3. baselines' = baselines
    BY <1>e, BaselinesKept DEF Sample
  <2>4. CASE Skips(c, f)
    BY <1>0, <1>e, <2>2, <2>3, <2>4 DEF Skips, Sample, TypeOK
  <2>5. ASSUME NEW basis, Takes(c, f, basis) PROVE TypeOK'
    <3>1. basis \in Basis
      BY <1>0, <1>e, <2>2, <2>5, SampleType DEF Takes, Sample
    <3>2. pick' \in [Creators -> [version : Nat, basis : Basis, target : SUBSET baselines]]
      BY <1>0, <2>5, <3>1, PickType DEF Takes
    <3> QED
      BY <1>0, <1>e, <2>3, <2>5, <3>2 DEF Takes, Sample, TypeOK
  <2> QED
    BY <2>1, <2>4, <2>5
<1>f. ASSUME NEW c \in Creators, ReadVersion(c) PROVE TypeOK'
  <2>1. PICK f \in Upcoming(c) :
          pick' = [pick EXCEPT ![c].version = 1 +
                     (CHOOSE n \in {0} \cup {b.version : b \in RowsOf(f, baselines)} :
                        \A b \in RowsOf(f, baselines) : b.version <= n)]
    BY <1>f DEF ReadVersion
  <2>2. PICK n \in Nat : Numbered(f, n)
    BY <1>0, <2>1, OneRole, UpcomingNext DEF Numbering
  <2>3. pick' = [pick EXCEPT ![c].version = 1 + n]
    BY <2>1, <2>2, VersionRead
  <2>4. pick' \in [Creators -> [version : Nat, basis : Basis, target : SUBSET baselines]]
    BY <1>0, <2>2, <2>3, PickType
  <2>5. baselines' = baselines
    BY <1>f, BaselinesKept DEF ReadVersion
  <2> QED
    BY <1>0, <1>f, <2>4, <2>5 DEF ReadVersion, TypeOK
<1>g. ASSUME NEW c \in Creators, FindActive(c) PROVE TypeOK'
  <2>1. pick' \in [Creators -> [version : Nat, basis : Basis, target : SUBSET baselines]]
    <3>1. PICK f \in Upcoming(c) : pick' = [pick EXCEPT ![c].target = ActiveBaseline(f)]
      BY <1>g DEF FindActive
    <3>2. ActiveBaseline(f) \in SUBSET baselines
      BY <1>0 DEF ActiveBaseline, RowsOf, TypeOK
    <3> QED
      BY <1>0, <3>1, <3>2, PickType
  <2>2. baselines' = baselines
    BY <1>g, BaselinesKept DEF FindActive
  <2> QED
    BY <1>0, <1>g, <2>1, <2>2 DEF FindActive, TypeOK
<1>h. ASSUME NEW c \in Creators, Deactivate(c) PROVE TypeOK'
  <2>1. draft' \in [Creators -> [new : SUBSET Row, off : SUBSET baselines, schema : 0..MaxReleases]]
    BY <1>0, <1>h DEF Deactivate, TypeOK
  <2>2. baselines' = baselines
    BY <1>h, BaselinesKept DEF Deactivate
  <2> QED
    BY <1>0, <1>h, <2>1, <2>2 DEF Deactivate, TypeOK
<1>i. ASSUME NEW c \in Creators, Insert(c) PROVE TypeOK'
  <2>1. PICK f \in Upcoming(c) :
          /\ draft' = [draft EXCEPT ![c].new = @ \cup
                         {[feature |-> f, version |-> pick[c].version, basis |-> pick[c].basis]}]
          /\ done' = [done EXCEPT ![c] = @ \cup {f}]
    BY <1>i DEF Insert
  <2>2. f \in Features
    BY <1>0, <2>1, OneRole, UpcomingNext
  <2>3. [feature |-> f, version |-> pick[c].version, basis |-> pick[c].basis] \in Row
    BY <1>0, <1>i, <2>2 DEF Insert, Picks, Row, TypeOK
  <2>4. draft' \in [Creators -> [new : SUBSET Row, off : SUBSET baselines, schema : 0..MaxReleases]]
    BY <1>0, <2>1, <2>3 DEF TypeOK
  <2>5. pick' \in [Creators -> [version : Nat, basis : Basis, target : SUBSET baselines]]
    BY <1>0, <1>i DEF Insert, NoPick, Basis, TypeOK
  <2>6. done' \in [Processes -> SUBSET Features]
    BY <1>0, <2>1, <2>2 DEF TypeOK
  <2>7. baselines' = baselines
    BY <1>i, BaselinesKept DEF Insert
  <2> QED
    BY <1>0, <1>i, <2>4, <2>5, <2>6, <2>7 DEF Insert, TypeOK
<1>j. ASSUME NEW c \in Creators, Commit(c) PROVE TypeOK'
  <2>1. /\ batches' \in Seq(SUBSET Row) /\ baselines' = baselines \cup draft[c].new
        /\ draft[c].new \subseteq Row
    BY <1>0, <1>j, BaselinesAppended DEF Commit, TypeOK
  <2>2. active' \subseteq baselines'
    BY <1>0, <1>j, <2>1 DEF Commit, TypeOK
  <2>3. draft' \in [Creators -> [new : SUBSET Row, off : SUBSET baselines', schema : 0..MaxReleases]]
    <3>1. NoDraft \in [new : SUBSET Row, off : SUBSET baselines', schema : 0..MaxReleases]
      BY LimitAssumption DEF NoDraft
    <3>2. draft \in [Creators -> [new : SUBSET Row, off : SUBSET baselines', schema : 0..MaxReleases]]
      BY <1>0, <2>1 DEF TypeOK
    <3> QED
      BY <1>j, <3>1, <3>2 DEF Commit, Forgets
  <2>4. pick' \in [Creators -> [version : Nat, basis : Basis, target : SUBSET baselines']]
    <3>1. NoPick \in [version : Nat, basis : Basis, target : SUBSET baselines']
      BY DEF NoPick, Basis
    <3>2. pick \in [Creators -> [version : Nat, basis : Basis, target : SUBSET baselines']]
      BY <1>0, <2>1 DEF TypeOK
    <3> QED
      BY <1>j, <3>1, <3>2 DEF Commit, Forgets
  <2>5. found' \in [Evaluators -> SUBSET baselines']
    BY <1>0, <1>j, <2>1 DEF Commit, TypeOK
  <2>6. schema' \in 0..MaxReleases
    BY <1>0, <1>j, VisibleSchemaType DEF Commit
  <2>7. /\ done' \in [Processes -> SUBSET Features]
        /\ pc' \in [Processes -> {"idle", "ensure", "sample", "version", "target", "deactivate",
                                  "insert", "baseline", "compare"}]
    BY <1>0, <1>j DEF Commit, Ends, TypeOK
  <2> QED
    BY <1>0, <1>j, <2>1, <2>2, <2>3, <2>4, <2>5, <2>6, <2>7 DEF Commit, TypeOK
<1>k. ASSUME NEW c \in Creators, Abort(c) \/ CrashCreator(c) PROVE TypeOK'
  <2>1. /\ Ends(c) /\ Forgets(c)
        /\ UNCHANGED <<tables, evaluations, commands, evaluatorVars>>
    BY <1>k DEF Abort, CrashCreator, RollsBack
  <2>2. baselines' = baselines
    BY <2>1, BaselinesKept
  <2>3. /\ draft' \in [Creators -> [new : SUBSET Row, off : SUBSET baselines, schema : 0..MaxReleases]]
        /\ pick' \in [Creators -> [version : Nat, basis : Basis, target : SUBSET baselines]]
    <3>1. NoDraft \in [new : SUBSET Row, off : SUBSET baselines, schema : 0..MaxReleases]
      BY LimitAssumption DEF NoDraft
    <3>2. NoPick \in [version : Nat, basis : Basis, target : SUBSET baselines]
      BY DEF NoPick, Basis
    <3> QED
      BY <1>0, <2>1, <3>1, <3>2 DEF Forgets, TypeOK
  <2>4. /\ done' \in [Processes -> SUBSET Features]
        /\ pc' \in [Processes -> {"idle", "ensure", "sample", "version", "target", "deactivate",
                                  "insert", "baseline", "compare"}]
    BY <1>0, <2>1 DEF Ends, TypeOK
  <2> QED
    BY <1>0, <2>1, <2>2, <2>3, <2>4 DEF TypeOK
<1>l. ASSUME NEW e \in Evaluators, BeginEvaluation(e) PROVE TypeOK'
  <2>1. commands' \in 0..MaxCommands
    BY <1>0, <1>l, LimitAssumption DEF BeginEvaluation, Begin, TypeOK
  <2>2. baselines' = baselines
    BY <1>l, BaselinesKept DEF BeginEvaluation
  <2>3. {b.feature : b \in active} \subseteq Features
    BY <1>0, InSomeBatch, RowFields DEF TypeOK
  <2>4. had' \in [Evaluators -> SUBSET Features]
    BY <1>0, <1>l, <2>3 DEF BeginEvaluation, TypeOK
  <2> QED
    BY <1>0, <1>l, <2>1, <2>2, <2>4 DEF BeginEvaluation, Begin, TypeOK
<1>m. ASSUME NEW e \in Evaluators, NEW f \in Features, NEW outcome \in Outcome, NEW version \in Nat,
             NEW current \in SUBSET Observations, Records(e, f, outcome, version, current)
      PROVE  results' \in [Evaluators -> Seq(Result)] /\ done' \in [Processes -> SUBSET Features]
  <2>1. [feature |-> f, version |-> version, outcome |-> outcome, current |-> current] \in Result
    BY DEF Result
  <2> QED
    BY <1>0, <1>m, <2>1, ResultAppended DEF Records, TypeOK
<1>n. ASSUME NEW e \in Evaluators, ReadBaseline(e) PROVE TypeOK'
  <2>1. PICK f \in Upcoming(e) :
          \/ /\ ActiveBaseline(f) = {}
             /\ Records(e, f, "BASELINE_UNAVAILABLE", 0, {})
             /\ UNCHANGED <<pc, found>>
          \/ \E b \in ActiveBaseline(f) :
               /\ found' = [found EXCEPT ![e] = {b}]
               /\ Goto(e, "compare")
               /\ UNCHANGED <<results, done>>
    BY <1>n DEF ReadBaseline
  <2>2. f \in Features
    BY <1>0, <2>1, OneRole, UpcomingNext
  <2>3. baselines' = baselines
    BY <1>n, BaselinesKept DEF ReadBaseline
  <2>4. CASE Records(e, f, "BASELINE_UNAVAILABLE", 0, {}) /\ UNCHANGED <<pc, found>>
    <3>1. results' \in [Evaluators -> Seq(Result)] /\ done' \in [Processes -> SUBSET Features]
      BY <1>m, <2>2, <2>4 DEF Outcome
    <3> QED
      BY <1>0, <1>n, <2>3, <2>4, <3>1 DEF ReadBaseline, TypeOK
  <2>5. CASE \E b \in ActiveBaseline(f) :
               /\ found' = [found EXCEPT ![e] = {b}]
               /\ Goto(e, "compare")
               /\ UNCHANGED <<results, done>>
    <3>1. found' \in [Evaluators -> SUBSET baselines]
      BY <1>0, <2>5 DEF ActiveBaseline, RowsOf, TypeOK
    <3> QED
      BY <1>0, <1>n, <2>3, <2>5, <3>1 DEF ReadBaseline, TypeOK
  <2> QED
    BY <2>1, <2>4, <2>5
<1>o. ASSUME NEW e \in Evaluators, CompareSchema(e) \/ CompareColumn(e) PROVE TypeOK'
  <2>1. PICK b \in found[e] :
          \E outcome \in Outcome, current \in SUBSET Observations :
            Records(e, b.feature, outcome, b.version, current)
    <3>1. CASE CompareSchema(e)
      BY <3>1 DEF CompareSchema, Outcome
    <3>2. CASE CompareColumn(e)
      <4>1. PICK b \in found[e] :
              /\ b.feature \in Columns
              /\ \E current \in LatestAfter(b.feature, b.basis) :
                   Records(e, b.feature,
                           IF Cardinality(current) < MinimumSamples THEN "INSUFFICIENT_CURRENT" ELSE "MEASURED",
                           b.version, current)
        BY <3>2 DEF CompareColumn
      <4>2. \A current \in LatestAfter(b.feature, b.basis) : current \in SUBSET Observations
        BY <1>0, <4>1 DEF LatestAfter, Leading, TypeOK
      <4> QED
        BY <4>1, <4>2 DEF Outcome
    <3> QED
      BY <1>o, <3>1, <3>2
  <2>2. b.feature \in Features /\ b.version \in Nat
    BY <1>0, InSomeBatch, RowFields DEF TypeOK
  <2>3. results' \in [Evaluators -> Seq(Result)] /\ done' \in [Processes -> SUBSET Features]
    BY <1>m, <2>1, <2>2
  <2>4. baselines' = baselines
    BY <1>o, BaselinesKept DEF CompareSchema, CompareColumn
  <2>5. /\ found' \in [Evaluators -> SUBSET baselines]
        /\ pc' \in [Processes -> {"idle", "ensure", "sample", "version", "target", "deactivate",
                                  "insert", "baseline", "compare"}]
    BY <1>0, <1>o DEF CompareSchema, CompareColumn, TypeOK
  <2> QED
    BY <1>0, <1>o, <2>3, <2>4, <2>5 DEF CompareSchema, CompareColumn, TypeOK
<1>p. ASSUME NEW e \in Evaluators, FinishEvaluation(e) \/ CrashEvaluator(e) PROVE TypeOK'
  <2>1. /\ results' \in [Evaluators -> Seq(Result)] /\ had' \in [Evaluators -> SUBSET Features]
        /\ done' \in [Processes -> SUBSET Features]
        /\ pc' \in [Processes -> {"idle", "ensure", "sample", "version", "target", "deactivate",
                                  "insert", "baseline", "compare"}]
    <3>1. /\ results' = [results EXCEPT ![e] = <<>>] /\ had' = [had EXCEPT ![e] = {}]
          /\ pc' = [pc EXCEPT ![e] = "idle"] /\ done' = [done EXCEPT ![e] = {}]
      BY <1>p DEF FinishEvaluation, CrashEvaluator, Ends
    <3>2. <<>> \in Seq(Result)
      OBVIOUS
    <3> QED
      BY <1>0, <3>1, <3>2 DEF TypeOK
  <2>2. baselines' = baselines
    BY <1>p, BaselinesKept DEF FinishEvaluation, CrashEvaluator
  <2>3. found' \in [Evaluators -> SUBSET baselines]
    BY <1>0, <1>p DEF FinishEvaluation, CrashEvaluator, TypeOK
  <2>4. evaluations' \subseteq [status : {"SUCCESS", "PARTIAL", "NO_BASELINE"},
                               results : Seq(Result), had : SUBSET Features]
    <3>1. [status |-> StatusOf(results[e]), results |-> results[e], had |-> had[e]]
            \in [status : {"SUCCESS", "PARTIAL", "NO_BASELINE"}, results : Seq(Result), had : SUBSET Features]
      BY <1>0 DEF StatusOf, TypeOK
    <3> QED
      BY <1>0, <1>p, <3>1 DEF FinishEvaluation, CrashEvaluator, TypeOK
  <2> QED
    BY <1>0, <1>p, <2>1, <2>2, <2>3, <2>4 DEF FinishEvaluation, CrashEvaluator, TypeOK
<1>q. CASE UNCHANGED vars
  BY <1>0, <1>q, BaselinesKept DEF vars, TypeOK
<1> QED
  BY Steps, <1>a, <1>b, <1>r, <1>c, <1>d, <1>e, <1>f, <1>g, <1>h, <1>i, <1>j, <1>k, <1>l, <1>n, <1>o, <1>p, <1>q

-------------------------------------------------------------------------------
(***************************************************************************)
(* Statements and features in their order.                                 *)
(***************************************************************************)
LEMMA RolesPreserved ==
  ASSUME IInv, [Next]_vars
  PROVE  Roles'
<1> USE DEF Goto, Ends
<1>1. TypeOK /\ Roles /\ OneRole!1 /\ OneRole!2
  BY OneRole DEF IInv
<1>2. ASSUME NEW c \in Creators,
             \E l \in {"idle", "ensure", "sample", "version", "target", "deactivate", "insert"} :
               pc' = [pc EXCEPT ![c] = l]
      PROVE  Roles'
  BY <1>1, <1>2 DEF TypeOK, Roles
<1>3. ASSUME NEW e \in Evaluators, \E l \in {"idle", "baseline", "compare"} : pc' = [pc EXCEPT ![e] = l]
      PROVE  Roles'
  BY <1>1, <1>3 DEF TypeOK, Roles
<1>4. CASE pc' = pc
  BY <1>1, <1>4 DEF Roles
<1>5. ASSUME NEW c \in Creators,
             \/ BeginCreation(c) \/ EnsureSchemaVersion(c) \/ ReadVersion(c) \/ FindActive(c)
             \/ Deactivate(c) \/ Insert(c) \/ Commit(c) \/ Abort(c) \/ CrashCreator(c)
      PROVE  Roles'
  BY <1>2, <1>5 DEF BeginCreation, Begin, EnsureSchemaVersion, ReadVersion, FindActive, Deactivate,
                    Insert, Commit, Abort, CrashCreator
<1>6. ASSUME NEW c \in Creators, Sample(c) PROVE Roles'
  BY <1>1, <1>2, <1>4, <1>6, SampleSteps DEF IInv, Skips, Takes
<1>7. ASSUME NEW e \in Evaluators,
             \/ BeginEvaluation(e) \/ CompareSchema(e) \/ CompareColumn(e)
             \/ FinishEvaluation(e) \/ CrashEvaluator(e)
      PROVE  Roles'
  BY <1>3, <1>7 DEF BeginEvaluation, Begin, CompareSchema, CompareColumn, FinishEvaluation, CrashEvaluator
<1>8. ASSUME NEW e \in Evaluators, ReadBaseline(e) PROVE Roles'
  BY <1>3, <1>4, <1>8 DEF ReadBaseline
<1>9. ASSUME NEW o \in Observations, Ingest(o) PROVE Roles'
  BY <1>4, <1>9 DEF Ingest
<1>10. CASE Register \/ Release \/ UNCHANGED vars
  BY <1>4, <1>10 DEF Register, Release, vars
<1> QED
  BY Steps, <1>5, <1>6, <1>7, <1>8, <1>9, <1>10

LEMMA AsRegisteredPreserved ==
  ASSUME IInv, [Next]_vars
  PROVE  AsRegistered'
<1> USE DEF Goto
<1>1. TypeOK /\ Roles /\ AsRegistered
  BY DEF IInv
<1>2. ASSUME NEW p \in Processes, NEW f \in Upcoming(p), done' = [done EXCEPT ![p] = @ \cup {f}],
             pc'[p] \notin {"idle", "ensure"}, \A q \in Processes \ {p} : pc'[q] = pc[q]
      PROVE  AsRegistered'
  <2>1. IsBeginning(done[p] \cup {f})
    BY <1>1, UpcomingNext
  <2>2. /\ done'[p] = done[p] \cup {f}
        /\ \A q \in Processes \ {p} : done'[q] = done[q]
    BY <1>1, <1>2 DEF TypeOK
  <2> QED
    BY <1>1, <1>2, <2>1, <2>2 DEF AsRegistered, IsBeginning
<1>3. ASSUME NEW p \in Processes, Ends(p) PROVE AsRegistered'
  <2>1. done'[p] = {} /\ \A q \in Processes \ {p} : done'[q] = done[q] /\ pc'[q] = pc[q]
    BY <1>1, <1>3 DEF Ends, TypeOK
  <2> QED
    BY <1>1, <2>1, EmptyPrefix DEF AsRegistered, IsBeginning
<1>4. ASSUME done' = done,
             \A p \in Processes : pc'[p] \in {"idle", "ensure"} => pc[p] \in {"idle", "ensure"}
      PROVE  AsRegistered'
  BY <1>1, <1>4 DEF AsRegistered, IsBeginning
<1>5. ASSUME NEW p \in Processes, NEW l, done' = done, pc' = [pc EXCEPT ![p] = l],
             l \in {"idle", "ensure"} => pc[p] \in {"idle", "ensure"}
      PROVE  AsRegistered'
  BY <1>1, <1>4, <1>5 DEF TypeOK
<1>6. ASSUME NEW c \in Creators,
             \/ BeginCreation(c) \/ EnsureSchemaVersion(c) \/ ReadVersion(c) \/ FindActive(c)
             \/ Deactivate(c)
      PROVE  AsRegistered'
  BY <1>5, <1>6, OneRole
     DEF BeginCreation, Begin, EnsureSchemaVersion, ReadVersion, FindActive, Deactivate
<1>7. ASSUME NEW c \in Creators, Sample(c) PROVE AsRegistered'
  <2>1. PICK f \in Upcoming(c) : Skips(c, f) \/ \E basis : Takes(c, f, basis)
    BY <1>1, <1>7, SampleSteps DEF IInv
  <2>2. CASE Skips(c, f)
    BY <1>2, <1>7, <2>1, <2>2, OneRole DEF Skips, Sample
  <2>3. ASSUME NEW basis, Takes(c, f, basis) PROVE AsRegistered'
    BY <1>5, <2>3, OneRole DEF Takes
  <2> QED
    BY <2>1, <2>2, <2>3
<1>8. ASSUME NEW c \in Creators, Insert(c) PROVE AsRegistered'
  <2>1. PICK f \in Upcoming(c) : done' = [done EXCEPT ![c] = @ \cup {f}]
    BY <1>8 DEF Insert
  <2>2. pc'[c] = "sample" /\ \A q \in Processes \ {c} : pc'[q] = pc[q]
    BY <1>1, <1>8, OneRole DEF Insert, TypeOK
  <2> QED
    BY <1>2, <2>1, <2>2, OneRole
<1>9. ASSUME NEW c \in Creators, Commit(c) \/ Abort(c) \/ CrashCreator(c) PROVE AsRegistered'
  BY <1>3, <1>9, OneRole DEF Commit, Abort, CrashCreator
<1>10. ASSUME NEW e \in Evaluators, BeginEvaluation(e) PROVE AsRegistered'
  BY <1>5, <1>10, OneRole DEF BeginEvaluation, Begin
<1>11. ASSUME NEW e \in Evaluators, ReadBaseline(e) PROVE AsRegistered'
  <2>1. PICK f \in Upcoming(e) :
          \/ done' = [done EXCEPT ![e] = @ \cup {f}] /\ pc' = pc
          \/ done' = done /\ pc' = [pc EXCEPT ![e] = "compare"]
    BY <1>11 DEF ReadBaseline, Records
  <2>2. pc[e] = "baseline"
    BY <1>11 DEF ReadBaseline
  <2> QED
    BY <1>2, <1>5, <2>1, <2>2, OneRole
<1>12. ASSUME NEW e \in Evaluators, CompareSchema(e) \/ CompareColumn(e) PROVE AsRegistered'
  <2>1. PICK b \in found[e] : done' = [done EXCEPT ![e] = @ \cup {b.feature}]
    BY <1>12 DEF CompareSchema, CompareColumn, Records
  <2>2. b.feature \in Upcoming(e)
    BY <1>12, <2>1 DEF CompareSchema, CompareColumn, IInv, Evaluating
  <2>3. pc'[e] = "baseline" /\ \A q \in Processes \ {e} : pc'[q] = pc[q]
    BY <1>1, <1>12, OneRole DEF CompareSchema, CompareColumn, TypeOK
  <2> QED
    BY <1>2, <2>1, <2>2, <2>3, OneRole
<1>13. ASSUME NEW e \in Evaluators, FinishEvaluation(e) \/ CrashEvaluator(e) PROVE AsRegistered'
  BY <1>3, <1>13, OneRole DEF FinishEvaluation, CrashEvaluator
<1>14. ASSUME NEW o \in Observations, Ingest(o) PROVE AsRegistered'
  BY <1>4, <1>14 DEF Ingest
<1>15. CASE Register \/ Release \/ UNCHANGED vars
  BY <1>4, <1>15 DEF Register, Release, vars
<1> QED
  BY Steps, <1>6, <1>7, <1>8, <1>9, <1>10, <1>11, <1>12, <1>13, <1>14, <1>15

-------------------------------------------------------------------------------
(***************************************************************************)
(* Numbers.                                                                *)
(***************************************************************************)
LEMMA NumberedUnique ==
  ASSUME NEW f, NEW n \in Nat, NEW m \in Nat, Numbered(f, n), Numbered(f, m)
  PROVE  n = m
<1>1. ASSUME NEW i \in Nat, NEW j \in Nat, Numbered(f, i), Numbered(f, j) PROVE i <= j
  <2>1. CASE i = 0
    BY <2>1
  <2>2. CASE i # 0
    <3>1. PICK b \in RowsOf(f, baselines) : b.version = i
      BY <1>1, <2>2 DEF Numbered
    <3> QED
      BY <1>1, <3>1 DEF Numbered
  <2> QED
    BY <2>1, <2>2
<1> QED
  BY <1>1

\* Only a commit changes the committed rows, and the stored schema besides an ingestion.
LEMMA OthersKeepTables ==
  ASSUME [Next]_vars
  PROVE  \/ \E c \in Creators : Commit(c)
         \/ batches' = batches /\ active' = active /\ (schema' = schema \/ Register)
BY Steps DEF Ingest, Register, Release, BeginCreation, EnsureSchemaVersion, Sample, ReadVersion, FindActive,
             Deactivate, Insert, Abort, CrashCreator, BeginEvaluation, ReadBaseline, CompareSchema,
             CompareColumn, FinishEvaluation, CrashEvaluator, vars, tables

\* A commit adds the next number to the features it has rows for, and to no other.
LEMMA CommitNumbers ==
  ASSUME IInv, NEW c \in Creators, Commit(c)
  PROVE  /\ baselines' = baselines \cup draft[c].new
         /\ \A b \in draft[c].new : b \notin baselines /\ Numbered(b.feature, b.version)'
         /\ \A f, n : (\A b \in draft[c].new : b.feature # f) =>
              /\ Numbered(f, n) => Numbered(f, n)'
              /\ RowsOf(f, active)' = RowsOf(f, active)
<1>1. /\ baselines' = baselines \cup draft[c].new
      /\ active' = (active \ draft[c].off) \cup draft[c].new
      /\ draft[c].new \subseteq Row /\ active \subseteq baselines
  BY BaselinesAppended DEF IInv, TypeOK, Commit
<1>2. ASSUME NEW b \in draft[c].new
      PROVE  b \notin baselines /\ Numbered(b.feature, b.version)'
  <2>1. /\ Numbered(b.feature, b.version - 1)
        /\ RowsOf(b.feature, active) \subseteq draft[c].off
        /\ \A a \in draft[c].new : a.feature = b.feature => a = b
    BY DEF IInv, Drafts
  <2>2. b.version \in Nat /\ b.version # 0
    BY <1>1, RowFields
  <2>3. b \notin baselines
    BY <2>1, <2>2 DEF Numbered, RowsOf
  <2>4. ASSUME NEW a \in baselines', a.feature = b.feature, a # b
        PROVE  a \in RowsOf(b.feature, baselines) /\ a \notin active' /\ a.version \in 1..(b.version - 1)
    <3>1. a \notin draft[c].new
      BY <2>1, <2>4
    <3>2. a \in RowsOf(b.feature, baselines)
      BY <1>1, <2>4, <3>1 DEF RowsOf
    <3>3. a.version \in 1..(b.version - 1)
      BY <2>1, <3>2 DEF Numbered
    <3>4. a \in active => a \in draft[c].off
      BY <2>1, <2>4 DEF RowsOf
    <3> QED
      BY <1>1, <3>1, <3>2, <3>3, <3>4
  <2>5. \A v \in 1..b.version : \E a \in baselines' : a.feature = b.feature /\ a.version = v
    BY <1>1, <2>1, <2>2 DEF RowsOf, Numbered
  <2>6. b \in active'
    BY <1>1
  <2>7. \A a \in RowsOf(b.feature, baselines') :
          a.version \in 1..b.version /\ (a \in active' <=> a.version = b.version)
    BY <2>2, <2>4, <2>6 DEF RowsOf
  <2>8. \A v \in 1..b.version : \E a \in RowsOf(b.feature, baselines') : a.version = v
    BY <2>5 DEF RowsOf
  <2> QED
    BY <2>3, <2>7, <2>8 DEF Numbered, RowsOf
<1>3. ASSUME NEW f, NEW n, \A b \in draft[c].new : b.feature # f
      PROVE  /\ Numbered(f, n) => Numbered(f, n)'
             /\ RowsOf(f, active)' = RowsOf(f, active)
  <2>1. \A b \in draft[c].off : b.feature # f
    BY <1>3 DEF IInv, Drafts, Commit
  <2>2. /\ RowsOf(f, baselines)' = RowsOf(f, baselines)
        /\ RowsOf(f, active)' = RowsOf(f, active)
    BY <1>1, <1>3, <2>1 DEF RowsOf
  <2>3. \A b \in RowsOf(f, baselines) : b \in active' <=> b \in active
    BY <1>1, <1>3, <2>1 DEF RowsOf
  <2> QED
    BY <2>2, <2>3 DEF Numbered
<1> QED
  BY <1>1, <1>2, <1>3

LEMMA NumberingPreserved ==
  ASSUME IInv, [Next]_vars
  PROVE  Numbering'
<1>1. TypeOK /\ Numbering
  BY DEF IInv
<1>2. ASSUME NEW c \in Creators, Commit(c) PROVE Numbering'
  <2>1. /\ baselines' = baselines \cup draft[c].new /\ draft[c].new \subseteq Row
        /\ \A a, b \in draft[c].new : a.feature = b.feature => a = b
    BY <1>2, CommitNumbers DEF IInv, TypeOK, Drafts
  <2>2. ASSUME NEW f \in Features PROVE \E n \in Nat : Numbered(f, n)'
    <3>1. CASE \E b \in draft[c].new : b.feature = f
      BY <1>2, <2>1, <3>1, CommitNumbers, RowFields
    <3>2. CASE \A b \in draft[c].new : b.feature # f
      BY <1>1, <1>2, <3>2, CommitNumbers DEF Numbering
    <3> QED
      BY <3>1, <3>2
  <2>3. ASSUME NEW a \in baselines', NEW b \in baselines', a.feature = b.feature, a.version = b.version
        PROVE  a = b
    <3>1. ASSUME NEW x \in baselines, NEW y \in draft[c].new, x.feature = y.feature
          PROVE  x.version # y.version
      <4>1. Numbered(y.feature, y.version - 1) /\ y.version \in Nat
        BY <2>1, RowFields DEF IInv, Drafts
      <4> QED
        BY <3>1, <4>1 DEF Numbered, RowsOf
    <3> QED
      BY <1>1, <2>1, <2>3, <3>1 DEF Numbering
  <2> QED
    BY <2>2, <2>3 DEF Numbering
<1>3. CASE batches' = batches /\ active' = active
  BY <1>1, <1>3, NumberedKept, BaselinesKept DEF Numbering
<1> QED
  BY <1>2, <1>3, OthersKeepTables

\* What a creation has read of a version was the last, and can only be outdone.
LEMMA VersionsGrow ==
  ASSUME IInv, [Next]_vars, NEW f \in Features, NEW n \in Nat, Numbered(f, n)
  PROVE  \E m \in Nat : Numbered(f, m)' /\ n <= m
<1>1. ASSUME NEW c \in Creators, Commit(c) PROVE \E m \in Nat : Numbered(f, m)' /\ n <= m
  <2>1. CASE \E b \in draft[c].new : b.feature = f
    <3>1. PICK b \in draft[c].new : b.feature = f
      BY <2>1
    <3>2. b.version \in Nat /\ b.version # 0
      BY RowFields DEF IInv, TypeOK
    <3>3. Numbered(f, b.version - 1) /\ b.version - 1 \in Nat
      BY <3>1, <3>2 DEF IInv, Drafts
    <3>4. n = b.version - 1
      BY <3>3, NumberedUnique
    <3> QED
      BY <1>1, <3>1, <3>2, <3>4, CommitNumbers
  <2>2. CASE \A b \in draft[c].new : b.feature # f
    BY <1>1, <2>2, CommitNumbers
  <2> QED
    BY <2>1, <2>2
<1>2. CASE batches' = batches /\ active' = active
  BY <1>2, NumberedKept
<1> QED
  BY <1>1, <1>2, OthersKeepTables

-------------------------------------------------------------------------------
(***************************************************************************)
(* Steps by the process that takes them.                                   *)
(***************************************************************************)
SameCreator(c) ==
  pc'[c] = pc[c] /\ done'[c] = done[c] /\ draft'[c] = draft[c] /\ pick'[c] = pick[c]

SameEvaluator(e) ==
  /\ pc'[e] = pc[e] /\ done'[e] = done[e]
  /\ found'[e] = found[e] /\ results'[e] = results[e] /\ had'[e] = had[e]

\* A creation leaves the other commands alone, and only its commit changes the tables.
LEMMA CreationSteps ==
  ASSUME TypeOK, NEW c \in Creators,
         \/ BeginCreation(c) \/ EnsureSchemaVersion(c) \/ Sample(c) \/ ReadVersion(c)
         \/ FindActive(c) \/ Deactivate(c) \/ Insert(c) \/ Commit(c)
         \/ Abort(c) \/ CrashCreator(c)
  PROVE  /\ \A d \in Creators \ {c} : SameCreator(d)
         /\ \A e \in Evaluators : SameEvaluator(e)
         /\ observed' = observed /\ evaluations' = evaluations
         /\ Commit(c) \/ (batches' = batches /\ active' = active /\ schema' = schema)
<1> USE OneRole DEF SameCreator, SameEvaluator, Goto, Ends, Forgets, RollsBack, tables, creatorVars,
                    evaluatorVars, TypeOK
<1>1. CASE BeginCreation(c)
  BY <1>1 DEF BeginCreation, Begin
<1>2. CASE EnsureSchemaVersion(c)
  BY <1>2 DEF EnsureSchemaVersion
<1>3. CASE Sample(c)
  <2>1. \E f \in Upcoming(c) :
          /\ done' = done \/ done' = [done EXCEPT ![c] = @ \cup {f}]
          /\ pc' = pc \/ pc' = [pc EXCEPT ![c] = "version"]
          /\ pick' = pick \/ \E basis : pick' = [pick EXCEPT ![c].basis = basis]
    BY <1>3 DEF Sample
  <2> QED
    BY <1>3, <2>1 DEF Sample
<1>4. CASE ReadVersion(c)
  <2>1. \E v : pick' = [pick EXCEPT ![c].version = v]
    BY <1>4 DEF ReadVersion
  <2> QED
    BY <1>4, <2>1 DEF ReadVersion
<1>5. CASE FindActive(c)
  BY <1>5 DEF FindActive
<1>6. CASE Deactivate(c)
  BY <1>6 DEF Deactivate
<1>7. CASE Insert(c)
  BY <1>7 DEF Insert
<1>8. CASE Commit(c)
  BY <1>8 DEF Commit
<1>9. CASE Abort(c)
  BY <1>9 DEF Abort
<1>10. CASE CrashCreator(c)
  BY <1>10 DEF CrashCreator
<1> QED
  BY <1>1, <1>2, <1>3, <1>4, <1>5, <1>6, <1>7, <1>8, <1>9, <1>10

\* An evaluation leaves the other commands and the tables alone.
LEMMA EvaluationSteps ==
  ASSUME TypeOK, NEW e \in Evaluators,
         \/ BeginEvaluation(e) \/ ReadBaseline(e) \/ CompareSchema(e) \/ CompareColumn(e)
         \/ FinishEvaluation(e) \/ CrashEvaluator(e)
  PROVE  /\ \A c \in Creators : SameCreator(c)
         /\ \A d \in Evaluators \ {e} : SameEvaluator(d)
         /\ UNCHANGED tables
         /\ evaluations' # evaluations => FinishEvaluation(e)
<1> USE OneRole DEF SameCreator, SameEvaluator, Goto, Ends, Records, tables, creatorVars,
                    evaluatorVars, TypeOK
<1>1. CASE BeginEvaluation(e)
  BY <1>1 DEF BeginEvaluation, Begin
<1>2. CASE ReadBaseline(e)
  <2>1. \E f \in Upcoming(e) :
          /\ done' = done \/ done' = [done EXCEPT ![e] = @ \cup {f}]
          /\ results' = results \/ \E r : results' = [results EXCEPT ![e] = r]
          /\ pc' = pc \/ pc' = [pc EXCEPT ![e] = "compare"]
          /\ found' = found \/ \E b : found' = [found EXCEPT ![e] = {b}]
    BY <1>2 DEF ReadBaseline
  <2> QED
    BY <1>2, <2>1 DEF ReadBaseline
<1>3. CASE CompareSchema(e) \/ CompareColumn(e)
  <2>1. \E f, r : done' = [done EXCEPT ![e] = f] /\ results' = [results EXCEPT ![e] = r]
    BY <1>3 DEF CompareSchema, CompareColumn
  <2> QED
    BY <1>3, <2>1 DEF CompareSchema, CompareColumn
<1>4. CASE FinishEvaluation(e)
  BY <1>4 DEF FinishEvaluation
<1>5. CASE CrashEvaluator(e)
  BY <1>5 DEF CrashEvaluator
<1> QED
  BY <1>1, <1>2, <1>3, <1>4, <1>5

\* The other steps leave the commands alone.
LEMMA OtherSteps ==
  ASSUME (\E o \in Observations : Ingest(o)) \/ Register \/ Release \/ UNCHANGED vars
  PROVE  /\ \A c \in Creators : SameCreator(c)
         /\ \A e \in Evaluators : SameEvaluator(e)
         /\ batches' = batches /\ active' = active /\ (schema' = schema \/ Register)
         /\ evaluations' = evaluations /\ pc' = pc
BY DEF Ingest, Register, Release, vars, tables, creatorVars, evaluatorVars, SameCreator, SameEvaluator

-------------------------------------------------------------------------------
(***************************************************************************)
(* What a creation has read.                                               *)
(***************************************************************************)
LEMMA PicksPreserved ==
  ASSUME IInv, [Next]_vars
  PROVE  Picks'
<1> DEFINE P(c) ==
      /\ pc[c] \in {"target", "deactivate", "insert"} =>
           /\ pick[c].version # 0
           /\ \A f \in Upcoming(c) : \E n \in Nat : Numbered(f, n) /\ pick[c].version <= n + 1
      /\ pc[c] = "deactivate" => \A b \in pick[c].target : b.feature \in Upcoming(c)
<1> USE DEF Goto
<1>1. /\ TypeOK /\ AsRegistered
      /\ \A c \in Creators : P(c)
  BY DEF IInv, Picks
<1>2. ASSUME NEW c \in Creators, done'[c] = done[c], pick'[c].version = pick[c].version,
             pc[c] \in {"target", "deactivate", "insert"}
      PROVE  /\ pick'[c].version # 0
             /\ \A f \in Upcoming(c)' : \E n \in Nat : Numbered(f, n)' /\ pick'[c].version <= n + 1
  <2>1. Upcoming(c)' = Upcoming(c) /\ pick[c].version \in Nat
    BY <1>1, <1>2, UpcomingKept DEF TypeOK
  <2>2. ASSUME NEW f \in Upcoming(c)
        PROVE  \E n \in Nat : Numbered(f, n)' /\ pick[c].version <= n + 1
    <3>1. PICK n \in Nat : Numbered(f, n) /\ pick[c].version <= n + 1
      BY <1>1, <1>2
    <3>2. PICK m \in Nat : Numbered(f, m)' /\ n <= m
      BY <1>1, <3>1, VersionsGrow, UpcomingNext, OneRole
    <3>3. pick[c].version <= m + 1
      BY <2>1, <3>1, <3>2
    <3> QED
      BY <3>2, <3>3
  <2> QED
    BY <1>1, <1>2, <2>1, <2>2
<1>3. ASSUME NEW c \in Creators, SameCreator(c) PROVE P(c)'
  <2>1. Upcoming(c)' = Upcoming(c)
    BY <1>3, UpcomingKept DEF SameCreator
  <2> QED
    BY <1>1, <1>2, <1>3, <2>1 DEF SameCreator
<1>4. ASSUME NEW c \in Creators, pc'[c] \notin {"target", "deactivate", "insert"} PROVE P(c)'
  BY <1>4
<1>5. ASSUME NEW c \in Creators, BeginCreation(c) \/ EnsureSchemaVersion(c) \/ Insert(c) PROVE P(c)'
  <2>1. pc'[c] \in {"ensure", "sample"}
    BY <1>1, <1>5, OneRole DEF BeginCreation, Begin, EnsureSchemaVersion, Insert, TypeOK
  <2> QED
    BY <1>4, <2>1
<1>6. ASSUME NEW c \in Creators, Sample(c) PROVE P(c)'
  <2>1. pc[c] = "sample" /\ (pc' = pc \/ pc' = [pc EXCEPT ![c] = "version"])
    BY <1>6, <1>1, SampleSteps DEF Sample, Skips, Takes, IInv
  <2>2. pc'[c] \in {"sample", "version"}
    BY <1>1, <2>1, OneRole DEF TypeOK
  <2> QED
    BY <1>4, <2>2
<1>7. ASSUME NEW c \in Creators, ReadVersion(c) PROVE P(c)'
  <2>1. PICK f \in Upcoming(c) :
          pick' = [pick EXCEPT ![c].version = 1 +
                     (CHOOSE n \in {0} \cup {b.version : b \in RowsOf(f, baselines)} :
                        \A b \in RowsOf(f, baselines) : b.version <= n)]
    BY <1>7 DEF ReadVersion
  <2>2. Upcoming(c) = {f} /\ f \in Features
    BY <1>1, <2>1, OneRole, UpcomingNext
  <2>3. PICK n \in Nat : Numbered(f, n)
    BY <2>2 DEF IInv, Numbering
  <2>4. pick' = [pick EXCEPT ![c].version = 1 + n]
    BY <2>1, <2>3, VersionRead
  <2>5. pick'[c].version = 1 + n
    BY <1>1, <2>4 DEF TypeOK
  <2>6. Upcoming(c)' = {f} /\ Numbered(f, n)' /\ pc'[c] = "target"
    BY <1>1, <1>7, <2>2, <2>3, UpcomingKept, NumberedKept, OneRole DEF ReadVersion, tables, TypeOK
  <2> QED
    BY <2>3, <2>5, <2>6
<1>8. ASSUME NEW c \in Creators, FindActive(c) PROVE P(c)'
  <2>1. PICK f \in Upcoming(c) : pick' = [pick EXCEPT ![c].target = ActiveBaseline(f)]
    BY <1>8 DEF FindActive
  <2>2. pick'[c].target = ActiveBaseline(f) /\ pick'[c].version = pick[c].version
    BY <1>1, <2>1 DEF TypeOK
  <2>3. Upcoming(c)' = Upcoming(c) /\ done'[c] = done[c] /\ pc[c] = "target"
    BY <1>8, UpcomingKept DEF FindActive
  <2>4. \A b \in pick'[c].target : b.feature \in Upcoming(c)'
    BY <2>1, <2>2, <2>3 DEF ActiveBaseline, RowsOf
  <2> QED
    BY <1>2, <2>2, <2>3, <2>4
<1>9. ASSUME NEW c \in Creators, Deactivate(c) PROVE P(c)'
  <2>1. pick'[c] = pick[c] /\ done'[c] = done[c] /\ pc[c] = "deactivate" /\ pc'[c] = "insert"
    BY <1>1, <1>9, OneRole DEF Deactivate, TypeOK
  <2> QED
    BY <1>2, <2>1
<1>10. ASSUME NEW c \in Creators, Commit(c) \/ Abort(c) \/ CrashCreator(c) PROVE P(c)'
  <2>1. pc'[c] = "idle"
    BY <1>1, <1>10, OneRole DEF Commit, Abort, CrashCreator, Ends, TypeOK
  <2> QED
    BY <1>4, <2>1
<1> HIDE DEF P
<1>11. \A c \in Creators : P(c)'
  <2>1. ASSUME NEW c \in Creators,
               \/ BeginCreation(c) \/ EnsureSchemaVersion(c) \/ Sample(c) \/ ReadVersion(c)
               \/ FindActive(c) \/ Deactivate(c) \/ Insert(c) \/ Commit(c)
               \/ Abort(c) \/ CrashCreator(c)
        PROVE  \A d \in Creators : P(d)'
    <3>1. \A d \in Creators \ {c} : P(d)'
      BY <1>1, <1>3, <2>1, CreationSteps
    <3>2. P(c)'
      BY <2>1, <1>5, <1>6, <1>7, <1>8, <1>9, <1>10
    <3> QED
      BY <3>1, <3>2
  <2>2. ASSUME NEW e \in Evaluators,
               \/ BeginEvaluation(e) \/ ReadBaseline(e) \/ CompareSchema(e) \/ CompareColumn(e)
               \/ FinishEvaluation(e) \/ CrashEvaluator(e)
        PROVE  \A d \in Creators : P(d)'
    BY <1>1, <1>3, <2>2, EvaluationSteps
  <2>3. CASE (\E o \in Observations : Ingest(o)) \/ Register \/ Release \/ UNCHANGED vars
    BY <1>3, <2>3, OtherSteps
  <2> QED
    BY <2>1, <2>2, <2>3, Steps
<1> QED
  BY <1>11 DEF P, Picks

-------------------------------------------------------------------------------
(***************************************************************************)
(* What a creation has written.                                            *)
(***************************************************************************)
\* The part of Drafts that is about one creation, and the part that is about two.
OwnDraft(c) ==
  /\ pc[c] \in {"idle", "ensure"} => draft[c] = NoDraft
  /\ \A b \in draft[c].new :
       /\ b.feature \in done[c]
       /\ Numbered(b.feature, b.version - 1)
       /\ RowsOf(b.feature, active) \subseteq draft[c].off
  /\ \A a, b \in draft[c].new : a.feature = b.feature => a = b
  /\ \A b \in draft[c].off :
       \/ \E a \in draft[c].new : a.feature = b.feature
       \/ pc[c] = "insert" /\ b.feature \in Upcoming(c)

Apart(c, d) == \A a \in draft[c].new, b \in draft[d].new : a.feature # b.feature

LEMMA DraftsSplit ==
  Drafts <=> \A c \in Creators : OwnDraft(c) /\ \A d \in Creators \ {c} : Apart(c, d)
BY DEF Drafts, OwnDraft, Apart

\* The row that may be inserted is the next one, and replaces the active one.
LEMMA InsertedIsNext ==
  ASSUME IInv, NEW c \in Creators, pc[c] = "insert", NEW f \in Upcoming(c), ~Violates(c, f)
  PROVE  /\ Numbered(f, pick[c].version - 1)
         /\ RowsOf(f, active) \subseteq draft[c].off
<1>1. /\ pick[c].version \in Nat /\ pick[c].version # 0
      /\ active \subseteq baselines
  BY DEF IInv, TypeOK, Picks
<1>2. PICK n \in Nat : Numbered(f, n) /\ pick[c].version <= n + 1
  BY DEF IInv, Picks
<1>3. \A b \in RowsOf(f, baselines) : b.version # pick[c].version
  BY DEF Violates, Collides, RowsOf
<1>4. pick[c].version \notin 1..n
  BY <1>2, <1>3 DEF Numbered
<1>5. n = pick[c].version - 1
  BY <1>1, <1>2, <1>4
<1> QED
  BY <1>1, <1>2, <1>5 DEF Violates, Collides, RowsOf

LEMMA OwnDraftsPreserved ==
  ASSUME IInv, NEW c \in Creators,
         \/ BeginCreation(c) \/ EnsureSchemaVersion(c) \/ Sample(c) \/ ReadVersion(c)
         \/ FindActive(c) \/ Deactivate(c) \/ Insert(c) \/ Commit(c)
         \/ Abort(c) \/ CrashCreator(c)
  PROVE  OwnDraft(c)'
<1> USE OneRole DEF Goto
<1>1. TypeOK /\ AsRegistered /\ OwnDraft(c)
  BY DraftsSplit DEF IInv
<1>2. ASSUME draft'[c].new = {}, draft'[c].off = {}, pc'[c] \in {"idle", "ensure"} => draft'[c] = NoDraft
      PROVE  OwnDraft(c)'
  BY <1>2 DEF OwnDraft
<1>3. CASE BeginCreation(c)
  <2>1. draft'[c] = draft[c] /\ draft[c] = NoDraft
    BY <1>1, <1>3 DEF BeginCreation, Begin, OwnDraft, creatorVars
  <2> QED
    BY <1>2, <2>1 DEF NoDraft
<1>4. CASE EnsureSchemaVersion(c)
  <2>1. draft[c] = NoDraft
    BY <1>1, <1>4 DEF EnsureSchemaVersion, OwnDraft
  <2>2. draft'[c].new = draft[c].new /\ draft'[c].off = draft[c].off /\ pc'[c] = "sample"
    BY <1>1, <1>4 DEF EnsureSchemaVersion, TypeOK
  <2> QED
    BY <1>2, <2>1, <2>2 DEF NoDraft
<1>5. ASSUME draft'[c] = draft[c], done[c] \subseteq done'[c], batches' = batches, active' = active,
             pc[c] \notin {"idle", "ensure", "insert"}, pc'[c] \notin {"idle", "ensure"}
      PROVE  OwnDraft(c)'
  <2>1. \A b \in draft[c].new : Numbered(b.feature, b.version - 1)' = Numbered(b.feature, b.version - 1)
    BY <1>5, NumberedKept
  <2>2. \A f : RowsOf(f, active)' = RowsOf(f, active)
    BY <1>5 DEF RowsOf
  <2> QED
    BY <1>1, <1>5, <2>1, <2>2 DEF OwnDraft
<1>6. CASE Sample(c)
  <2>1. PICK f \in Upcoming(c) : Skips(c, f) \/ \E basis : Takes(c, f, basis)
    BY <1>6, <1>1, SampleSteps DEF IInv
  <2>2. done[c] \subseteq done'[c] /\ pc[c] = "sample" /\ pc'[c] \in {"sample", "version"}
    BY <1>1, <1>6, <2>1 DEF Sample, Skips, Takes, TypeOK
  <2> QED
    BY <1>5, <1>6, <2>2 DEF Sample, tables
<1>7. CASE ReadVersion(c)
  BY <1>1, <1>5, <1>7 DEF ReadVersion, tables, TypeOK
<1>8. CASE FindActive(c)
  BY <1>1, <1>5, <1>8 DEF FindActive, tables, TypeOK
<1>9. CASE Deactivate(c)
  <2>1. /\ draft'[c].new = draft[c].new
        /\ draft'[c].off = draft[c].off \cup (pick[c].target \cap active)
        /\ pc'[c] = "insert" /\ pc[c] = "deactivate" /\ done'[c] = done[c]
        /\ batches' = batches /\ active' = active
    BY <1>1, <1>9 DEF Deactivate, tables, TypeOK
  <2>2. Upcoming(c)' = Upcoming(c)
    BY <2>1, UpcomingKept
  <2>3. \A b \in pick[c].target : b.feature \in Upcoming(c)
    BY <2>1 DEF IInv, Picks
  <2>4. \A b \in draft[c].new : Numbered(b.feature, b.version - 1)' = Numbered(b.feature, b.version - 1)
    BY <2>1, NumberedKept
  <2>5. \A f : RowsOf(f, active)' = RowsOf(f, active)
    BY <2>1 DEF RowsOf
  <2>6. \A b \in draft'[c].off :
          \/ \E a \in draft'[c].new : a.feature = b.feature
          \/ pc'[c] = "insert" /\ b.feature \in Upcoming(c)'
    BY <1>1, <2>1, <2>2, <2>3 DEF OwnDraft
  <2>7. \A b \in draft'[c].new :
          /\ b.feature \in done'[c]
          /\ Numbered(b.feature, b.version - 1)'
          /\ RowsOf(b.feature, active)' \subseteq draft'[c].off
    BY <1>1, <2>1, <2>4, <2>5 DEF OwnDraft
  <2>8. \A a, b \in draft'[c].new : a.feature = b.feature => a = b
    BY <1>1, <2>1 DEF OwnDraft
  <2> QED
    BY <2>1, <2>6, <2>7, <2>8 DEF OwnDraft
<1>10. CASE Insert(c)
  <2>1. PICK f \in Upcoming(c) :
          /\ ~Violates(c, f)
          /\ draft' = [draft EXCEPT ![c].new = @ \cup
                         {[feature |-> f, version |-> pick[c].version, basis |-> pick[c].basis]}]
          /\ done' = [done EXCEPT ![c] = @ \cup {f}]
    BY <1>10 DEF Insert
  <2> DEFINE r == [feature |-> f, version |-> pick[c].version, basis |-> pick[c].basis]
  <2>2. /\ draft'[c].new = draft[c].new \cup {r} /\ draft'[c].off = draft[c].off
        /\ done'[c] = done[c] \cup {f}
        /\ pc[c] = "insert" /\ pc'[c] = "sample"
        /\ batches' = batches /\ active' = active
    BY <1>1, <1>10, <2>1 DEF Insert, tables, TypeOK
  <2>3. /\ f \notin done[c] /\ Upcoming(c) = {f}
        /\ Numbered(f, pick[c].version - 1)
        /\ RowsOf(f, active) \subseteq draft[c].off
    BY <1>1, <2>1, <2>2, UpcomingNext, InsertedIsNext
  <2>4. r.feature = f /\ r.version = pick[c].version
    OBVIOUS
  <2> HIDE DEF r
  <2>5. \A b \in draft'[c].new : b.feature \in done'[c]
    BY <1>1, <2>2, <2>4 DEF OwnDraft
  <2>6. \A b \in draft'[c].new : Numbered(b.feature, b.version - 1)
    BY <1>1, <2>2, <2>3, <2>4 DEF OwnDraft
  <2>7. \A b \in draft'[c].new : Numbered(b.feature, b.version - 1)'
    BY <2>2, <2>6, NumberedKept
  <2>8. \A b \in draft'[c].new : RowsOf(b.feature, active)' \subseteq draft'[c].off
    BY <1>1, <2>2, <2>3, <2>4 DEF OwnDraft, RowsOf
  <2>9. \A a, b \in draft'[c].new : a.feature = b.feature => a = b
    BY <1>1, <2>2, <2>3, <2>4 DEF OwnDraft
  <2>10. \A b \in draft'[c].off : \E a \in draft'[c].new : a.feature = b.feature
    BY <1>1, <2>2, <2>3, <2>4 DEF OwnDraft
  <2> QED
    BY <2>2, <2>5, <2>7, <2>8, <2>9, <2>10 DEF OwnDraft
<1>11. CASE Commit(c) \/ Abort(c) \/ CrashCreator(c)
  <2>1. draft'[c] = NoDraft
    BY <1>1, <1>11 DEF Commit, Abort, CrashCreator, RollsBack, Forgets, TypeOK
  <2> QED
    BY <1>2, <2>1 DEF NoDraft
<1> QED
  BY <1>3, <1>4, <1>6, <1>7, <1>8, <1>9, <1>10, <1>11

\* What another creation does leaves the draft of c as true as it was.
LEMMA OtherDraftsPreserved ==
  ASSUME IInv, [Next]_vars, NEW c \in Creators, SameCreator(c)
  PROVE  OwnDraft(c)'
<1>1. TypeOK /\ AsRegistered /\ OwnDraft(c)
  BY DraftsSplit DEF IInv
<1>2. Upcoming(c)' = Upcoming(c)
  BY UpcomingKept DEF SameCreator
<1>3. ASSUME \A b \in draft[c].new :
               /\ Numbered(b.feature, b.version - 1)'
               /\ RowsOf(b.feature, active)' = RowsOf(b.feature, active)
      PROVE  OwnDraft(c)'
  BY <1>1, <1>2, <1>3 DEF OwnDraft, SameCreator
<1>4. CASE batches' = batches /\ active' = active
  <2>1. \A b \in draft[c].new : Numbered(b.feature, b.version - 1)'
    BY <1>1, <1>4, NumberedKept DEF OwnDraft
  <2>2. \A f : RowsOf(f, active)' = RowsOf(f, active)
    BY <1>4 DEF RowsOf
  <2> QED
    BY <1>3, <2>1, <2>2
<1>5. ASSUME NEW d \in Creators, Commit(d) PROVE OwnDraft(c)'
  <2>1. CASE d = c
    <3>1. pc[c] = "sample" /\ pc'[c] = "idle"
      BY <1>1, <1>5, <2>1, OneRole DEF Commit, Ends, TypeOK
    <3> QED
      BY <3>1 DEF SameCreator
  <2>2. CASE d # c
    <3>1. \A b \in draft[c].new : \A a \in draft[d].new : a.feature # b.feature
      BY <2>2, DraftsSplit DEF IInv, Apart
    <3>2. \A b \in draft[c].new : Numbered(b.feature, b.version - 1)
      BY <1>1 DEF OwnDraft
    <3>3. \A b \in draft[c].new :
            /\ Numbered(b.feature, b.version - 1)'
            /\ RowsOf(b.feature, active)' = RowsOf(b.feature, active)
      BY <1>5, <3>1, <3>2, CommitNumbers
    <3> QED
      BY <1>3, <3>3
  <2> QED
    BY <2>1, <2>2
<1> QED
  BY <1>4, <1>5, OthersKeepTables

\* A creation only inserts a row of a feature when no other has one that is not committed.
LEMMA ApartPreserved ==
  ASSUME IInv, NEW c \in Creators, NEW d \in Creators \ {c}, SameCreator(d),
         \/ BeginCreation(c) \/ EnsureSchemaVersion(c) \/ Sample(c) \/ ReadVersion(c)
         \/ FindActive(c) \/ Deactivate(c) \/ Insert(c) \/ Commit(c)
         \/ Abort(c) \/ CrashCreator(c)
  PROVE  Apart(c, d)' /\ Apart(d, c)'
<1> SUFFICES Apart(c, d)'
  BY DEF Apart
<1>1. TypeOK /\ AsRegistered /\ Apart(c, d)
  BY DraftsSplit DEF IInv
<1>2. ASSUME draft'[c].new \subseteq draft[c].new PROVE Apart(c, d)'
  BY <1>1, <1>2 DEF Apart, SameCreator
<1>3. CASE BeginCreation(c) \/ Sample(c) \/ ReadVersion(c) \/ FindActive(c)
  BY <1>2, <1>3 DEF BeginCreation, Sample, ReadVersion, FindActive, creatorVars
<1>4. CASE EnsureSchemaVersion(c) \/ Deactivate(c)
  <2>1. \E off, stored : \/ draft' = [draft EXCEPT ![c].schema = stored]
                          \/ draft' = [draft EXCEPT ![c].off = off]
    BY <1>4 DEF EnsureSchemaVersion, Deactivate
  <2>2. draft'[c].new = draft[c].new
    BY <1>1, <2>1 DEF TypeOK
  <2> QED
    BY <1>2, <2>2
<1>5. CASE Commit(c) \/ Abort(c) \/ CrashCreator(c)
  BY <1>1, <1>2, <1>5 DEF Commit, Abort, CrashCreator, RollsBack, Forgets, NoDraft, TypeOK
<1>6. CASE Insert(c)
  <2>1. PICK f \in Upcoming(c) :
          /\ ~Violates(c, f)
          /\ draft' = [draft EXCEPT ![c].new = @ \cup
                         {[feature |-> f, version |-> pick[c].version, basis |-> pick[c].basis]}]
    BY <1>6 DEF Insert
  <2>2. \A b \in draft[d].new : b.feature # f
    BY <1>6, <2>1 DEF Insert, Runs, WaitsFor, RowsOf
  <2>3. draft'[c].new = draft[c].new \cup
          {[feature |-> f, version |-> pick[c].version, basis |-> pick[c].basis]}
    BY <1>1, <2>1 DEF TypeOK
  <2> QED
    BY <1>1, <2>2, <2>3 DEF Apart, SameCreator
<1> QED
  BY <1>3, <1>4, <1>5, <1>6

LEMMA DraftsPreserved ==
  ASSUME IInv, [Next]_vars
  PROVE  Drafts'
<1>1. TypeOK /\ Drafts
  BY DEF IInv
<1>2. \A c \in Creators : OwnDraft(c) /\ \A d \in Creators \ {c} : Apart(c, d)
  BY <1>1, DraftsSplit
<1>3. ASSUME NEW a \in Creators,
             \/ BeginCreation(a) \/ EnsureSchemaVersion(a) \/ Sample(a) \/ ReadVersion(a)
             \/ FindActive(a) \/ Deactivate(a) \/ Insert(a) \/ Commit(a)
             \/ Abort(a) \/ CrashCreator(a)
      PROVE  \A c \in Creators : OwnDraft(c)' /\ \A d \in Creators \ {c} : Apart(c, d)'
  <2>1. \A d \in Creators \ {a} : SameCreator(d)
    BY <1>1, <1>3, CreationSteps
  <2>2. \A c \in Creators : OwnDraft(c)'
    BY <1>3, <2>1, OwnDraftsPreserved, OtherDraftsPreserved
  <2>3. \A d \in Creators \ {a} : Apart(a, d)' /\ Apart(d, a)'
    BY <1>3, <2>1, ApartPreserved
  <2>4. \A c \in Creators \ {a} : \A d \in Creators \ {a, c} : Apart(c, d)'
    BY <1>2, <2>1 DEF Apart, SameCreator
  <2> QED
    BY <2>2, <2>3, <2>4
<1>4. ASSUME \A c \in Creators : SameCreator(c)
      PROVE  \A c \in Creators : OwnDraft(c)' /\ \A d \in Creators \ {c} : Apart(c, d)'
  <2>1. \A c \in Creators : OwnDraft(c)'
    BY <1>4, OtherDraftsPreserved
  <2>2. \A c \in Creators : \A d \in Creators \ {c} : Apart(c, d)'
    BY <1>2, <1>4 DEF Apart, SameCreator
  <2> QED
    BY <2>1, <2>2
<1>5. \A c \in Creators : OwnDraft(c)' /\ \A d \in Creators \ {c} : Apart(c, d)'
  BY <1>1, <1>3, <1>4, Steps, EvaluationSteps, OtherSteps
<1> QED
  BY <1>5 DEF Drafts, OwnDraft, Apart

-------------------------------------------------------------------------------
(***************************************************************************)
(* The stored schema.                                                      *)
(***************************************************************************)
\* Once it is stored it stays, and a commit stores the one the creation has read.
LEMMA StoredSchemaStays ==
  ASSUME IInv, [Next]_vars, schema # 0
  PROVE  schema' = schema
<1>1. ASSUME NEW d \in Creators, Commit(d) PROVE schema' = schema
  BY <1>1 DEF IInv, SchemaOnce, Commit, VisibleSchema
<1>2. ~Register
  BY DEF Register
<1> QED
  BY <1>1, <1>2, OthersKeepTables

\* A creation reads one schema all along.
LEMMA ReadsOneSchema ==
  ASSUME IInv, [Next]_vars, NEW c \in Creators, pc[c] \notin {"idle", "ensure"},
         draft'[c].schema = draft[c].schema
  PROVE  VisibleSchema(c)' = VisibleSchema(c)
<1>1. SchemaOnce
  BY DEF IInv
<1>2. ASSUME NEW d \in Creators, Commit(d) PROVE VisibleSchema(c)' = VisibleSchema(c)
  <2>1. schema' = VisibleSchema(d) /\ VisibleSchema(d) # 0 /\ VisibleSchema(c) # 0
    BY <1>1, <1>2 DEF SchemaOnce, Commit
  <2>2. CASE d = c
    <3>1. draft'[c].schema = 0
      BY <1>2, <2>2 DEF Commit, Forgets, NoDraft, IInv, TypeOK
    <3> QED
      BY <2>1, <2>2, <3>1 DEF VisibleSchema
  <2>3. CASE d # c
    BY <1>1, <2>1, <2>3 DEF VisibleSchema, SchemaOnce
  <2> QED
    BY <2>2, <2>3
<1>3. ~Register
  BY <1>1 DEF Register, SchemaOnce, VisibleSchema
<1> QED
  BY <1>2, <1>3, OthersKeepTables DEF VisibleSchema

\* The part of SchemaOnce that is about one creation.
OwnSchema(c) ==
  /\ pc[c] \notin {"idle", "ensure"} => VisibleSchema(c) # 0
  /\ \A b \in draft[c].new : b.feature = SchemaColumn => b.basis = {VisibleSchema(c)}
  /\ HasSample(c) /\ SchemaColumn \in Upcoming(c) => pick[c].basis = {VisibleSchema(c)}

\* A creation that goes on, by what it may change.
LEMMA OwnSchemaPreserved ==
  ASSUME IInv, [Next]_vars, NEW c \in Creators,
         \/ SameCreator(c)
         \/ BeginCreation(c) \/ EnsureSchemaVersion(c) \/ Sample(c) \/ ReadVersion(c)
         \/ FindActive(c) \/ Deactivate(c) \/ Insert(c) \/ Commit(c)
         \/ Abort(c) \/ CrashCreator(c)
  PROVE  OwnSchema(c)'
<1> USE OneRole DEF Goto
<1>1. TypeOK /\ AsRegistered /\ OwnSchema(c) /\ OwnDraft(c)
  BY DraftsSplit DEF IInv, SchemaOnce, OwnSchema
<1>2. ASSUME pc'[c] \in {"idle", "ensure"}, draft'[c] = NoDraft
      PROVE  OwnSchema(c)'
  BY <1>2 DEF OwnSchema, NoDraft, HasSample
<1>3. ASSUME pc[c] \notin {"idle", "ensure"}, draft'[c].schema = draft[c].schema,
             draft'[c].new = draft[c].new,
             HasSample(c)' /\ SchemaColumn \in Upcoming(c)' => pick'[c].basis = {VisibleSchema(c)}
      PROVE  OwnSchema(c)'
  <2>1. VisibleSchema(c)' = VisibleSchema(c)
    BY <1>3, ReadsOneSchema
  <2> QED
    BY <1>1, <1>3, <2>1 DEF OwnSchema
<1>4. CASE SameCreator(c)
  <2>1. Upcoming(c)' = Upcoming(c) /\ HasSample(c)' = HasSample(c)
    BY <1>4, UpcomingKept DEF SameCreator, HasSample
  <2>2. CASE pc[c] \in {"idle", "ensure"}
    BY <1>1, <1>2, <1>4, <2>2 DEF SameCreator, OwnDraft
  <2>3. CASE pc[c] \notin {"idle", "ensure"}
    BY <1>1, <1>3, <1>4, <2>1, <2>3 DEF SameCreator, OwnSchema
  <2> QED
    BY <2>2, <2>3
<1>5. CASE BeginCreation(c)
  <2>1. pc'[c] = "ensure" /\ draft'[c] = NoDraft
    BY <1>1, <1>5 DEF BeginCreation, Begin, creatorVars, OwnDraft, TypeOK
  <2> QED
    BY <1>2, <2>1
<1>6. CASE EnsureSchemaVersion(c)
  <2>1. /\ pc'[c] = "sample" /\ draft[c] = NoDraft /\ schema' = schema
        /\ draft'[c] = [draft[c] EXCEPT !.schema = IF schema = 0 THEN release ELSE 0]
    BY <1>1, <1>6 DEF EnsureSchemaVersion, OwnDraft, tables, TypeOK
  <2>2. draft'[c].new = {} /\ draft'[c].schema = IF schema = 0 THEN release ELSE 0
    BY <2>1 DEF NoDraft
  <2>3. release # 0
    BY <1>1, LimitAssumption DEF TypeOK
  <2>4. VisibleSchema(c)' # 0
    BY <2>1, <2>2, <2>3 DEF VisibleSchema
  <2> QED
    BY <2>1, <2>2, <2>4 DEF OwnSchema, HasSample
<1>7. CASE Sample(c)
  <2>1. PICK f \in Upcoming(c) : Skips(c, f) \/ \E basis : Takes(c, f, basis)
    BY <1>7, <1>1, SampleSteps DEF IInv
  <2>2. pc[c] = "sample" /\ draft' = draft
    BY <1>7 DEF Sample
  <2>3. CASE Skips(c, f)
    BY <1>3, <2>2, <2>3 DEF Skips, HasSample
  <2>4. ASSUME NEW basis, Takes(c, f, basis) PROVE OwnSchema(c)'
    <3>1. Upcoming(c)' = {f} /\ pick'[c].basis = basis
      <4>1. done' = done /\ pick' = [pick EXCEPT ![c].basis = basis]
        BY <2>4 DEF Takes
      <4>2. Upcoming(c)' = Upcoming(c) /\ Upcoming(c) = {f}
        BY <1>1, <2>1, <4>1, UpcomingNext, UpcomingKept
      <4> QED
        BY <1>1, <4>1, <4>2 DEF TypeOK
    <3>2. f = SchemaColumn => basis = {VisibleSchema(c)}
      BY <2>4 DEF Takes
    <3> QED
      BY <1>3, <2>2, <3>1, <3>2
  <2> QED
    BY <2>1, <2>3, <2>4
<1>8. CASE ReadVersion(c) \/ FindActive(c)
  <2>1. /\ pc[c] \in {"version", "target"} /\ draft' = draft /\ done' = done
        /\ \E v : pick' = [pick EXCEPT ![c].version = v] \/ pick' = [pick EXCEPT ![c].target = v]
    BY <1>8 DEF ReadVersion, FindActive
  <2>2. pick'[c].basis = pick[c].basis /\ Upcoming(c)' = Upcoming(c)
    BY <1>1, <2>1, UpcomingKept DEF TypeOK
  <2> QED
    BY <1>1, <1>3, <2>1, <2>2 DEF OwnSchema, HasSample
<1>9. CASE Deactivate(c)
  <2>1. /\ pc[c] = "deactivate" /\ pick' = pick /\ done' = done
        /\ \E v : draft' = [draft EXCEPT ![c].off = v]
    BY <1>9 DEF Deactivate
  <2>2. /\ draft'[c].schema = draft[c].schema /\ draft'[c].new = draft[c].new
        /\ Upcoming(c)' = Upcoming(c)
    BY <1>1, <2>1, UpcomingKept DEF TypeOK
  <2> QED
    BY <1>1, <1>3, <2>1, <2>2 DEF OwnSchema, HasSample
<1>10. CASE Insert(c)
  <2>1. PICK f \in Upcoming(c) :
          draft' = [draft EXCEPT ![c].new = @ \cup
                      {[feature |-> f, version |-> pick[c].version, basis |-> pick[c].basis]}]
    BY <1>10 DEF Insert
  <2>2. /\ draft'[c].schema = draft[c].schema /\ pc[c] = "insert" /\ pc'[c] = "sample"
        /\ draft'[c].new = draft[c].new \cup
             {[feature |-> f, version |-> pick[c].version, basis |-> pick[c].basis]}
    BY <1>1, <1>10, <2>1 DEF Insert, TypeOK
  <2>3. VisibleSchema(c)' = VisibleSchema(c) /\ VisibleSchema(c) # 0
    BY <1>1, <2>2, ReadsOneSchema DEF OwnSchema
  <2>4. f = SchemaColumn => pick[c].basis = {VisibleSchema(c)}
    BY <1>1, <2>1, <2>2 DEF OwnSchema, HasSample
  <2> QED
    BY <1>1, <2>2, <2>3, <2>4 DEF OwnSchema, HasSample
<1>11. CASE Commit(c) \/ Abort(c) \/ CrashCreator(c)
  <2>1. pc'[c] = "idle" /\ draft'[c] = NoDraft
    BY <1>1, <1>11 DEF Commit, Abort, CrashCreator, RollsBack, Forgets, Ends, TypeOK
  <2> QED
    BY <1>2, <2>1
<1> QED
  BY <1>4, <1>5, <1>6, <1>7, <1>8, <1>9, <1>10, <1>11

\* At most one creation writes the schema, while it is not stored.
LEMMA OneWritesSchema ==
  ASSUME IInv, [Next]_vars, NEW c \in Creators, draft'[c].schema # 0
  PROVE  schema' = 0 /\ \A d \in Creators \ {c} : draft'[d].schema = 0
<1>1. TypeOK /\ SchemaOnce
  BY DEF IInv
<1>2. CASE draft' = draft /\ schema' = schema
  BY <1>1, <1>2 DEF SchemaOnce
<1>3. ASSUME NEW a \in Creators, draft'[a].schema \in {0, draft[a].schema},
             \A d \in Creators \ {a} : draft'[d] = draft[d], schema' = schema
      PROVE  schema' = 0 /\ \A d \in Creators \ {c} : draft'[d].schema = 0
  BY <1>1, <1>3 DEF SchemaOnce
<1>4. ASSUME NEW a \in Creators,
             \/ BeginCreation(a) \/ Sample(a) \/ ReadVersion(a) \/ FindActive(a)
      PROVE  draft' = draft /\ schema' = schema
  BY <1>4 DEF BeginCreation, Sample, ReadVersion, FindActive, creatorVars, tables
<1>5. ASSUME NEW a \in Creators, EnsureSchemaVersion(a)
      PROVE  schema' = 0 /\ \A d \in Creators \ {c} : draft'[d].schema = 0
  <2>1. /\ schema' = schema /\ \A d \in Creators \ {a} : draft'[d] = draft[d]
        /\ draft'[a].schema = IF schema = 0 THEN release ELSE 0
    BY <1>1, <1>5 DEF EnsureSchemaVersion, tables, TypeOK
  <2>2. schema = 0 => \A d \in Creators \ {a} : draft[d].schema = 0
    BY <1>5 DEF EnsureSchemaVersion, Runs, WaitsFor
  <2>3. schema = 0 /\ c = a
    BY <1>1, <2>1, <2>2 DEF SchemaOnce
  <2> QED
    BY <2>1, <2>2, <2>3
<1>6. ASSUME NEW a \in Creators, Deactivate(a) \/ Insert(a) \/ Abort(a) \/ CrashCreator(a)
      PROVE  schema' = 0 /\ \A d \in Creators \ {c} : draft'[d].schema = 0
  <2>1. /\ schema' = schema
        /\ \/ \E v : draft' = [draft EXCEPT ![a].off = v] \/ draft' = [draft EXCEPT ![a].new = v]
           \/ draft' = [draft EXCEPT ![a] = NoDraft]
    BY <1>6 DEF Deactivate, Insert, Abort, CrashCreator, RollsBack, Forgets, tables
  <2>2. draft'[a].schema \in {0, draft[a].schema} /\ \A d \in Creators \ {a} : draft'[d] = draft[d]
    BY <1>1, <2>1 DEF NoDraft, TypeOK
  <2> QED
    BY <1>3, <2>1, <2>2
<1>7. ASSUME NEW a \in Creators, Commit(a) PROVE FALSE
  <2>1. draft'[a].schema = 0 /\ \A d \in Creators \ {a} : draft'[d] = draft[d]
    BY <1>1, <1>7 DEF Commit, Forgets, NoDraft, TypeOK
  <2>2. VisibleSchema(a) # 0
    BY <1>1, <1>7 DEF Commit, SchemaOnce
  <2> QED
    BY <1>1, <2>1, <2>2 DEF SchemaOnce, VisibleSchema
<1>8. ASSUME NEW e \in Evaluators,
             \/ BeginEvaluation(e) \/ ReadBaseline(e) \/ CompareSchema(e) \/ CompareColumn(e)
             \/ FinishEvaluation(e) \/ CrashEvaluator(e)
      PROVE  draft' = draft /\ schema' = schema
  BY <1>8 DEF BeginEvaluation, ReadBaseline, CompareSchema, CompareColumn, FinishEvaluation,
              CrashEvaluator, creatorVars, tables
<1>9. ASSUME (\E o \in Observations : Ingest(o)) \/ Release \/ UNCHANGED vars
      PROVE  draft' = draft /\ schema' = schema
  BY <1>9 DEF Ingest, Release, vars, creatorVars, tables
<1>10. ~Register
  BY DEF Register, creatorVars
<1> QED
  BY <1>2, <1>4, <1>5, <1>6, <1>7, <1>8, <1>9, <1>10, Steps

LEMMA SchemaOncePreserved ==
  ASSUME IInv, [Next]_vars
  PROVE  SchemaOnce'
<1>1. TypeOK /\ SchemaOnce
  BY DEF IInv
<1>2. \A b \in baselines' : b.feature = SchemaColumn => schema' # 0 /\ b.basis = {schema'}
  <2>1. ASSUME NEW c \in Creators, Commit(c),
               NEW b \in baselines', b.feature = SchemaColumn
        PROVE  schema' # 0 /\ b.basis = {schema'}
    <3>1. /\ baselines' = baselines \cup draft[c].new
          /\ schema' = VisibleSchema(c) /\ VisibleSchema(c) # 0
      BY <1>1, <2>1, CommitNumbers DEF Commit, SchemaOnce
    <3>2. CASE b \in baselines
      BY <1>1, <2>1, <3>2, StoredSchemaStays DEF SchemaOnce
    <3>3. CASE b \in draft[c].new
      BY <1>1, <2>1, <3>1, <3>3 DEF SchemaOnce
    <3> QED
      BY <2>1, <3>1, <3>2, <3>3
  <2>2. CASE batches' = batches /\ schema' = schema
    BY <1>1, <2>2, BaselinesKept DEF SchemaOnce
  <2>3. CASE batches' = batches /\ Register
    BY <1>1, <2>3, BaselinesKept DEF SchemaOnce, Register
  <2> QED
    BY <2>1, <2>2, <2>3, OthersKeepTables
<1>3. \A c \in Creators : OwnSchema(c)'
  BY <1>1, OwnSchemaPreserved, Steps, CreationSteps, EvaluationSteps, OtherSteps
<1>4. \A c \in Creators : draft'[c].schema # 0 =>
        schema' = 0 /\ \A d \in Creators \ {c} : draft'[d].schema = 0
  BY OneWritesSchema
<1> QED
  BY <1>2, <1>3, <1>4 DEF SchemaOnce, OwnSchema

-------------------------------------------------------------------------------
(***************************************************************************)
(* The samples.                                                            *)
(***************************************************************************)
\* The part of Samples that is about one creation.
OwnSamples(c) ==
  /\ \A b \in draft[c].new : b.feature \in Columns => IsSample(b.basis)
  /\ HasSample(c) => \A f \in Upcoming(c) \cap Columns : IsSample(pick[c].basis)

LEMMA OwnSamplesPreserved ==
  ASSUME IInv, NEW c \in Creators,
         \/ SameCreator(c)
         \/ BeginCreation(c) \/ EnsureSchemaVersion(c) \/ Sample(c) \/ ReadVersion(c)
         \/ FindActive(c) \/ Deactivate(c) \/ Insert(c) \/ Commit(c)
         \/ Abort(c) \/ CrashCreator(c)
  PROVE  OwnSamples(c)'
<1> USE OneRole DEF Goto
<1>1. TypeOK /\ AsRegistered /\ OwnSamples(c)
  BY DEF IInv, Samples, OwnSamples
<1>2. ASSUME draft'[c].new = draft[c].new,
             HasSample(c)' => \A f \in Upcoming(c)' \cap Columns : IsSample(pick'[c].basis)
      PROVE  OwnSamples(c)'
  BY <1>1, <1>2 DEF OwnSamples, IsSample
<1>3. ASSUME draft'[c].new = draft[c].new, pick'[c].basis = pick[c].basis, done'[c] = done[c],
             HasSample(c)' => HasSample(c)
      PROVE  OwnSamples(c)'
  <2>1. Upcoming(c)' = Upcoming(c)
    BY <1>3, UpcomingKept
  <2> QED
    BY <1>1, <1>2, <1>3, <2>1 DEF OwnSamples
<1>4. CASE SameCreator(c)
  BY <1>3, <1>4 DEF SameCreator, HasSample
<1>5. CASE BeginCreation(c) \/ EnsureSchemaVersion(c)
  <2>1. /\ pc'[c] \in {"ensure", "sample"}
        /\ draft' = draft \/ \E v : draft' = [draft EXCEPT ![c].schema = v]
    BY <1>1, <1>5 DEF BeginCreation, Begin, EnsureSchemaVersion, creatorVars, TypeOK
  <2>2. draft'[c].new = draft[c].new
    BY <1>1, <2>1 DEF TypeOK
  <2> QED
    BY <1>2, <2>1, <2>2 DEF HasSample
<1>6. CASE Sample(c)
  <2>1. PICK f \in Upcoming(c) : Skips(c, f) \/ \E basis : Takes(c, f, basis)
    BY <1>6, <1>1, SampleSteps DEF IInv
  <2>2. pc[c] = "sample" /\ draft' = draft
    BY <1>6 DEF Sample
  <2>3. CASE Skips(c, f)
    BY <1>2, <2>2, <2>3 DEF Skips, HasSample
  <2>4. ASSUME NEW basis, Takes(c, f, basis) PROVE OwnSamples(c)'
    <3>1. done' = done /\ pick' = [pick EXCEPT ![c].basis = basis]
      BY <2>4 DEF Takes
    <3>2. Upcoming(c)' = {f} /\ pick'[c].basis = basis
      <4>1. Upcoming(c)' = Upcoming(c) /\ Upcoming(c) = {f}
        BY <1>1, <2>1, <3>1, UpcomingNext, UpcomingKept
      <4> QED
        BY <1>1, <3>1, <4>1 DEF TypeOK
    <3>3. f \in Columns => IsSample(basis)
      <4>1. SUFFICES ASSUME f \in Columns PROVE IsSample(basis)
        OBVIOUS
      <4>2. f # SchemaColumn
        BY <4>1, RegistryAssumption
      <4>3. basis \in Oldest(f) /\ Cardinality(basis) >= MinimumSamples
        BY <2>4, <4>2 DEF Takes
      <4> QED
        BY <1>1, <4>1, <4>3, OldestIsSample DEF IInv, Samples
    <3>4. \A g \in Upcoming(c)' \cap Columns : IsSample(pick'[c].basis)
      BY <3>2, <3>3
    <3> QED
      BY <1>2, <2>2, <3>4
  <2> QED
    BY <2>1, <2>3, <2>4
<1>7. CASE ReadVersion(c) \/ FindActive(c)
  <2>1. /\ pc[c] \in {"version", "target"} /\ draft' = draft /\ done' = done
        /\ \E v : pick' = [pick EXCEPT ![c].version = v] \/ pick' = [pick EXCEPT ![c].target = v]
    BY <1>7 DEF ReadVersion, FindActive
  <2>2. pick'[c].basis = pick[c].basis
    BY <1>1, <2>1 DEF TypeOK
  <2> QED
    BY <1>3, <2>1, <2>2 DEF HasSample
<1>8. CASE Deactivate(c)
  <2>1. /\ pc[c] = "deactivate" /\ pick' = pick /\ done' = done
        /\ \E v : draft' = [draft EXCEPT ![c].off = v]
    BY <1>8 DEF Deactivate
  <2>2. draft'[c].new = draft[c].new
    BY <1>1, <2>1 DEF TypeOK
  <2> QED
    BY <1>3, <2>1, <2>2 DEF HasSample
<1>9. CASE Insert(c)
  <2>1. PICK f \in Upcoming(c) :
          draft' = [draft EXCEPT ![c].new = @ \cup
                      {[feature |-> f, version |-> pick[c].version, basis |-> pick[c].basis]}]
    BY <1>9 DEF Insert
  <2>2. /\ pc[c] = "insert" /\ pc'[c] = "sample"
        /\ draft'[c].new = draft[c].new \cup
             {[feature |-> f, version |-> pick[c].version, basis |-> pick[c].basis]}
    BY <1>1, <1>9, <2>1 DEF Insert, TypeOK
  <2>3. f \in Columns => IsSample(pick[c].basis)
    BY <1>1, <2>1, <2>2 DEF OwnSamples, HasSample
  <2> QED
    BY <1>1, <2>2, <2>3 DEF OwnSamples, HasSample, IsSample
<1>10. CASE Commit(c) \/ Abort(c) \/ CrashCreator(c)
  <2>1. pc'[c] = "idle" /\ draft'[c].new = {}
    BY <1>1, <1>10 DEF Commit, Abort, CrashCreator, RollsBack, Forgets, Ends, NoDraft, TypeOK
  <2> QED
    BY <2>1 DEF OwnSamples, HasSample
<1> QED
  BY <1>4, <1>5, <1>6, <1>7, <1>8, <1>9, <1>10

LEMMA SamplesPreserved ==
  ASSUME IInv, [Next]_vars
  PROVE  Samples'
<1>1. TypeOK /\ Samples
  BY DEF IInv
<1>2. \A col \in Columns : IsFiniteSet(observed'[col])
  <2>1. ASSUME NEW o \in Observations, Ingest(o), NEW col \in Columns PROVE IsFiniteSet(observed'[col])
    <3>1. observed'[col] = observed[col] \/ observed'[col] = observed[col] \cup {o}
      BY <2>1 DEF Ingest
    <3> QED
      BY <1>1, <3>1, FS_AddElement DEF Samples
  <2>2. (\E o \in Observations : Ingest(o)) \/ observed' = observed
    BY <1>1, Steps, CreationSteps, EvaluationSteps DEF Register, Release, vars, tables
  <2> QED
    BY <1>1, <2>1, <2>2 DEF Samples
<1>3. \A b \in baselines' : b.feature \in Columns => IsSample(b.basis)
  <2>1. ASSUME NEW c \in Creators, Commit(c)
        PROVE  \A b \in baselines' : b.feature \in Columns => IsSample(b.basis)
    BY <1>1, <2>1, CommitNumbers DEF Samples
  <2>2. CASE batches' = batches
    BY <1>1, <2>2, BaselinesKept DEF Samples
  <2> QED
    BY <2>1, <2>2, OthersKeepTables
<1>4. \A c \in Creators : OwnSamples(c)'
  BY <1>1, OwnSamplesPreserved, Steps, CreationSteps, EvaluationSteps, OtherSteps
<1> QED
  BY <1>2, <1>3, <1>4 DEF Samples, OwnSamples, IsSample

-------------------------------------------------------------------------------
(***************************************************************************)
(* What the evaluations say.                                               *)
(***************************************************************************)
\* A feature with rows has an active one, the last; one without has none.
LEMMA LastIsActive ==
  ASSUME IInv, NEW f \in Features
  PROVE  /\ RowsOf(f, active) = {} => RowsOf(f, baselines) = {}
         /\ \A b \in RowsOf(f, active) : \A a \in RowsOf(f, baselines) : a.version <= b.version
<1>1. PICK n \in Nat : Numbered(f, n)
  BY DEF IInv, Numbering
<1>2. active \subseteq baselines
  BY DEF IInv, TypeOK
<1>3. n = 0 \/ \E b \in RowsOf(f, baselines) : b.version = n /\ b \in active
  BY <1>1 DEF Numbered
<1>4. n = 0 => RowsOf(f, baselines) = {}
  BY <1>1 DEF Numbered
<1>5. RowsOf(f, active) = {} => RowsOf(f, baselines) = {}
  BY <1>3, <1>4 DEF RowsOf
<1>6. ASSUME NEW b \in RowsOf(f, active), NEW a \in RowsOf(f, baselines)
      PROVE  a.version <= b.version
  <2>1. b \in RowsOf(f, baselines) /\ b \in active
    BY <1>2 DEF RowsOf
  <2>2. b.version = n /\ a.version \in 1..n
    BY <1>1, <2>1 DEF Numbered
  <2> QED
    BY <2>2
<1> QED
  BY <1>5, <1>6

\* A feature that has a baseline keeps having one.
LEMMA ActiveStays ==
  ASSUME IInv, [Next]_vars, NEW f \in Features, RowsOf(f, active) # {}
  PROVE  RowsOf(f, active)' # {}
<1>1. PICK n \in Nat : Numbered(f, n)
  BY DEF IInv, Numbering
<1>2. PICK b \in RowsOf(f, baselines) : TRUE
  BY DEF IInv, TypeOK, RowsOf
<1>3. n # 0
  BY <1>1, <1>2 DEF Numbered
<1>4. PICK m \in Nat : Numbered(f, m)' /\ n <= m
  BY <1>1, VersionsGrow
<1>5. m \in 1..m
  BY <1>3, <1>4
<1>6. \E a \in RowsOf(f, baselines)' : a \in active'
  BY <1>4, <1>5 DEF Numbered
<1> QED
  BY <1>6 DEF RowsOf

\* No row that is being committed has been named by a result.
LEMMA NewIsUnnamed ==
  ASSUME IInv, NEW c \in Creators, NEW b \in draft[c].new, NEW r, NEW h, ResultIsTrue(r, h)
  PROVE  ~Names(r, b)
<1>1. /\ b.version \in Nat /\ b.version # 0
      /\ Numbered(b.feature, b.version - 1)
  BY RowFields DEF IInv, TypeOK, Drafts
<1>2. ASSUME Names(r, b) PROVE FALSE
  <2>1. PICK a \in baselines : Names(r, a)
    BY <1>1, <1>2 DEF ResultIsTrue, Names
  <2>2. a \in RowsOf(b.feature, baselines) /\ a.version = b.version
    BY <1>2, <2>1 DEF Names, RowsOf
  <2>3. a.version \in 1..(b.version - 1)
    BY <1>1, <2>2 DEF Numbered
  <2> QED
    BY <1>1, <2>2, <2>3
<1> QED
  BY <1>2

\* What is true of results stays true whatever is committed.
LEMMA ResultsStayTrue ==
  ASSUME IInv, [Next]_vars
  PROVE  /\ \A r, h : ResultIsTrue(r, h) => ResultIsTrue(r, h)'
         /\ \A r, h, f, v : ResultIsTrue(r, h) /\ NothingLater(r, f, v) => NothingLater(r, f, v)'
         /\ \A rs, h : ResultsAreTrue(rs, h) => ResultsAreTrue(rs, h)'
<1>1. TypeOK
  BY DEF IInv
<1>2. baselines \subseteq baselines'
  <2>1. ASSUME NEW c \in Creators, Commit(c) PROVE baselines \subseteq baselines'
    BY <2>1, CommitNumbers
  <2> QED
    BY <2>1, BaselinesKept, OthersKeepTables
<1>3. ASSUME NEW r, NEW h, ResultIsTrue(r, h) PROVE ResultIsTrue(r, h)'
  BY <1>2, <1>3 DEF ResultIsTrue
<1>4. ASSUME NEW r, NEW h, NEW f, NEW v, ResultIsTrue(r, h), NothingLater(r, f, v)
      PROVE  NothingLater(r, f, v)'
  <2>1. ASSUME NEW c \in Creators, Commit(c) PROVE NothingLater(r, f, v)'
    <3>1. /\ DOMAIN batches' = DOMAIN batches \cup {Len(batches) + 1}
          /\ \A k \in DOMAIN batches : batches'[k] = batches[k]
          /\ batches'[Len(batches) + 1] = draft[c].new
      BY <1>1, <2>1, BaselinesAppended DEF TypeOK, Commit
    <3>2. \A b \in draft[c].new : ~Names(r, b)
      BY <1>4, NewIsUnnamed
    <3> QED
      BY <1>4, <3>1, <3>2 DEF NothingLater
  <2> QED
    BY <1>4, <2>1, OthersKeepTables DEF NothingLater
<1>5. ASSUME NEW rs, NEW h, ResultsAreTrue(rs, h) PROVE ResultsAreTrue(rs, h)'
  <2>1. \A i \in DOMAIN rs : ResultIsTrue(rs[i], h)'
    BY <1>3, <1>5 DEF ResultsAreTrue
  <2>2. \A i, j \in DOMAIN rs : i < j => NothingLater(rs[i], rs[j].feature, rs[j].version)'
    BY <1>4, <1>5 DEF ResultsAreTrue
  <2> QED
    BY <2>1, <2>2 DEF ResultsAreTrue
<1> QED
  BY <1>3, <1>4, <1>5

\* One more result, of a feature the earlier ones' creations had written nothing later of.
LEMMA OneMoreResult ==
  ASSUME NEW rs \in Seq(Result), NEW h, NEW r \in Result,
         ResultsAreTrue(rs, h), ResultIsTrue(r, h),
         \A i \in DOMAIN rs : NothingLater(rs[i], r.feature, r.version)
  PROVE  /\ ResultsAreTrue(Append(rs, r), h)
         /\ \A f : (\E i \in DOMAIN rs : rs[i].feature = f) \/ f = r.feature
                     => \E i \in DOMAIN Append(rs, r) : Append(rs, r)[i].feature = f
<1>1. /\ Len(rs) \in Nat /\ DOMAIN rs = 1..Len(rs)
      /\ DOMAIN Append(rs, r) = 1..(Len(rs) + 1)
      /\ \A i \in 1..Len(rs) : Append(rs, r)[i] = rs[i]
      /\ Append(rs, r)[Len(rs) + 1] = r
  BY AppendProperties, LenProperties
<1> DEFINE all == Append(rs, r)
<1>2. \A i \in DOMAIN all :
        (i \in DOMAIN rs /\ all[i] = rs[i]) \/ (i = Len(rs) + 1 /\ all[i] = r)
  BY <1>1
<1> HIDE DEF all
<1>3. \A i \in DOMAIN all : ResultIsTrue(all[i], h)
  BY <1>2 DEF ResultsAreTrue
<1>4. ASSUME NEW i \in DOMAIN all, NEW j \in DOMAIN all, i < j
      PROVE  NothingLater(all[i], all[j].feature, all[j].version)
  <2>1. i \in DOMAIN rs /\ all[i] = rs[i]
    BY <1>1, <1>2, <1>4
  <2> QED
    BY <1>2, <1>4, <2>1 DEF ResultsAreTrue
<1>5. \A f : (\E i \in DOMAIN rs : rs[i].feature = f) \/ f = r.feature
               => \E i \in DOMAIN all : all[i].feature = f
  BY <1>1 DEF all
<1> QED
  BY <1>3, <1>4, <1>5 DEF ResultsAreTrue, all

\* The part of Evaluating that is about one evaluation.
Truthful(e) ==
  /\ pc[e] = "idle" => results[e] = <<>>
  /\ ResultsAreTrue(results[e], had[e])
  /\ \A f \in had[e] : RowsOf(f, active) # {}
  /\ \A f \in done[e] : \E i \in DOMAIN results[e] : results[e][i].feature = f
  /\ pc[e] = "compare" =>
       \A b \in found[e] :
         /\ b.feature \in Upcoming(e)
         /\ \A i \in DOMAIN results[e] : NothingLater(results[e][i], b.feature, b.version)

\* An evaluation stays truthful whatever the others do.
LEMMA StaysTruthful ==
  ASSUME IInv, [Next]_vars, NEW e \in Evaluators, SameEvaluator(e)
  PROVE  Truthful(e)'
<1>1. Truthful(e) /\ had[e] \subseteq Features
  BY DEF IInv, Evaluating, Truthful, TypeOK
<1>2. PICK rs, h : rs = results[e] /\ h = had[e] /\ rs = results'[e] /\ h = had'[e]
  BY DEF SameEvaluator
<1>3. Upcoming(e)' = Upcoming(e)
  BY UpcomingKept DEF SameEvaluator
<1>4. ResultsAreTrue(rs, h)'
  BY <1>1, <1>2, ResultsStayTrue DEF Truthful
<1>5. \A f \in h : RowsOf(f, active)' # {}
  BY <1>1, <1>2, ActiveStays DEF Truthful
<1>6. ASSUME pc'[e] = "compare", NEW b \in found'[e]
      PROVE  b.feature \in Upcoming(e)' /\ \A i \in DOMAIN rs : NothingLater(rs[i], b.feature, b.version)'
  <2>1. b \in found[e] /\ pc[e] = "compare"
    BY <1>6 DEF SameEvaluator
  <2>2. \A i \in DOMAIN rs : NothingLater(rs[i], b.feature, b.version) /\ ResultIsTrue(rs[i], h)
    BY <1>1, <1>2, <2>1 DEF Truthful, ResultsAreTrue
  <2>3. \A i \in DOMAIN rs : NothingLater(rs[i], b.feature, b.version)'
    BY <2>2, ResultsStayTrue
  <2> QED
    BY <1>1, <1>3, <2>1, <2>3 DEF Truthful
<1>7. /\ pc'[e] = "idle" => rs = <<>>
      /\ \A f \in done'[e] : \E i \in DOMAIN rs : rs[i].feature = f
  BY <1>1, <1>2 DEF SameEvaluator, Truthful
<1> QED
  BY <1>2, <1>4, <1>5, <1>6, <1>7 DEF Truthful

\* A step of an evaluation records what is true.
LEMMA TruthfulPreserved ==
  ASSUME IInv, NEW e \in Evaluators,
         \/ BeginEvaluation(e) \/ ReadBaseline(e) \/ CompareSchema(e) \/ CompareColumn(e)
         \/ FinishEvaluation(e) \/ CrashEvaluator(e)
  PROVE  Truthful(e)'
<1> USE OneRole DEF Goto
<1>1. TypeOK /\ AsRegistered /\ Truthful(e)
  BY DEF IInv, Evaluating, Truthful
<1>2. batches' = batches /\ active' = active /\ baselines' = baselines
  BY <1>1, EvaluationSteps, BaselinesKept DEF tables
<1>3. /\ \A f : RowsOf(f, active)' = RowsOf(f, active)
      /\ \A r, f, v : NothingLater(r, f, v)' = NothingLater(r, f, v)
      /\ \A r, h : ResultIsTrue(r, h)' = ResultIsTrue(r, h)
  BY <1>2 DEF RowsOf, NothingLater, ResultIsTrue
<1>4. \A rs, h : ResultsAreTrue(rs, h)' = ResultsAreTrue(rs, h)
  BY <1>3 DEF ResultsAreTrue
<1>5. ASSUME results'[e] = <<>>, pc'[e] # "compare", done'[e] = {}, \A f \in had'[e] : RowsOf(f, active) # {}
      PROVE  Truthful(e)'
  BY <1>3, <1>4, <1>5 DEF Truthful, ResultsAreTrue
<1>6. ASSUME NEW f \in Features, NEW outcome \in Outcome, NEW version \in Nat,
             NEW current \in SUBSET Observations, Records(e, f, outcome, version, current),
             had'[e] = had[e], pc'[e] = "baseline",
             ResultIsTrue([feature |-> f, version |-> version, outcome |-> outcome, current |-> current], had[e]),
             \A i \in DOMAIN results[e] : NothingLater(results[e][i], f, version)
      PROVE  Truthful(e)'
  <2> DEFINE r == [feature |-> f, version |-> version, outcome |-> outcome, current |-> current]
  <2>1. r \in Result /\ r.feature = f /\ r.version = version
    BY DEF Result
  <2>2. results'[e] = Append(results[e], r) /\ done'[e] = done[e] \cup {f} /\ results[e] \in Seq(Result)
    BY <1>1, <1>6 DEF Records, TypeOK
  <2>3. ResultIsTrue(r, had[e])
    BY <1>6
  <2> HIDE DEF r
  <2>4. /\ ResultsAreTrue(results'[e], had[e])
        /\ \A g : (\E i \in DOMAIN results[e] : results[e][i].feature = g) \/ g = f
                    => \E i \in DOMAIN results'[e] : results'[e][i].feature = g
    BY <1>1, <1>6, <2>1, <2>2, <2>3, OneMoreResult DEF Truthful
  <2>5. \A g \in done'[e] : \E i \in DOMAIN results'[e] : results'[e][i].feature = g
    BY <1>1, <2>2, <2>4 DEF Truthful
  <2> QED
    BY <1>1, <1>3, <1>4, <1>6, <2>4, <2>5 DEF Truthful
<1>7. CASE BeginEvaluation(e)
  <2>1. /\ results'[e] = <<>> /\ pc'[e] = "baseline" /\ done'[e] = {}
        /\ had'[e] = {b.feature : b \in active}
    BY <1>1, <1>7 DEF BeginEvaluation, Begin, Truthful, AsRegistered, TypeOK
  <2> QED
    BY <1>5, <2>1 DEF RowsOf
<1>8. CASE ReadBaseline(e)
  <2>1. PICK f \in Upcoming(e) :
          \/ /\ ActiveBaseline(f) = {}
             /\ Records(e, f, "BASELINE_UNAVAILABLE", 0, {})
             /\ UNCHANGED <<pc, found>>
          \/ \E b \in ActiveBaseline(f) :
               /\ found' = [found EXCEPT ![e] = {b}]
               /\ Goto(e, "compare")
               /\ UNCHANGED <<results, done>>
    BY <1>8 DEF ReadBaseline
  <2>2. f \in Features /\ pc[e] = "baseline" /\ had' = had
    BY <1>1, <1>8, <2>1, UpcomingNext DEF ReadBaseline
  <2>3. ASSUME ActiveBaseline(f) = {}, Records(e, f, "BASELINE_UNAVAILABLE", 0, {}),
               UNCHANGED <<pc, found>>
        PROVE  Truthful(e)'
    <3>1. RowsOf(f, active) = {} /\ RowsOf(f, baselines) = {}
      BY <2>2, <2>3, LastIsActive DEF ActiveBaseline
    <3>2. f \notin had[e]
      BY <1>1, <3>1 DEF Truthful
    <3>3. ResultIsTrue([feature |-> f, version |-> 0, outcome |-> "BASELINE_UNAVAILABLE", current |-> {}],
                       had[e])
      BY <3>2 DEF ResultIsTrue
    <3>4. \A k \in DOMAIN batches : \A b \in batches[k] : b.feature # f
      BY <1>1, <3>1, InSomeBatch DEF TypeOK, RowsOf
    <3>5. \A i \in DOMAIN results[e] : NothingLater(results[e][i], f, 0)
      BY <3>4 DEF NothingLater
    <3> QED
      BY <1>6, <2>2, <2>3, <3>3, <3>5 DEF Outcome
  <2>4. ASSUME NEW b \in ActiveBaseline(f), found' = [found EXCEPT ![e] = {b}], Goto(e, "compare"),
               UNCHANGED <<results, done>>
        PROVE  Truthful(e)'
    <3>1. /\ found'[e] = {b} /\ pc'[e] = "compare" /\ b.feature = f
          /\ Upcoming(e)' = Upcoming(e)
      BY <1>1, <2>4, UpcomingKept DEF ActiveBaseline, RowsOf, TypeOK
    <3>2. \A a \in RowsOf(f, baselines) : a.version <= b.version
      BY <2>2, <2>4, LastIsActive DEF ActiveBaseline
    <3>3. \A k \in DOMAIN batches : \A a \in batches[k] : a.feature = f => a.version <= b.version
      BY <1>1, <3>2, InSomeBatch DEF TypeOK, RowsOf
    <3>4. \A i \in DOMAIN results[e] : NothingLater(results[e][i], b.feature, b.version)
      BY <3>1, <3>3 DEF NothingLater
    <3> QED
      BY <1>1, <1>3, <1>4, <2>1, <2>2, <2>4, <3>1, <3>4 DEF Truthful
  <2> QED
    BY <2>1, <2>3, <2>4
<1>9. CASE CompareSchema(e) \/ CompareColumn(e)
  <2>1. pc[e] = "compare" /\ pc'[e] = "baseline" /\ had'[e] = had[e]
    BY <1>1, <1>9 DEF CompareSchema, CompareColumn, TypeOK
  <2>2. ASSUME NEW b \in found[e]
        PROVE  /\ b \in baselines /\ b.feature \in Features /\ b.version \in Nat /\ b.version # 0
               /\ \A i \in DOMAIN results[e] : NothingLater(results[e][i], b.feature, b.version)
    <3>1. b \in baselines
      BY <1>1 DEF TypeOK
    <3> QED
      BY <1>1, <2>1, <3>1, InSomeBatch, RowFields DEF Truthful, TypeOK
  <2>3. CASE CompareSchema(e)
    <3>1. PICK b \in found[e] :
            /\ b.feature = SchemaColumn
            /\ Records(e, SchemaColumn, IF b.basis = {schema} THEN "STABLE" ELSE "DRIFT", b.version, {})
      BY <2>3 DEF CompareSchema
    <3>2. b.basis = {schema}
      BY <2>2, <3>1 DEF IInv, SchemaOnce
    <3>3. ResultIsTrue([feature |-> SchemaColumn, version |-> b.version, outcome |-> "STABLE", current |-> {}],
                       had[e])
      BY <2>2, <3>1, RegistryAssumption DEF ResultIsTrue, Names
    <3>4. Records(e, SchemaColumn, "STABLE", b.version, {})
      BY <3>1, <3>2
    <3>5. SchemaColumn \in Features /\ \A i \in DOMAIN results[e] : NothingLater(results[e][i], SchemaColumn, b.version)
      BY <2>2, <3>1
    <3> QED
      BY <1>6, <2>1, <2>2, <3>3, <3>4, <3>5 DEF Outcome
  <2>4. CASE CompareColumn(e)
    <3>1. PICK b \in found[e] :
            /\ b.feature \in Columns
            /\ \E current \in LatestAfter(b.feature, b.basis), outcome \in {"INSUFFICIENT_CURRENT", "MEASURED"} :
                 Records(e, b.feature, outcome, b.version, current)
      BY <2>4 DEF CompareColumn
    <3>2. PICK current \in LatestAfter(b.feature, b.basis), outcome \in {"INSUFFICIENT_CURRENT", "MEASURED"} :
            Records(e, b.feature, outcome, b.version, current)
      BY <3>1
    <3>3. IsSample(b.basis)
      BY <2>2, <3>1 DEF IInv, Samples
    <3>4. current \subseteq Observations /\ \A o \in current, s \in b.basis : ObservedAt[o] > ObservedAt[s]
      BY <1>1, <3>1, <3>2, <3>3, LatestAfterIsLater
    <3>5. ResultIsTrue([feature |-> b.feature, version |-> b.version, outcome |-> outcome, current |-> current],
                       had[e])
      BY <2>2, <3>1, <3>2, <3>4 DEF ResultIsTrue, Names
    <3> QED
      BY <1>6, <2>1, <2>2, <3>2, <3>4, <3>5 DEF Outcome
  <2> QED
    BY <1>9, <2>3, <2>4
<1>10. CASE FinishEvaluation(e) \/ CrashEvaluator(e)
  <2>1. results'[e] = <<>> /\ had'[e] = {} /\ pc'[e] = "idle" /\ done'[e] = {}
    BY <1>1, <1>10 DEF FinishEvaluation, CrashEvaluator, Ends, TypeOK
  <2> QED
    BY <1>5, <2>1
<1> QED
  BY <1>7, <1>8, <1>9, <1>10

LEMMA EvaluatingPreserved ==
  ASSUME IInv, [Next]_vars
  PROVE  Evaluating'
<1>1. \A e \in Evaluators : Truthful(e)'
  BY StaysTruthful, TruthfulPreserved, Steps, CreationSteps, EvaluationSteps, OtherSteps DEF IInv
<1> QED
  BY <1>1 DEF Evaluating, Truthful

\* What an evaluation reports of itself is true when it ends.
LEMMA StatusWhenItEnds ==
  ASSUME IInv, NEW e \in Evaluators, done[e] = Features
  PROVE  /\ StatusOf(results[e]) = "NO_BASELINE" => had[e] = {}
         /\ StatusOf(results[e]) = "SUCCESS" => \A f \in Features : RowsOf(f, active) # {}
<1>1. Truthful(e) /\ had[e] \subseteq Features
  BY DEF IInv, Evaluating, Truthful, TypeOK
<1>2. \A f \in Features : \E i \in DOMAIN results[e] :
        results[e][i].feature = f /\ ResultIsTrue(results[e][i], had[e])
  BY <1>1 DEF Truthful, ResultsAreTrue
<1>3. ASSUME StatusOf(results[e]) = "NO_BASELINE" PROVE had[e] = {}
  <2>1. \A i \in DOMAIN results[e] : results[e][i].outcome = "BASELINE_UNAVAILABLE"
    BY <1>3 DEF StatusOf
  <2>2. \A f \in Features : f \notin had[e]
    BY <1>2, <2>1 DEF ResultIsTrue
  <2> QED
    BY <1>1, <2>2
<1>4. ASSUME StatusOf(results[e]) = "SUCCESS", NEW f \in Features PROVE RowsOf(f, active) # {}
  <2>1. \A i \in DOMAIN results[e] : results[e][i].outcome # "BASELINE_UNAVAILABLE"
    BY <1>4 DEF StatusOf, Skipped
  <2>2. PICK i \in DOMAIN results[e] : results[e][i].feature = f /\ ResultIsTrue(results[e][i], had[e])
    BY <1>2
  <2>3. \E b \in baselines : Names(results[e][i], b)
    BY <2>1, <2>2 DEF ResultIsTrue
  <2>4. RowsOf(f, baselines) # {}
    BY <2>2, <2>3 DEF Names, RowsOf
  <2> QED
    BY <2>4, LastIsActive
<1> QED
  BY <1>3, <1>4

LEMMA EvaluatedPreserved ==
  ASSUME IInv, [Next]_vars
  PROVE  Evaluated'
<1>1. TypeOK /\ Evaluated
  BY DEF IInv
<1>2. ASSUME NEW x \in evaluations
      PROVE  /\ ResultsAreTrue(x.results, x.had)'
             /\ x.status = "NO_BASELINE" => x.had = {}
             /\ x.status = "SUCCESS" => \A f \in Features : RowsOf(f, active)' # {}
  BY <1>1, ResultsStayTrue, ActiveStays DEF Evaluated, StatusIsTrue
<1>3. ASSUME NEW e \in Evaluators, FinishEvaluation(e) PROVE Evaluated'
  <2>1. PICK x : /\ x = [status |-> StatusOf(results[e]), results |-> results[e], had |-> had[e]]
                 /\ evaluations' = evaluations \cup {x}
    BY <1>3 DEF FinishEvaluation
  <2>2. done[e] = Features /\ batches' = batches /\ active' = active
    BY <1>3, NothingUpcoming DEF FinishEvaluation, tables
  <2>3. /\ x.status = "NO_BASELINE" => x.had = {}
        /\ x.status = "SUCCESS" => \A f \in Features : RowsOf(f, active) # {}
    BY <2>1, <2>2, StatusWhenItEnds
  <2>4. ResultsAreTrue(x.results, x.had)
    BY <2>1 DEF IInv, Evaluating
  <2>5. ResultsAreTrue(x.results, x.had)'
    BY <2>4, ResultsStayTrue
  <2>6. \A f : RowsOf(f, active)' = RowsOf(f, active)
    BY <2>2 DEF RowsOf
  <2> QED
    BY <1>2, <2>1, <2>3, <2>5, <2>6 DEF Evaluated, StatusIsTrue
<1>4. CASE evaluations' = evaluations
  BY <1>2, <1>4 DEF Evaluated, StatusIsTrue
<1>5. evaluations' = evaluations \/ \E e \in Evaluators : FinishEvaluation(e)
  BY <1>1, Steps, CreationSteps, EvaluationSteps, OtherSteps
<1> QED
  BY <1>3, <1>4, <1>5

-------------------------------------------------------------------------------
(***************************************************************************)
(* The invariant, and the theorems.                                        *)
(***************************************************************************)
LEMMA InitInvariant == Init => IInv
<1> SUFFICES ASSUME Init PROVE IInv
  OBVIOUS
<1>1. TypeOK /\ baselines = {}
  BY InitTypeOK DEF Init, baselines, ToSet
<1>2. Roles
  BY OneRole DEF Init, Roles
<1>3. AsRegistered
  BY EmptyPrefix DEF Init, AsRegistered
<1>4. Numbering
  <2>1. \A f : Numbered(f, 0)
    BY <1>1 DEF Numbered, RowsOf
  <2> QED
    BY <1>1, <2>1 DEF Numbering
<1>5. Picks
  BY OneRole DEF Init, Picks
<1>6. Drafts /\ SchemaOnce
  BY <1>1, OneRole DEF Init, Drafts, SchemaOnce, NoDraft, HasSample
<1>7. Samples
  BY <1>1, OneRole, FS_EmptySet DEF Init, Samples, NoDraft, HasSample
<1>8. Evaluating
  BY OneRole DEF Init, Evaluating, ResultsAreTrue
<1>9. Evaluated
  BY DEF Init, Evaluated, StatusIsTrue
<1> QED
  BY <1>1, <1>2, <1>3, <1>4, <1>5, <1>6, <1>7, <1>8, <1>9 DEF IInv

LEMMA NextInvariant == IInv /\ [Next]_vars => IInv'
BY NextTypeOK, RolesPreserved, AsRegisteredPreserved, NumberingPreserved, PicksPreserved, DraftsPreserved,
   SchemaOncePreserved, SamplesPreserved, EvaluatingPreserved, EvaluatedPreserved DEF IInv

\* What the statements of create_baselines and evaluate_dataset rely on between one another
\* holds whatever interleaves (the clauses are those of the first section).
THEOREM Invariant == Spec => []IInv
BY InitInvariant, NextInvariant, PTL DEF Spec

\* The rows of the tables and what the commands hold keep their types.
THEOREM TypeCorrect == Spec => []TypeOK
BY Invariant, PTL DEF IInv

LEMMA InvariantIsSound == IInv => EvaluationsAreSound
<1> SUFFICES ASSUME IInv PROVE EvaluationsAreSound
  OBVIOUS
<1>1. Evaluated
  BY DEF IInv
<1>2. CurrentIsLater
  BY <1>1 DEF Evaluated, ResultsAreTrue, ResultIsTrue, Names, CurrentIsLater
<1>3. ReadsNeverGoBack
  BY <1>1 DEF Evaluated, ResultsAreTrue, NothingLater, Names, ReadsNeverGoBack
<1> QED
  BY <1>1, <1>2, <1>3 DEF Evaluated, EvaluationsAreSound

\* A stored evaluation compares each feature with a baseline all of whose observations are older
\* than those it looks at (observations_after), never goes back behind a creation it has used,
\* and has the status its results and the baselines deserve, whatever creations commit meanwhile.
THEOREM EvaluationsAreSoundHolds == Spec => []EvaluationsAreSound
BY Invariant, InvariantIsSound, PTL

LEMMA InvariantOfSchema == IInv => SchemaComparedWithItself
BY DEF IInv, Evaluated, ResultsAreTrue, ResultIsTrue, SchemaComparedWithItself

\* However many releases change canonical_schema, no evaluation reports a changed schema:
\* ensure_schema_version writes the row once and evaluate_dataset reads that row.
THEOREM SchemaComparedWithItselfHolds == Spec => []SchemaComparedWithItself
BY Invariant, InvariantOfSchema, PTL

-------------------------------------------------------------------------------
(***************************************************************************)
(* The table of baselines implements a history of generations.             *)
(***************************************************************************)
LEMMA GenerationsOf ==
  ASSUME NEW f \in Features
  PROVE  /\ Generations[f] = {[version |-> b.version, basis |-> b.basis] : b \in RowsOf(f, baselines)}
         /\ ActiveVersions[f] = {b.version : b \in RowsOf(f, active)}
BY DEF Generations, ActiveVersions

\* The history counts with the operator of its own FiniteSets, which is the same.
LEMMA SameCardinality == \A S : History!Cardinality(S) = Cardinality(S)
BY DEF Cardinality, History!Cardinality

\* There are as many generations as the last one's number.
LEMMA GenerationsCounted ==
  ASSUME IInv, NEW f \in Features, NEW n \in Nat, Numbered(f, n)
  PROVE  Cardinality(Generations[f]) = n
<1> DEFINE G == Generations[f]
           nth == [v \in 1..n |-> CHOOSE g \in G : g.version = v]
<1>1. G = {[version |-> b.version, basis |-> b.basis] : b \in RowsOf(f, baselines)}
  BY GenerationsOf
<1>2. ASSUME NEW v \in 1..n PROVE \E g \in G : g.version = v
  <2>1. PICK b \in RowsOf(f, baselines) : b.version = v
    BY DEF Numbered
  <2>2. [version |-> b.version, basis |-> b.basis] \in G
    BY <1>1
  <2> QED
    BY <2>1, <2>2
<1>3. \A g \in G : g.version \in 1..n
  BY <1>1 DEF Numbered
<1>4. ASSUME NEW g \in G, NEW h \in G, g.version = h.version PROVE g = h
  <2>1. PICK a \in RowsOf(f, baselines) : g = [version |-> a.version, basis |-> a.basis]
    BY <1>1
  <2>2. PICK b \in RowsOf(f, baselines) : h = [version |-> b.version, basis |-> b.basis]
    BY <1>1
  <2>3. a = b
    BY <1>4, <2>1, <2>2 DEF IInv, Numbering, RowsOf
  <2> QED
    BY <2>1, <2>2, <2>3
<1> HIDE DEF G
<1>5. \A v \in 1..n : nth[v] \in G /\ nth[v].version = v
  BY <1>2
<1>6. \A g \in G : nth[g.version] = g
  BY <1>3, <1>4, <1>5
<1>7. nth \in [1..n -> G]
  BY <1>5
<1> HIDE DEF nth
<1>8. nth \in Bijection(1..n, G)
  <2>1. nth \in Injection(1..n, G)
    BY <1>5, <1>7 DEF Injection, IsInjective
  <2>2. nth \in Surjection(1..n, G)
    BY <1>3, <1>6, <1>7 DEF Surjection
  <2> QED
    BY <2>1, <2>2 DEF Bijection
<1>9. ExistsBijection(1..n, G)
  BY <1>8 DEF ExistsBijection
<1> QED
  BY <1>9, FS_CountingElements DEF G

\* A commit adds one generation to each feature it has a row for.
LEMMA CommitReplaces ==
  ASSUME IInv, NEW c \in Creators, Commit(c), NEW b \in draft[c].new
  PROVE  b.feature \in Features /\ History!Replace(b.feature)
<1> DEFINE f == b.feature
           g == [version |-> b.version, basis |-> b.basis]
<1>1. f \in Features /\ b.version \in Nat /\ b.version # 0
  BY RowFields DEF IInv, TypeOK
<1>2. /\ Numbered(f, b.version - 1) /\ b.version - 1 \in Nat
      /\ \A a \in draft[c].new : a.feature = f => a = b
  BY <1>1 DEF IInv, Drafts
<1>3. Cardinality(Generations[f]) = b.version - 1
  BY <1>1, <1>2, GenerationsCounted
<1>4. baselines' = baselines \cup draft[c].new /\ Numbered(f, b.version)'
  BY CommitNumbers
<1>5. RowsOf(f, baselines)' = RowsOf(f, baselines) \cup {b}
  BY <1>2, <1>4 DEF RowsOf
<1>6. Generations'[f] = Generations[f] \cup {g}
  BY <1>1, <1>5 DEF Generations
<1>7. active' \subseteq baselines'
  BY NextTypeOK DEF TypeOK, Next, Creates
<1>8. {a.version : a \in RowsOf(f, active)'} = {b.version}
  <2>1. \A a \in RowsOf(f, active)' : a.version = b.version
    BY <1>4, <1>7 DEF RowsOf, Numbered
  <2>2. b \in RowsOf(f, active)'
    BY DEF Commit, RowsOf
  <2> QED
    BY <2>1, <2>2
<1>9. ActiveVersions'[f] = {b.version}
  BY <1>1, <1>8 DEF ActiveVersions
<1>10. g \in Generations'[f] /\ g.version = b.version
  BY <1>6
<1>11. Cardinality(Generations[f]) + 1 = b.version
  BY <1>1, <1>3
<1> HIDE DEF f, g
<1>12. History!Replace(f)
  BY <1>6, <1>9, <1>10, <1>11, SameCardinality DEF History!Replace
<1> QED
  BY <1>1, <1>12 DEF f

LEMMA HistoryStep == IInv /\ [Next]_vars => [History!Next]_<<Generations, ActiveVersions>>
<1> SUFFICES ASSUME IInv, [Next]_vars, <<Generations, ActiveVersions>>' # <<Generations, ActiveVersions>>
             PROVE  History!Next
  OBVIOUS
<1>1. PICK c \in Creators : Commit(c)
  BY OthersKeepTables, BaselinesKept DEF Generations, ActiveVersions, RowsOf
<1>2. ASSUME NEW f \in Features PROVE History!Replace(f) \/ History!Keep(f)
  <2>1. CASE \E b \in draft[c].new : b.feature = f
    BY <1>1, <2>1, CommitReplaces
  <2>2. CASE \A b \in draft[c].new : b.feature # f
    <3>1. RowsOf(f, active)' = RowsOf(f, active) /\ baselines' = baselines \cup draft[c].new
      BY <1>1, <2>2, CommitNumbers
    <3>2. RowsOf(f, baselines)' = RowsOf(f, baselines)
      BY <2>2, <3>1 DEF RowsOf
    <3> QED
      BY <3>1, <3>2 DEF History!Keep, Generations, ActiveVersions
  <2> QED
    BY <2>1, <2>2
<1>3. DOMAIN Generations' = Features /\ DOMAIN ActiveVersions' = Features
  BY DEF Generations, ActiveVersions
<1> QED
  BY <1>2, <1>3 DEF History!Next

\* create_baselines is a history of numbered generations: a commit adds the next generation of
\* each feature it has written and makes it the only active one, and nothing else changes the
\* table, whatever creations interleave, wait, collide, fail or crash.
THEOREM ImplementsHistoryHolds == Spec => ImplementsHistory
<1>1. Init => History!Init
  BY DEF Init, History!Init, Generations, ActiveVersions, RowsOf, baselines, ToSet
<1> QED
  BY Invariant, <1>1, HistoryStep, PTL DEF Spec, ImplementsHistory, History!Spec
===============================================================================
