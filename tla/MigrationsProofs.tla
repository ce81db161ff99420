--------------------------- MODULE MigrationsProofs ---------------------------
(***************************************************************************)
(* Proofs about Migrations for every set of files, checkouts, databases    *)
(* and runners, and every bound.                                           *)
(***************************************************************************)
EXTENDS Migrations, SequenceTheorems, TLAPS

-------------------------------------------------------------------------------
(***************************************************************************)
(* The inductive invariant.                                                *)
(***************************************************************************)
\* A runner that looks at the ledger, or executes, has the lock to itself.
Holding == \A r \in Runners : At(r, "inspect") \/ At(r, "execute") => holder = {r}

\* The entries of tx that are not in d.
NewEntries(d, tx) == (Len(d.executed) + 1) .. Len(tx.executed)

\* The database of an open transaction, against the committed one: the ledger was accepted,
\* and since then files of the checkout were executed in order, and none was left out.
Prepared(d, tx, f, option) ==
  /\ option # "check" /\ Accepts(d, f, option)
  /\ IsSound(tx) /\ (tx.table => tx.checksums)
  /\ d.table => tx.table
  /\ DOMAIN d.applied \subseteq DOMAIN tx.applied
  /\ \A v \in DOMAIN tx.applied : v \in DOMAIN f /\ tx.applied[v] = f[v]
  /\ Len(d.executed) <= Len(tx.executed)
  /\ \A i \in DOMAIN d.executed : tx.executed[i] = d.executed[i]
  /\ \A i \in NewEntries(d, tx) :
       /\ tx.executed[i].content = f[tx.executed[i].version]
       /\ tx.executed[i].version \notin DOMAIN d.applied
       /\ \A v \in Pending(tx, f) : tx.executed[i].version < v
       /\ \A j \in NewEntries(d, tx) : i < j => tx.executed[i].version < tx.executed[j].version

\* Nobody commits between the look at the ledger and the end of the transaction, so the
\* committed database is still the one that was looked at.
Batches ==
  \A r \in Runners : At(r, "execute") =>
    Prepared(db, runner[r].tx, runner[r].files, runner[r].option)

\* A ledger only grows.
Grows(old, new) ==
  /\ old.table => new.table
  /\ old.checksums => new.checksums
  /\ DOMAIN old.applied \subseteq DOMAIN new.applied

\* Between its reads the preflight may still answer for the first of them and for now.
Inspecting ==
  inspector.pc = "rows" =>
    /\ Grows(inspector.first, db)
    /\ Verdict(inspector.first, inspector.files) \in inspector.possible
    /\ Verdict(db, inspector.files) \in inspector.possible

IInv == TypeOK /\ LedgerIsTrue /\ Holding /\ Batches /\ Inspecting /\ VerdictWasTrue

-------------------------------------------------------------------------------
(***************************************************************************)
(* Databases and checkouts.                                                *)
(***************************************************************************)
Entry == [version : Versions, content : Contents \cup {Unknown}]

\* What membership in Database gives.
LEMMA DatabaseFields ==
  ASSUME NEW d \in Database
  PROVE  /\ d.table \in BOOLEAN /\ d.checksums \in BOOLEAN
         /\ DOMAIN d.applied \subseteq Versions
         /\ d.applied \in [DOMAIN d.applied -> Contents \cup {Unknown}]
         /\ d.executed \in Seq(Entry)
         /\ Len(d.executed) \in Nat /\ DOMAIN d.executed = 1..Len(d.executed)
         /\ \A i \in 1..Len(d.executed) : d.executed[i].version \in Versions
         /\ d = [table |-> d.table, checksums |-> d.checksums,
                 applied |-> d.applied, executed |-> d.executed]
<1>1. d \in [table : BOOLEAN, checksums : BOOLEAN,
             applied : UNION {[V -> Contents \cup {Unknown}] : V \in SUBSET Versions},
             executed : Seq(Entry)]
  BY DEF Database, Entry
<1>2. PICK V \in SUBSET Versions : d.applied \in [V -> Contents \cup {Unknown}]
  BY <1>1
<1>3. DOMAIN d.applied = V
  BY <1>2
<1>4. d.executed \in Seq(Entry)
  BY <1>1
<1>5. Len(d.executed) \in Nat /\ DOMAIN d.executed = 1..Len(d.executed)
  BY <1>4, LenProperties
<1>6. \A i \in 1..Len(d.executed) : d.executed[i] \in Entry
  BY <1>4, ElementOfSeq
<1> QED
  BY <1>1, <1>2, <1>3, <1>4, <1>5, <1>6 DEF Entry

\* What it takes.
LEMMA DatabaseBuilt ==
  ASSUME NEW table \in BOOLEAN, NEW checksums \in BOOLEAN, NEW V \in SUBSET Versions,
         NEW applied \in [V -> Contents \cup {Unknown}], NEW executed \in Seq(Entry)
  PROVE  [table |-> table, checksums |-> checksums,
          applied |-> applied, executed |-> executed] \in Database
<1>1. applied \in UNION {[W -> Contents \cup {Unknown}] : W \in SUBSET Versions}
  OBVIOUS
<1> QED
  BY <1>1 DEF Database, Entry

\* A checkout is a function from versions to contents.
LEMMA CheckoutFields ==
  ASSUME NEW f \in Checkouts
  PROVE  /\ DOMAIN f \subseteq Versions
         /\ f \in [DOMAIN f -> Contents]
         /\ \A v \in DOMAIN f : f[v] # Unknown
BY CheckoutAssumption, ContentAssumption

\* An adopted ledger is a ledger, provided its files are there.
LEMMA AdoptedType ==
  ASSUME NEW d \in Database, NEW f \in Checkouts, ~Drifted(d, f)
  PROVE  Adopted(d, f) \in Database
<1>1. CASE d.table /\ ~d.checksums
  <2>1. DOMAIN d.applied \subseteq DOMAIN f
    BY DEF Drifted
  <2>2. [v \in DOMAIN d.applied |-> f[v]] \in [DOMAIN d.applied -> Contents \cup {Unknown}]
    BY <2>1, CheckoutFields
  <2> DEFINE applied == [v \in DOMAIN d.applied |-> f[v]]
  <2>3. Adopted(d, f) = [table |-> d.table, checksums |-> TRUE,
                         applied |-> applied, executed |-> d.executed]
    <3>1. d = [table |-> d.table, checksums |-> d.checksums,
               applied |-> d.applied, executed |-> d.executed]
      BY DatabaseFields
    <3> QED
      BY <1>1, <3>1 DEF Adopted
  <2>4. applied \in [DOMAIN d.applied -> Contents \cup {Unknown}]
    BY <2>2
  <2> HIDE DEF applied
  <2> QED
    <3>1. d.table \in BOOLEAN /\ d.executed \in Seq(Entry) /\ DOMAIN d.applied \in SUBSET Versions
      BY DatabaseFields
    <3> QED
      BY <2>3, <2>4, <3>1, DatabaseBuilt
<1>2. CASE ~(d.table /\ ~d.checksums)
  BY <1>2 DEF Adopted
<1> QED
  BY <1>1, <1>2

\* So is a ledger with one more row.
LEMMA ExecutedType ==
  ASSUME NEW d \in Database, NEW v \in Versions, NEW c \in Contents
  PROVE  /\ Executed(d, v, c, c) \in Database
         /\ DOMAIN Executed(d, v, c, c).applied = DOMAIN d.applied \cup {v}
<1> DEFINE applied == [w \in DOMAIN d.applied \cup {v} |-> IF w = v THEN c ELSE d.applied[w]]
           executed == Append(d.executed, [version |-> v, content |-> c])
<1>1. applied \in [DOMAIN d.applied \cup {v} -> Contents \cup {Unknown}]
  BY DatabaseFields
<1>2. executed \in Seq(Entry)
  BY DatabaseFields, AppendProperties DEF Entry
<1>3. Executed(d, v, c, c) = [table |-> TRUE, checksums |-> TRUE,
                              applied |-> applied, executed |-> executed]
  BY DEF Executed
<1>4. DOMAIN applied = DOMAIN d.applied \cup {v}
  OBVIOUS
<1>5. DOMAIN d.applied \cup {v} \in SUBSET Versions
  BY DatabaseFields
<1> HIDE DEF applied, executed
<1>6. [table |-> TRUE, checksums |-> TRUE, applied |-> applied, executed |-> executed] \in Database
  BY <1>1, <1>2, <1>5, DatabaseBuilt
<1> QED
  BY <1>3, <1>4, <1>6

\* The preflight answers with a state, and what it has seen is a ledger.
LEMMA VerdictType ==
  ASSUME NEW d, NEW f
  PROVE  Verdict(d, f) \in States
BY DEF Verdict, States

-------------------------------------------------------------------------------
(***************************************************************************)
(* Type correctness.                                                       *)
(***************************************************************************)
LEMMA InitTypeOK == Init => TypeOK
<1> SUFFICES ASSUME Init PROVE TypeOK
  OBVIOUS
<1>1. db \in Database
  BY DatabaseAssumption DEF Init
<1> QED
  BY <1>1, BoundAssumption DEF Init, TypeOK, Options, Outcomes, States

\* The fields of a process.
LEMMA RunnerFields ==
  ASSUME TypeOK, NEW r \in Runners
  PROVE  /\ runner[r].option \in Options /\ runner[r].files \in Checkouts
         /\ runner[r].tx \in Database /\ runner[r].outcome \in Outcomes
BY DEF TypeOK

\* A process that ends leaves everything well typed.
LEMMA EndType ==
  ASSUME TypeOK, NEW r \in Runners, NEW outcome \in Outcomes, End(r, outcome)
  PROVE  /\ runner' \in [Runners -> [pc : {"idle", "lock", "inspect", "execute"}, option : Options,
                                     files : Checkouts, tx : Database, outcome : Outcomes]]
         /\ holder' \in {{}} \cup {{s} : s \in Runners}
BY DEF TypeOK, End

LEMMA NextTypeOK == TypeOK /\ [Next]_vars => TypeOK'
<1> SUFFICES ASSUME TypeOK, [Next]_vars PROVE TypeOK'
  OBVIOUS
<1> USE DEF ledgerVars
<1>1. ASSUME NEW r \in Runners, NEW option \in Options, Start(r, option) PROVE TypeOK'
  <2>1. starts' \in 0..MaxStarts
    BY <1>1, BoundAssumption DEF Start, TypeOK
  <2> QED
    BY <1>1, <2>1 DEF Start, TypeOK, Outcomes
<1>2. ASSUME NEW r \in Runners, Lock(r) PROVE TypeOK'
  BY <1>2 DEF Lock, TypeOK
<1>3. ASSUME NEW r \in Runners, Reject(r) PROVE TypeOK'
  BY <1>3, EndType DEF Reject, TypeOK, Outcomes
<1>4. ASSUME NEW r \in Runners, Check(r) PROVE TypeOK'
  BY <1>4, EndType DEF Check, TypeOK, Outcomes
<1>5. ASSUME NEW r \in Runners, BeginBatch(r) PROVE TypeOK'
  <2>1. Adopted(db, runner[r].files) \in Database
    BY <1>5, RunnerFields, AdoptedType DEF BeginBatch, Accepts, TypeOK
  <2> QED
    BY <1>5, <2>1 DEF BeginBatch, TypeOK
<1>6. ASSUME NEW r \in Runners, Execute(r) PROVE TypeOK'
  <2>1. PICK v \in Versions :
          /\ IsNextFile(r, v)
          /\ runner' = [runner EXCEPT ![r].tx = Executed(@, v, runner[r].files[v], runner[r].files[v])]
    BY <1>6 DEF Execute
  <2>2. runner[r].files[v] \in Contents
    BY <2>1, RunnerFields, CheckoutFields DEF IsNextFile, Pending
  <2>3. Executed(runner[r].tx, v, runner[r].files[v], runner[r].files[v]) \in Database
    BY <2>2, RunnerFields, ExecutedType
  <2> QED
    BY <1>6, <2>1, <2>3 DEF Execute, TypeOK
<1>7. ASSUME NEW r \in Runners, Refuse(r) PROVE TypeOK'
  BY <1>7, EndType DEF Refuse, TypeOK, Outcomes
<1>8. ASSUME NEW r \in Runners, Commit(r) PROVE TypeOK'
  <2>1. db' \in Database /\ cause' \in {NoCause} \cup [option : Options, files : Checkouts]
    BY <1>8, RunnerFields DEF Commit, TypeOK
  <2>2. inspector' \in [pc : {"idle", "rows"}, files : Checkouts, first : Database,
                        possible : SUBSET States, state : States \cup {"none"}]
    BY <1>8, VerdictType DEF Commit, Witnessed, TypeOK
  <2> QED
    BY <1>8, <2>1, <2>2, EndType DEF Commit, TypeOK, Outcomes
<1>9. ASSUME NEW r \in Runners, Die(r) PROVE TypeOK'
  <2>1. faults' \in 0..MaxFaults
    BY <1>9, BoundAssumption DEF Die, Fault, TypeOK
  <2> QED
    BY <1>9, <2>1, EndType DEF Die, TypeOK, Outcomes
<1>10. CASE InspectColumns
  <2>1. starts' \in 0..MaxStarts
    BY <1>10, BoundAssumption DEF InspectColumns, TypeOK
  <2> QED
    BY <1>10, <2>1, VerdictType DEF InspectColumns, TypeOK
<1>11. CASE InspectRows
  BY <1>11, VerdictType DEF InspectRows, TypeOK
<1>12. CASE Edit
  BY <1>12, BoundAssumption DEF Edit, TypeOK
<1>13. CASE UNCHANGED vars
  BY <1>13 DEF vars, TypeOK
<1> QED
  BY <1>1, <1>2, <1>3, <1>4, <1>5, <1>6, <1>7, <1>8, <1>9, <1>10, <1>11, <1>12, <1>13
     DEF Next, RunnerStep

\* The program state and the database have their types, whatever the files and the databases a
\* runner is started on, and the lock is never granted twice (apply_migrations, inspect_migrations).
THEOREM TypeCorrect == Spec => []TypeOK
<1>1. TypeOK /\ [Next]_vars => TypeOK'
  BY NextTypeOK
<1> QED
  BY InitTypeOK, <1>1, PTL DEF Spec

-------------------------------------------------------------------------------
(***************************************************************************)
(* A transaction is prepared by the look at the ledger and stays so.       *)
(***************************************************************************)
\* Accepting a ledger, and adopting it where asked, prepares the transaction.
LEMMA AdoptedPrepared ==
  ASSUME NEW d \in Database, IsSound(d), NEW f \in Checkouts,
         NEW option \in Options, option # "check", Accepts(d, f, option)
  PROVE  Prepared(d, Adopted(d, f), f, option)
<1> DEFINE tx == Adopted(d, f)
<1>1. /\ Len(d.executed) \in Nat /\ DOMAIN d.executed = 1..Len(d.executed)
      /\ d = [table |-> d.table, checksums |-> d.checksums,
              applied |-> d.applied, executed |-> d.executed]
  BY DatabaseFields
<1>2. \A v \in DOMAIN d.applied : v \in DOMAIN f /\ (d.checksums => d.applied[v] = f[v])
  BY DEF Accepts, Drifted
<1>3. /\ tx.executed = d.executed /\ tx.table = d.table
      /\ DOMAIN tx.applied = DOMAIN d.applied
      /\ \A v \in DOMAIN d.applied : tx.applied[v] = f[v]
      /\ tx.table => tx.checksums
      /\ tx.checksums => tx.table
  <2>1. CASE d.table /\ ~d.checksums
    <3>1. tx = [table |-> d.table, checksums |-> TRUE,
                applied |-> [v \in DOMAIN d.applied |-> f[v]], executed |-> d.executed]
      BY <1>1, <2>1 DEF Adopted
    <3> QED
      BY <2>1, <3>1
  <2>2. CASE ~(d.table /\ ~d.checksums)
    <3>1. tx = d
      BY <2>2 DEF Adopted
    <3> QED
      BY <1>2, <2>2, <3>1 DEF IsSound
  <2> QED
    BY <2>1, <2>2
<1>4. IsSound(tx)
  <2>1. \A i \in DOMAIN d.executed : d.executed[i].version \in DOMAIN d.applied
    BY DEF IsSound
  <2>2. \A i \in DOMAIN d.executed :
          tx.executed[i].content \in {Unknown, tx.applied[tx.executed[i].version]}
    <3>1. CASE d.checksums
      BY <1>2, <1>3, <2>1, <3>1 DEF IsSound
    <3>2. CASE ~d.checksums
      BY <1>3, <2>1, <3>2 DEF IsSound
    <3> QED
      BY <3>1, <3>2
  <2>3. ~tx.table => DOMAIN tx.applied = {} /\ ~tx.checksums
    BY <1>3 DEF IsSound
  <2>4. ~tx.checksums => \A v \in DOMAIN tx.applied : tx.applied[v] = Unknown
    BY <1>3, <2>3
  <2> HIDE DEF tx
  <2> QED
    BY <1>3, <2>2, <2>3, <2>4 DEF IsSound
<1>5. NewEntries(d, tx) = {}
  BY <1>1, <1>3 DEF NewEntries
<1> HIDE DEF tx
<1>6. Prepared(d, tx, f, option)
  BY <1>1, <1>2, <1>3, <1>4, <1>5 DEF Prepared
<1> QED
  BY <1>6 DEF tx

\* Executing the next file keeps it prepared.
LEMMA ExecutedPrepared ==
  ASSUME NEW d \in Database, IsSound(d), NEW tx \in Database, NEW f \in Checkouts, NEW option,
         Prepared(d, tx, f, option),
         NEW v \in Versions, v \in Pending(tx, f), \A w \in Pending(tx, f) : v <= w
  PROVE  Prepared(d, Executed(tx, v, f[v], f[v]), f, option)
<1> DEFINE new == Executed(tx, v, f[v], f[v])
           entry == [version |-> v, content |-> f[v]]
           n == Len(d.executed)
           m == Len(tx.executed)
<1>1. /\ v \in DOMAIN f /\ v \notin DOMAIN tx.applied /\ f[v] \in Contents
  BY CheckoutFields DEF Pending
<1>2. /\ n \in Nat /\ DOMAIN d.executed = 1..n
      /\ m \in Nat /\ DOMAIN tx.executed = 1..m /\ tx.executed \in Seq(Entry)
      /\ \A i \in 1..m : tx.executed[i].version \in Nat
  BY DatabaseFields, NameAssumption
<1>3. entry \in Entry
  BY <1>1 DEF Entry
<1>4. /\ Len(new.executed) = m + 1 /\ DOMAIN new.executed = 1..(m + 1)
      /\ \A i \in 1..m : new.executed[i] = tx.executed[i]
      /\ new.executed[m + 1] = entry
  <2>1. new.executed = Append(tx.executed, entry)
    BY DEF Executed
  <2> HIDE DEF new, entry
  <2> QED
    BY <1>2, <1>3, <2>1, AppendProperties, LenProperties
<1>5. /\ new.table /\ new.checksums
      /\ DOMAIN new.applied = DOMAIN tx.applied \cup {v}
      /\ new.applied[v] = f[v]
      /\ \A w \in DOMAIN tx.applied : new.applied[w] = tx.applied[w]
  BY <1>1 DEF Executed
<1>6. entry.version = v /\ entry.content = f[v]
  OBVIOUS
<1> HIDE DEF new, entry
<1>7. \A i \in 1..m : tx.executed[i].version \in DOMAIN tx.applied
  BY <1>2 DEF Prepared, IsSound
<1>8. IsSound(new)
  <2>1. {new.executed[i].version : i \in DOMAIN new.executed} = DOMAIN new.applied
    <3>1. \A i \in DOMAIN new.executed : new.executed[i].version \in DOMAIN new.applied
      BY <1>2, <1>4, <1>5, <1>6, <1>7
    <3>2. \A w \in DOMAIN tx.applied : \E i \in 1..m : tx.executed[i].version = w
      BY <1>2 DEF Prepared, IsSound
    <3>3. \A w \in DOMAIN new.applied : \E i \in DOMAIN new.executed : new.executed[i].version = w
      BY <1>2, <1>4, <1>5, <1>6, <3>2
    <3> QED
      BY <3>1, <3>3
  <2>2. \A i, j \in DOMAIN new.executed :
          new.executed[i].version = new.executed[j].version => i = j
    <3> SUFFICES ASSUME NEW i \in 1..(m + 1), NEW j \in 1..(m + 1),
                        new.executed[i].version = new.executed[j].version
                 PROVE  i = j
      BY <1>4
    <3>1. CASE i \in 1..m /\ j \in 1..m
      <4>1. \A a, b \in 1..m : tx.executed[a].version = tx.executed[b].version => a = b
        BY <1>2 DEF Prepared, IsSound
      <4> QED
        BY <1>4, <3>1, <4>1
    <3>2. CASE i = m + 1 \/ j = m + 1
      <4>1. \A a \in 1..m : new.executed[a].version # v
        BY <1>1, <1>4, <1>7
      <4>2. new.executed[m + 1].version = v
        BY <1>4, <1>6
      <4> QED
        BY <1>2, <3>2, <4>1, <4>2
    <3> QED
      BY <1>2, <3>1, <3>2
  <2>3. \A i \in DOMAIN new.executed :
          new.executed[i].content \in {Unknown, new.applied[new.executed[i].version]}
    <3>1. \A i \in 1..m :
            new.executed[i].content \in {Unknown, new.applied[new.executed[i].version]}
      <4>1. \A i \in 1..m :
              tx.executed[i].content \in {Unknown, tx.applied[tx.executed[i].version]}
        BY <1>2 DEF Prepared, IsSound
      <4> QED
        BY <1>4, <1>5, <1>7, <4>1
    <3> QED
      BY <1>2, <1>4, <1>5, <1>6, <3>1
  <2> QED
    BY <1>5, <2>1, <2>2, <2>3 DEF IsSound
<1>9. Pending(new, f) \subseteq Pending(tx, f) /\ v \notin Pending(new, f)
  BY <1>5 DEF Pending
<1>10. NewEntries(d, new) = NewEntries(d, tx) \cup {m + 1} /\ n <= m /\ NewEntries(d, tx) \subseteq 1..m
  BY <1>2, <1>4 DEF NewEntries, Prepared
<1>11. \A w \in Pending(tx, f) : w \in Nat /\ v \in Nat
  BY CheckoutFields, NameAssumption DEF Pending
<1>12. \A w \in Pending(new, f) : v < w
  BY <1>9, <1>11
<1>13. \A i \in NewEntries(d, tx) :
         /\ new.executed[i].content = f[new.executed[i].version]
         /\ new.executed[i].version \notin DOMAIN d.applied
         /\ \A w \in Pending(tx, f) : new.executed[i].version < w
         /\ \A j \in NewEntries(d, tx) : i < j => new.executed[i].version < new.executed[j].version
  BY <1>4, <1>10 DEF Prepared
<1>14. \A i \in NewEntries(d, new) :
         /\ new.executed[i].content = f[new.executed[i].version]
         /\ new.executed[i].version \notin DOMAIN d.applied
         /\ \A w \in Pending(new, f) : new.executed[i].version < w
         /\ \A j \in NewEntries(d, new) : i < j => new.executed[i].version < new.executed[j].version
  <2>1. v \notin DOMAIN d.applied
    BY <1>1 DEF Prepared
  <2>2. \A j \in NewEntries(d, new) : ~(m + 1 < j)
    BY <1>2, <1>10
  <2>3. \A i \in NewEntries(d, tx) : new.executed[i].version < new.executed[m + 1].version
    BY <1>4, <1>6, <1>13
  <2> QED
    BY <1>4, <1>6, <1>9, <1>10, <1>12, <1>13, <2>1, <2>2, <2>3
<1>15. \A i \in DOMAIN d.executed : new.executed[i] = d.executed[i]
  BY <1>2, <1>4, <1>10 DEF Prepared
<1>16. Prepared(d, new, f, option)
  BY <1>1, <1>2, <1>4, <1>5, <1>8, <1>10, <1>14, <1>15 DEF Prepared
<1> QED
  BY <1>16 DEF new

\* A committed transaction lets the ledger grow.
LEMMA PreparedGrows ==
  ASSUME NEW d, NEW tx, NEW f, NEW option, IsSound(d), Prepared(d, tx, f, option)
  PROVE  Grows(d, tx)
BY DEF Prepared, IsSound, Grows

-------------------------------------------------------------------------------
(***************************************************************************)
(* The invariant is inductive.                                             *)
(***************************************************************************)
LEMMA InitInvariant == Init => IInv
<1> SUFFICES ASSUME Init PROVE IInv
  OBVIOUS
<1>1. \A r \in Runners : At(r, "idle")
  BY DEF Init, At
<1>2. LedgerIsTrue
  BY DatabaseAssumption DEF Init, LedgerIsTrue
<1> QED
  BY <1>1, <1>2, InitTypeOK DEF Init, IInv, Holding, Batches, Inspecting, VerdictWasTrue, At

\* The lock is taken when it is free, kept to the end of the transaction and released by nobody else.
LEMMA HoldingPreserved ==
  ASSUME IInv, [Next]_vars
  PROVE  Holding'
<1> USE DEF At, Holding, IInv
<1>1. ASSUME NEW r \in Runners, NEW option \in Options, Start(r, option) PROVE Holding'
  BY <1>1 DEF Start, TypeOK
<1>2. ASSUME NEW r \in Runners, Lock(r) PROVE Holding'
  BY <1>2 DEF Lock, TypeOK
<1>3. ASSUME NEW r \in Runners, NEW outcome \in Outcomes, End(r, outcome), At(r, "inspect") \/ At(r, "execute")
      PROVE  Holding'
  BY <1>3 DEF End, TypeOK
<1>4. ASSUME NEW r \in Runners, Die(r) PROVE Holding'
  <2>1. \A s \in Runners : s # r /\ holder = {s} => holder' = {s}
    BY <1>4 DEF Die, End
  <2>2. \A s \in Runners : s # r => runner'[s] = runner[s]
    BY <1>4 DEF Die, End, TypeOK
  <2>3. runner'[r].pc = "idle"
    BY <1>4 DEF Die, End, TypeOK
  <2> QED
    BY <2>1, <2>2, <2>3
<1>5. ASSUME NEW r \in Runners, BeginBatch(r) \/ Execute(r) PROVE Holding'
  BY <1>5 DEF BeginBatch, Execute, TypeOK
<1>6. CASE UNCHANGED <<runner, holder>>
  BY <1>6
<1>7. ASSUME NEW r \in Runners, Reject(r) \/ Check(r) \/ Refuse(r) \/ Commit(r) PROVE Holding'
  <2>1. \E outcome \in Outcomes : End(r, outcome)
    BY <1>7 DEF Reject, Check, Refuse, Commit, Outcomes
  <2> QED
    BY <1>3, <1>7, <2>1 DEF Reject, Check, Refuse, Commit
<1> QED
  BY <1>1, <1>2, <1>4, <1>5, <1>6, <1>7
     DEF Next, RunnerStep, InspectColumns, InspectRows, Edit, vars

\* A transaction stays prepared: by its own step, and because another commits nothing meanwhile.
LEMMA BatchesPreserved ==
  ASSUME IInv, [Next]_vars
  PROVE  Batches'
<1> USE DEF At, Batches, ledgerVars
<1>1. TypeOK /\ LedgerIsTrue /\ Holding
  BY DEF IInv
<1>2. ASSUME NEW r \in Runners, db' = db, runner'[r].pc # "execute",
             \A s \in Runners : s # r => runner'[s] = runner[s]
      PROVE  Batches'
  BY <1>2 DEF IInv
<1>3. ASSUME NEW r \in Runners, NEW option \in Options, Start(r, option) PROVE Batches'
  <2>1. runner'[r].pc # "execute" /\ \A s \in Runners : s # r => runner'[s] = runner[s]
    BY <1>1, <1>3 DEF Start, TypeOK
  <2> QED
    BY <1>2, <1>3, <2>1 DEF Start
<1>4. ASSUME NEW r \in Runners, Lock(r) \/ Reject(r) \/ Check(r) \/ Refuse(r) \/ Die(r)
      PROVE  Batches'
  <2>1. runner'[r].pc # "execute" /\ \A s \in Runners : s # r => runner'[s] = runner[s]
    BY <1>1, <1>4 DEF Lock, Reject, Check, Refuse, Die, End, TypeOK
  <2> QED
    BY <1>2, <1>4, <2>1 DEF Lock, Reject, Check, Refuse, Die
<1>5. ASSUME NEW r \in Runners, BeginBatch(r) PROVE Batches'
  <2> DEFINE tx == Adopted(db, runner[r].files)
  <2>1. Prepared(db, tx, runner[r].files, runner[r].option)
    BY <1>1, <1>5, RunnerFields, AdoptedPrepared DEF BeginBatch, TypeOK, LedgerIsTrue
  <2> HIDE DEF tx
  <2>2. /\ runner'[r].tx = tx /\ runner'[r].files = runner[r].files
        /\ runner'[r].option = runner[r].option
        /\ \A s \in Runners : s # r => runner'[s] = runner[s]
    BY <1>1, <1>5 DEF BeginBatch, TypeOK, tx
  <2> QED
    BY <1>5, <2>1, <2>2 DEF BeginBatch, IInv
<1>6. ASSUME NEW r \in Runners, Execute(r) PROVE Batches'
  <2>1. PICK v \in Versions :
          /\ IsNextFile(r, v)
          /\ runner' = [runner EXCEPT ![r].tx = Executed(@, v, runner[r].files[v], runner[r].files[v])]
    BY <1>6 DEF Execute
  <2> DEFINE f == runner[r].files
             tx == Executed(runner[r].tx, v, f[v], f[v])
  <2>2. Prepared(db, runner[r].tx, f, runner[r].option)
    BY <1>6 DEF Execute, IInv
  <2>3. Prepared(db, tx, f, runner[r].option)
    BY <1>1, <2>1, <2>2, RunnerFields, ExecutedPrepared DEF IsNextFile, TypeOK, LedgerIsTrue
  <2> HIDE DEF tx
  <2>4. /\ runner'[r].tx = tx /\ runner'[r].files = f
        /\ runner'[r].option = runner[r].option
        /\ \A s \in Runners : s # r => runner'[s] = runner[s]
    BY <1>1, <2>1 DEF TypeOK, tx
  <2> QED
    BY <1>6, <2>3, <2>4 DEF Execute, IInv
<1>7. ASSUME NEW r \in Runners, Commit(r) PROVE Batches'
  <2>1. holder' = {} /\ runner'[r].pc = "idle"
    BY <1>1, <1>7 DEF Commit, End, Holding, TypeOK
  <2>2. Holding'
    BY HoldingPreserved, <1>7 DEF Next, RunnerStep
  <2> QED
    BY <2>1, <2>2 DEF Holding
<1>8. CASE UNCHANGED <<runner, db>>
  BY <1>8 DEF IInv
<1> QED
  BY <1>3, <1>4, <1>5, <1>6, <1>7, <1>8
     DEF Next, RunnerStep, InspectColumns, InspectRows, Edit, vars

\* What a commit puts in place of the committed database: the same ledger, grown.
LEMMA CommitGrows ==
  ASSUME IInv, NEW r \in Runners, Commit(r)
  PROVE  /\ Prepared(db, db', runner[r].files, runner[r].option)
         /\ IsSound(db') /\ Grows(db, db')
<1>1. db' = runner[r].tx /\ Prepared(db, runner[r].tx, runner[r].files, runner[r].option)
  BY DEF Commit, IInv, Batches
<1> QED
  BY <1>1, PreparedGrows DEF IInv, LedgerIsTrue, Prepared

\* The ledger stays true.
LEMMA LedgerPreserved ==
  ASSUME IInv, [Next]_vars
  PROVE  LedgerIsTrue'
<1>1. CASE \E r \in Runners : Commit(r)
  BY <1>1, CommitGrows DEF LedgerIsTrue
<1>2. CASE db' = db
  BY <1>2 DEF LedgerIsTrue, IInv
<1> QED
  BY <1>1, <1>2 DEF Next, RunnerStep, Start, Lock, Reject, Check, BeginBatch, Execute, Refuse, Die,
                    InspectColumns, InspectRows, Edit, vars, ledgerVars

\* What two reads of a growing ledger amount to is one of the two answers.
LEMMA SeenVerdict ==
  ASSUME NEW old \in Database, NEW new \in Database, NEW f, Grows(old, new)
  PROVE  Verdict(Seen(old, new), f) \in {Verdict(old, f), Verdict(new, f)}
<1>1. CASE ~old.table
  BY <1>1 DEF Seen
<1>2. CASE old.table /\ old.checksums
  <2>1. /\ Seen(old, new).table /\ Seen(old, new).checksums
        /\ Seen(old, new).applied = new.applied
    BY <1>2, DatabaseFields DEF Seen, Database
  <2>2. new.table /\ new.checksums
    BY <1>2 DEF Grows
  <2>3. Drifted(Seen(old, new), f) = Drifted(new, f) /\ Pending(Seen(old, new), f) = Pending(new, f)
    BY <2>1, <2>2 DEF Drifted, Pending
  <2> QED
    BY <2>1, <2>2, <2>3 DEF Verdict
<1>3. CASE old.table /\ ~old.checksums
  <2>1. /\ Seen(old, new).table /\ ~Seen(old, new).checksums
        /\ Seen(old, new).applied = new.applied
    BY <1>3, DatabaseFields DEF Seen, Database
  <2>2. CASE DOMAIN new.applied \subseteq DOMAIN f
    <3>1. ~Drifted(Seen(old, new), f) /\ ~Drifted(old, f)
      BY <1>3, <2>1, <2>2 DEF Drifted, Grows
    <3> QED
      BY <1>3, <2>1, <3>1 DEF Verdict
  <2>3. CASE ~(DOMAIN new.applied \subseteq DOMAIN f)
    <3>1. Drifted(Seen(old, new), f) /\ Drifted(new, f)
      BY <2>1, <2>3 DEF Drifted
    <3> QED
      BY <3>1 DEF Verdict
  <2> QED
    BY <2>2, <2>3
<1> QED
  BY <1>1, <1>2, <1>3

\* The preflight's possible answers, and the one it gives.
LEMMA InspectionPreserved ==
  ASSUME IInv, [Next]_vars
  PROVE  Inspecting' /\ VerdictWasTrue'
<1> USE DEF Inspecting, VerdictWasTrue, IInv
<1>1. ASSUME NEW r \in Runners, Commit(r) PROVE Inspecting' /\ VerdictWasTrue'
  <2>1. CASE inspector.pc = "idle"
    BY <1>1, <2>1 DEF Commit, Witnessed
  <2>2. CASE inspector.pc = "rows"
    <3>1. inspector' = [inspector EXCEPT !.possible = @ \cup {Verdict(db', inspector.files)}]
      BY <1>1, <2>2 DEF Commit, Witnessed
    <3>2. /\ inspector'.pc = "rows" /\ inspector'.first = inspector.first
          /\ inspector'.files = inspector.files /\ inspector'.state = inspector.state
          /\ inspector'.possible = inspector.possible \cup {Verdict(db', inspector.files)}
      BY <2>2, <3>1 DEF TypeOK
    <3>3. Grows(inspector.first, db')
      BY <1>1, <2>2, CommitGrows DEF Grows
    <3> QED
      BY <2>2, <3>2, <3>3
  <2> QED
    BY <2>1, <2>2 DEF TypeOK
<1>2. CASE InspectColumns
  BY <1>2 DEF InspectColumns, Grows, ledgerVars, States
<1>3. CASE InspectRows
  <2>1. Verdict(Seen(inspector.first, db), inspector.files) \in inspector.possible
    <3>1. inspector.first \in Database /\ db \in Database
      BY DEF TypeOK
    <3> QED
      BY <1>3, <3>1, SeenVerdict DEF InspectRows
  <2> QED
    BY <1>3, <2>1 DEF InspectRows, TypeOK
<1>4. CASE UNCHANGED <<db, inspector>>
  BY <1>4
<1> QED
  BY <1>1, <1>2, <1>3, <1>4
     DEF Next, RunnerStep, Start, Lock, Reject, Check, BeginBatch, Execute, Refuse, Die,
         Edit, vars, ledgerVars

LEMMA NextInvariant == IInv /\ [Next]_vars => IInv'
BY NextTypeOK, HoldingPreserved, BatchesPreserved, LedgerPreserved, InspectionPreserved DEF IInv

\* Every reachable state satisfies the invariant (apply_migrations: the lock first, then the look at
\* the ledger, then the SQL, and one commit).
THEOREM Invariant == Spec => []IInv
BY InitInvariant, NextInvariant, PTL DEF Spec

-------------------------------------------------------------------------------
(***************************************************************************)
(* What the invariant promises.                                            *)
(***************************************************************************)
\* The committed ledger lists exactly what was executed, each version once and with the digest of
\* the executed bytes, for any number of runners and whatever the checkout changes to while they
\* wait (apply_migrations hashes its files before the transaction and executes what it hashed).
THEOREM LedgerIsTrueHolds == Spec => []LedgerIsTrue
<1>1. IInv => LedgerIsTrue
  BY DEF IInv
<1> QED
  BY Invariant, <1>1, PTL

\* A runner never meets a row or a table that another one committed after it looked: the look and
\* the SQL are under one advisory lock, which is taken before the look.
THEOREM RunnersNeverCollideHolds == Spec => []RunnersNeverCollide
<1>1. IInv => RunnersNeverCollide
  <2> SUFFICES ASSUME IInv, NEW r \in Runners, At(r, "execute"), NEW v \in Versions, IsNextFile(r, v)
               PROVE  ~Collides(r, v)
    BY DEF RunnersNeverCollide
  <2>1. Prepared(db, runner[r].tx, runner[r].files, runner[r].option)
    BY DEF IInv, Batches
  <2>2. v \notin DOMAIN runner[r].tx.applied
    BY DEF IsNextFile, Pending
  <2> QED
    BY <2>1, <2>2 DEF Prepared, Collides
<1> QED
  BY Invariant, <1>1, PTL

\* What the preflight answers was the answer for a database that was committed while it ran
\* (inspect_migrations reads the columns and the rows in two statements, without the lock).
THEOREM VerdictWasTrueHolds == Spec => []VerdictWasTrue
<1>1. IInv => VerdictWasTrue
  BY DEF IInv
<1> QED
  BY Invariant, <1>1, PTL

\* The four answers of the preflight tell which commands the runner would accept: two
\* implementations of one comparison (migration_preflight.py and migrations.py) agree on every
\* ledger the runners can leave and every checkout.
THEOREM PreflightAgreesHolds == Spec => []PreflightAgrees
<1>1. IInv => PreflightAgrees
  <2> SUFFICES ASSUME IInv, NEW f \in Checkouts, DOMAIN f # {}, db.table
               PROVE  LET accepted == {option \in Options : Accepts(db, f, option)}
                      IN  CASE Verdict(db, f) = "VERIFIED" -> accepted = Options
                            [] Verdict(db, f) = "PENDING_REVIEW" -> accepted = Options \ {"check"}
                            [] Verdict(db, f) = "LEGACY_REVIEW_REQUIRED" ->
                                 accepted = IF Pending(db, f) = {} THEN {"adopt", "check"} ELSE {}
                            [] Verdict(db, f) = "BLOCKED" -> accepted = {}
    BY DEF PreflightAgrees
  <2> DEFINE accepted == {option \in Options : Accepts(db, f, option)}
  <2>1. CASE Drifted(db, f)
    <3>1. Verdict(db, f) = "BLOCKED" /\ accepted = {}
      BY <2>1 DEF Verdict, Accepts
    <3> QED
      BY <3>1
  <2>2. CASE ~Drifted(db, f) /\ ~db.checksums
    <3>1. Verdict(db, f) = "LEGACY_REVIEW_REQUIRED"
      BY <2>2 DEF Verdict
    <3>2. accepted = IF Pending(db, f) = {} THEN {"adopt", "check"} ELSE {}
      BY <2>2 DEF Accepts, Options
    <3> QED
      BY <3>1, <3>2
  <2>3. CASE ~Drifted(db, f) /\ db.checksums /\ Pending(db, f) # {}
    <3>1. Verdict(db, f) = "PENDING_REVIEW" /\ accepted = Options \ {"check"}
      BY <2>3 DEF Verdict, Accepts, Options
    <3> QED
      BY <3>1
  <2>4. CASE ~Drifted(db, f) /\ db.checksums /\ Pending(db, f) = {}
    <3>1. Verdict(db, f) = "VERIFIED" /\ accepted = Options
      BY <2>4 DEF Verdict, Accepts, Options
    <3> QED
      BY <3>1
  <2> QED
    BY <2>1, <2>2, <2>3, <2>4
<1> QED
  BY Invariant, <1>1, PTL

-------------------------------------------------------------------------------
(***************************************************************************)
(* Runners on one database act as if each ran alone.                       *)
(***************************************************************************)
\* A longer sequence is the shorter one and its rest.
LEMMA RestAppended ==
  ASSUME NEW S, NEW old \in Seq(S), NEW new \in Seq(S),
         NEW n \in Nat, n = Len(old), NEW m \in Nat, m = Len(new), n <= m,
         \A i \in 1..n : new[i] = old[i],
         NEW rest, rest = SubSeq(new, n + 1, m)
  PROVE  /\ new = old \o rest
         /\ DOMAIN rest = 1..(m - n)
         /\ \A i \in DOMAIN rest : rest[i] = new[n + i]
<1>1. \A i \in (n + 1)..m : new[i] \in S
  BY ElementOfSeq
<1>2. /\ rest \in Seq(S)
      /\ Len(rest) = IF n + 1 <= m THEN m - (n + 1) + 1 ELSE 0
      /\ \A i \in 1..(m - (n + 1) + 1) : rest[i] = new[n + 1 + i - 1]
  BY <1>1, SubSeqProperties
<1>3. Len(rest) = m - n /\ n + Len(rest) = m
  BY <1>2
<1>4. \A i \in 1..(m - n) : rest[i] = new[n + i]
  <2>1. m - (n + 1) + 1 = m - n /\ \A i \in 1..(m - n) : n + 1 + i - 1 = n + i
    OBVIOUS
  <2> QED
    BY <1>2, <2>1
<1>5. /\ old \o rest \in Seq(S) /\ Len(old \o rest) = m
      /\ \A i \in 1..m : (old \o rest)[i] = IF i <= n THEN old[i] ELSE rest[i - n]
  BY <1>2, <1>3, ConcatProperties
<1>6. \A i \in 1..m : (old \o rest)[i] = new[i]
  <2> SUFFICES ASSUME NEW i \in 1..m PROVE (old \o rest)[i] = new[i]
    OBVIOUS
  <2>1. CASE i <= n
    <3>1. i \in 1..n
      BY <2>1
    <3> QED
      BY <1>5, <2>1, <3>1
  <2>2. CASE ~(i <= n)
    <3>1. i - n \in 1..(m - n) /\ n + (i - n) = i
      BY <2>2
    <3> QED
      BY <1>4, <1>5, <2>2, <3>1
  <2> QED
    BY <2>1, <2>2
<1>7. new = old \o rest
  BY <1>5, <1>6, SeqEqual
<1>8. DOMAIN rest = 1..(m - n)
  BY <1>2, <1>3, LenProperties
<1> QED
  BY <1>4, <1>7, <1>8

\* A transaction with nothing pending is an adoption, if there was a ledger without checksums.
LEMMA CommitAdopts ==
  ASSUME IInv, NEW r \in Runners, Commit(r), db' # db, db.table, ~db.checksums
  PROVE  Ledger!Adopt(runner[r].files)
<1> DEFINE f == runner[r].files
           option == runner[r].option
<1>1. f \in Checkouts /\ db \in Database /\ db' \in Database
  <2>1. db' = runner[r].tx
    BY DEF Commit
  <2> QED
    BY <2>1, RunnerFields DEF IInv, TypeOK
<1>2. Prepared(db, db', f, option) /\ IsSound(db') /\ Pending(db', f) = {} /\ option \in Options
  BY CommitGrows, RunnerFields DEF Commit, IInv
<1>3. option = "adopt" /\ Pending(db, f) = {} /\ DOMAIN f = DOMAIN db.applied
  BY <1>2 DEF Prepared, Accepts, Options, Pending, Drifted
<1>4. DOMAIN db'.applied = DOMAIN f /\ \A v \in DOMAIN f : db'.applied[v] = f[v]
  BY <1>2, <1>3 DEF Prepared
<1>5. db'.applied = f
  BY <1>1, <1>4, CheckoutFields, DatabaseFields
<1>6. db'.executed = db.executed
  <2>1. /\ Len(db.executed) \in Nat /\ Len(db'.executed) \in Nat
        /\ db.executed \in Seq(Entry) /\ db'.executed \in Seq(Entry)
        /\ DOMAIN db.executed = 1..Len(db.executed) /\ DOMAIN db'.executed = 1..Len(db'.executed)
    BY <1>1, DatabaseFields
  <2>2. NewEntries(db, db') = {}
    <3>1. \A i \in DOMAIN db'.executed : db'.executed[i].version \in DOMAIN db.applied
      BY <1>2, <1>3, <1>4 DEF IsSound
    <3>2. \A i \in NewEntries(db, db') :
            i \in DOMAIN db'.executed /\ db'.executed[i].version \notin DOMAIN db.applied
      BY <1>2, <2>1 DEF Prepared, NewEntries
    <3> QED
      BY <3>1, <3>2
  <2>3. Len(db'.executed) = Len(db.executed)
    <3>1. Len(db.executed) <= Len(db'.executed)
      BY <1>2 DEF Prepared
    <3>2. ~(Len(db.executed) < Len(db'.executed))
      <4>1. Len(db.executed) < Len(db'.executed) => Len(db.executed) + 1 \in NewEntries(db, db')
        BY <2>1 DEF NewEntries
      <4> QED
        BY <2>2, <4>1
    <3> QED
      BY <2>1, <3>1, <3>2
  <2>4. \A i \in 1..Len(db.executed) : db'.executed[i] = db.executed[i]
    BY <1>2, <2>1 DEF Prepared
  <2> QED
    BY <2>1, <2>3, <2>4, SeqEqual
<1>7. db'.table = db.table /\ db'.checksums = TRUE
  BY <1>1, <1>2, DatabaseFields DEF Prepared
<1>8. db' = [db EXCEPT !.checksums = TRUE, !.applied = f]
  <2>1. /\ db = [table |-> db.table, checksums |-> db.checksums,
                 applied |-> db.applied, executed |-> db.executed]
        /\ db' = [table |-> db'.table, checksums |-> db'.checksums,
                  applied |-> db'.applied, executed |-> db'.executed]
    BY <1>1, DatabaseFields
  <2> QED
    BY <1>5, <1>6, <1>7, <2>1
<1>9. cause' = [option |-> "adopt", files |-> f]
  BY <1>3 DEF Commit
<1> QED
  BY <1>3, <1>8, <1>9 DEF Ledger!Adopt

\* Otherwise it is an upgrade.
LEMMA CommitUpgrades ==
  ASSUME IInv, NEW r \in Runners, Commit(r), db' # db, db.table => db.checksums
  PROVE  Ledger!Upgrade(runner[r].files)
<1> DEFINE f == runner[r].files
           option == runner[r].option
           n == Len(db.executed)
           m == Len(db'.executed)
           s == SubSeq(db'.executed, n + 1, m)
<1>1. f \in Checkouts /\ db \in Database /\ db' \in Database
  <2>1. db' = runner[r].tx
    BY DEF Commit
  <2> QED
    BY <2>1, RunnerFields DEF IInv, TypeOK
<1>2. /\ Prepared(db, db', f, option) /\ IsSound(db') /\ IsSound(db) /\ Pending(db', f) = {}
      /\ option \in Options
  BY CommitGrows, RunnerFields DEF Commit, IInv, LedgerIsTrue
<1>3. /\ n \in Nat /\ m \in Nat /\ n <= m
      /\ db.executed \in Seq(Entry) /\ db'.executed \in Seq(Entry)
      /\ DOMAIN db.executed = 1..n /\ DOMAIN db'.executed = 1..m
      /\ \A i \in DOMAIN db.executed : db'.executed[i] = db.executed[i]
  BY <1>1, <1>2, DatabaseFields DEF Prepared
<1>4. /\ db'.executed = db.executed \o s
      /\ DOMAIN s = 1..(m - n) /\ \A i \in DOMAIN s : s[i] = db'.executed[n + i]
  <2> HIDE DEF n, m
  <2>1. n = Len(db.executed) /\ m = Len(db'.executed) /\ \A i \in 1..n : db'.executed[i] = db.executed[i]
    BY <1>3 DEF n, m
  <2>2. s = SubSeq(db'.executed, n + 1, m)
    OBVIOUS
  <2> HIDE DEF s
  <2> DEFINE old == db.executed
             new == db'.executed
  <2>3. /\ old \in Seq(Entry) /\ new \in Seq(Entry) /\ n \in Nat /\ m \in Nat /\ n <= m
        /\ n = Len(old) /\ m = Len(new) /\ s = SubSeq(new, n + 1, m)
        /\ \A i \in 1..n : new[i] = old[i]
    BY <1>3, <2>1, <2>2
  <2> HIDE DEF old, new
  <2>4. /\ new = old \o s
        /\ DOMAIN s = 1..(m - n)
        /\ \A i \in DOMAIN s : s[i] = new[n + i]
    BY <2>3, RestAppended
  <2> QED
    BY <2>4 DEF old, new
<1> HIDE DEF s
<1>5. \A i \in DOMAIN s : n + i \in NewEntries(db, db')
  BY <1>3, <1>4 DEF NewEntries
<1>6. \A i \in NewEntries(db, db') : i - n \in DOMAIN s /\ s[i - n] = db'.executed[i]
  <2> SUFFICES ASSUME NEW i \in NewEntries(db, db')
               PROVE  i - n \in DOMAIN s /\ s[i - n] = db'.executed[i]
    OBVIOUS
  <2>1. i - n \in 1..(m - n) /\ n + (i - n) = i
    BY <1>3 DEF NewEntries
  <2> QED
    BY <1>4, <2>1
<1>7. DOMAIN db'.applied = DOMAIN f /\ \A v \in DOMAIN f : db'.applied[v] = f[v]
  BY <1>2 DEF Prepared, Pending
<1>8. Ledger!Continues(f, db)
  <2>1. CASE db.checksums
    BY <1>2, <2>1 DEF Prepared, Accepts, Drifted, Ledger!Continues
  <2>2. CASE ~db.checksums
    BY <1>2, <2>2 DEF IsSound, Ledger!Continues
  <2> QED
    BY <2>1, <2>2
<1>9. Ledger!IsBatch(s, db, f)
  <2>1. ASSUME NEW i \in DOMAIN s
        PROVE  s[i].version \in DOMAIN f \ DOMAIN db.applied /\ s[i].content = f[s[i].version]
    <3>1. s[i] = db'.executed[n + i] /\ n + i \in NewEntries(db, db') /\ n + i \in DOMAIN db'.executed
      BY <1>3, <1>4, <1>5 DEF NewEntries
    <3>2. s[i].version \in DOMAIN f
      BY <1>2, <1>7, <3>1 DEF IsSound
    <3> QED
      BY <1>2, <3>1, <3>2 DEF Prepared
  <2>2. ASSUME NEW v \in DOMAIN f \ DOMAIN db.applied
        PROVE  \E i \in DOMAIN s : s[i].version = v
    <3>1. PICK i \in DOMAIN db'.executed : db'.executed[i].version = v
      BY <1>2, <1>7 DEF IsSound
    <3>2. ~(i \in 1..n)
      BY <1>2, <1>3, <3>1 DEF IsSound
    <3>3. i \in NewEntries(db, db')
      BY <1>3, <3>2 DEF NewEntries
    <3> QED
      BY <1>6, <3>1, <3>3
  <2>3. ASSUME NEW i \in DOMAIN s, NEW j \in DOMAIN s, i < j
        PROVE  s[i].version < s[j].version
    <3>1. /\ s[i] = db'.executed[n + i] /\ n + i \in NewEntries(db, db')
          /\ s[j] = db'.executed[n + j] /\ n + j \in NewEntries(db, db') /\ n + i < n + j
      <4>1. i \in Int /\ j \in Int
        BY <1>3, <1>4
      <4>2. n + i < n + j
        BY <1>3, <2>3, <4>1
      <4> QED
        BY <1>4, <1>5, <4>2
    <3> QED
      BY <1>2, <3>1 DEF Prepared
  <2> QED
    BY <2>1, <2>2, <2>3 DEF Ledger!IsBatch
<1>10. db'.table /\ db'.checksums
  <2>1. CASE db'.table
    BY <1>2, <2>1 DEF Prepared
  <2>2. CASE ~db'.table
    \* Then nothing was executed, before or since, and there is no change.
    <3>1. DOMAIN db'.applied = {} /\ ~db'.checksums /\ ~db.table
      BY <1>2, <2>2 DEF IsSound, Prepared
    <3>2. DOMAIN db.applied = {} /\ ~db.checksums
      BY <1>2, <3>1 DEF IsSound
    <3>3. db'.executed = db.executed
      <4>1. DOMAIN db'.executed = {} /\ DOMAIN db.executed = {}
        <5>1. ASSUME NEW d, IsSound(d), DOMAIN d.applied = {} PROVE DOMAIN d.executed = {}
          <6>1. \A i \in DOMAIN d.executed : d.executed[i].version \in DOMAIN d.applied
            BY <5>1 DEF IsSound
          <6> QED
            BY <5>1, <6>1
        <5> QED
          BY <1>2, <3>1, <3>2, <5>1
      <4>2. n = 0 /\ m = 0
        BY <1>3, <4>1
      <4> QED
        BY <1>3, <4>2, SeqEqual
    <3>4. db'.applied = db.applied
      BY <1>1, <3>1, <3>2, DatabaseFields
    <3>5. db'.table = db.table /\ db'.checksums = db.checksums
      BY <1>1, <2>2, <3>1, <3>2, DatabaseFields
    <3>6. db' = db
      <4>1. /\ db = [table |-> db.table, checksums |-> db.checksums,
                     applied |-> db.applied, executed |-> db.executed]
            /\ db' = [table |-> db'.table, checksums |-> db'.checksums,
                      applied |-> db'.applied, executed |-> db'.executed]
        BY <1>1, DatabaseFields
      <4> QED
        BY <3>3, <3>4, <3>5, <4>1
    <3> QED
      BY <3>6
  <2> QED
    BY <2>1, <2>2
<1>11. db'.applied = f
  BY <1>1, <1>7, CheckoutFields, DatabaseFields
<1>12. db' = [table |-> TRUE, checksums |-> TRUE, applied |-> f, executed |-> db.executed \o s]
  <2>1. db' = [table |-> db'.table, checksums |-> db'.checksums,
               applied |-> db'.applied, executed |-> db'.executed]
    BY <1>1, DatabaseFields
  <2>2. db'.table = TRUE /\ db'.checksums = TRUE
    BY <1>1, <1>10, DatabaseFields
  <2> QED
    BY <1>4, <1>11, <2>1, <2>2
<1>13. cause' \in [option : {"apply", "adopt"}, files : {f}]
  <2>1. cause' = [option |-> option, files |-> f]
    BY DEF Commit
  <2>2. option \in {"apply", "adopt"}
    BY <1>2 DEF Prepared, Options
  <2> QED
    BY <2>1, <2>2
<1> QED
  BY <1>8, <1>9, <1>12, <1>13 DEF Ledger!Upgrade, s

LEMMA LedgerStep == IInv /\ [Next]_vars => [Ledger!Next]_<<db, cause>>
<1> SUFFICES ASSUME IInv, [Next]_vars, <<db, cause>>' # <<db, cause>>
             PROVE  Ledger!Next
  OBVIOUS
<1>1. PICK r \in Runners : Commit(r)
  BY DEF Next, RunnerStep, Start, Lock, Reject, Check, BeginBatch, Execute, Refuse, Die,
         InspectColumns, InspectRows, Edit, vars, ledgerVars
<1>2. db' # db
  BY <1>1 DEF Commit
<1>3. runner[r].files \in Checkouts
  BY RunnerFields DEF IInv
<1> QED
  BY <1>1, <1>2, <1>3, CommitAdopts, CommitUpgrades DEF Ledger!Next

\* Concurrent runners, edited checkouts, failures and dying processes are invisible in the
\* committed database: it changes as if each runner ran alone at the moment it commits
\* (apply_migrations: one transaction under one lock).
THEOREM ImplementsLedgerHolds == Spec => ImplementsLedger
<1>1. Init => Ledger!Init
  BY DEF Init, Ledger!Init, NoCause, Ledger!NoCause
<1> QED
  BY Invariant, <1>1, LedgerStep, PTL DEF Spec, ImplementsLedger, Ledger!Spec
===============================================================================
