------------------------------ MODULE Migrations ------------------------------
(***************************************************************************)
(* `opendq migrate' (storage/migrations.py) run by several processes at    *)
(* once on one database, while the SQL files of the checkout change, and   *)
(* the read-only preflight (storage/migration_preflight.py) beside them.   *)
(*                                                                         *)
(* A runner reads and hashes its files, opens one transaction, takes the   *)
(* advisory lock and then compares, adopts or executes; the lock is        *)
(* released when the transaction ends.  A file name is a number, in the    *)
(* order the names sort in, and a file's bytes stand for their SHA-256.    *)
(***************************************************************************)
EXTENDS Naturals, Sequences

CONSTANTS
  Versions,    \* the names of SQL files
  Contents,    \* the bytes of SQL files
  Creating,    \* the contents that create schema_migrations
  Unknown,     \* the checksum column's NULL, and SQL that ran before checksums were kept
  Checkouts,   \* the sets of SQL files there may be: functions from versions to contents
  Databases,   \* the databases a runner may be started on
  Runners,     \* processes
  MaxStarts,   \* bound on the commands that are started
  MaxEdits,    \* bound on the times the SQL files change
  MaxFaults    \* bound on failing SQL and dying processes

\* schema_migrations, and the SQL the database has executed.
Database == [table : BOOLEAN, checksums : BOOLEAN,
             applied : UNION {[V -> Contents \cup {Unknown}] : V \in SUBSET Versions},
             executed : Seq([version : Versions, content : Contents \cup {Unknown}])]

\* The ledger tells what was executed: each version once, and the bytes it has the digest of.
\* There is no digest without the column.
IsSound(d) ==
  /\ {d.executed[i].version : i \in DOMAIN d.executed} = DOMAIN d.applied
  /\ \A i, j \in DOMAIN d.executed : d.executed[i].version = d.executed[j].version => i = j
  /\ \A i \in DOMAIN d.executed : d.executed[i].content \in {Unknown, d.applied[d.executed[i].version]}
  /\ ~d.table => DOMAIN d.applied = {} /\ ~d.checksums
  /\ ~d.checksums => \A v \in DOMAIN d.applied : d.applied[v] = Unknown

ASSUME NameAssumption == Versions \subseteq Nat
ASSUME ContentAssumption == Creating \subseteq Contents /\ Unknown \notin Contents
ASSUME BoundAssumption == {MaxStarts, MaxEdits, MaxFaults} \subseteq Nat
ASSUME CheckoutAssumption == \A f \in Checkouts : DOMAIN f \subseteq Versions /\ f \in [DOMAIN f -> Contents]
ASSUME DatabaseAssumption == \A d \in Databases : d \in Database /\ IsSound(d)

VARIABLES
  db,          \* the database as it is committed
  cause,       \* the command whose change was committed last: its option and its files
  repository,  \* the SQL files on disk
  holder,      \* the runners whose transactions hold the advisory lock
  runner,      \* per process: pc, option, the files it read, its transaction's database, outcome
  inspector,   \* the preflight: pc, files, the database at its first read, what it may answer
  starts, edits, faults

ledgerVars == <<db, cause>>
vars == <<ledgerVars, repository, holder, runner, inspector, starts, edits, faults>>

Options == {"apply", "adopt", "check"}   \* check is --no-schema-change
States == {"VERIFIED", "LEGACY_REVIEW_REQUIRED", "PENDING_REVIEW", "BLOCKED"}
Outcomes == {"none", "done", "rejected", "failed"}
NoCause == [option |-> "none", files |-> <<>>]

TypeOK ==
  /\ db \in Database
  /\ cause \in {NoCause} \cup [option : Options, files : Checkouts]
  /\ repository \in Checkouts
  /\ holder \in {{}} \cup {{r} : r \in Runners}
  /\ runner \in [Runners -> [pc : {"idle", "lock", "inspect", "execute"}, option : Options,
                             files : Checkouts, tx : Database, outcome : Outcomes]]
  /\ inspector \in [pc : {"idle", "rows"}, files : Checkouts, first : Database,
                    possible : SUBSET States, state : States \cup {"none"}]
  /\ starts \in 0..MaxStarts /\ edits \in 0..MaxEdits /\ faults \in 0..MaxFaults

Init ==
  /\ db \in Databases /\ cause = NoCause
  /\ repository \in Checkouts
  /\ holder = {}
  /\ runner = [r \in Runners |-> [pc |-> "idle", option |-> "apply", files |-> repository,
                                  tx |-> db, outcome |-> "none"]]
  /\ inspector = [pc |-> "idle", files |-> repository, first |-> db, possible |-> {}, state |-> "none"]
  /\ starts = 0 /\ edits = 0 /\ faults = 0

-------------------------------------------------------------------------------
(***************************************************************************)
(* The ledger against a checkout.                                          *)
(***************************************************************************)
Pending(d, f) == DOMAIN f \ DOMAIN d.applied

\* An applied file is missing, or its recorded checksum is another one.
Drifted(d, f) ==
  \E v \in DOMAIN d.applied : v \notin DOMAIN f \/ (d.checksums /\ d.applied[v] # f[v])

\* Whether a command goes on, or raises MigrationDriftError.
Accepts(d, f, option) ==
  /\ ~Drifted(d, f)
  /\ option = "check" => d.table /\ Pending(d, f) = {}
  /\ option = "apply" => (d.table => d.checksums)
  /\ option = "adopt" => (d.table /\ ~d.checksums => Pending(d, f) = {})

\* Wrong on purpose: the column is added and left empty.
AdoptedEmpty(d, f) == IF d.table THEN [d EXCEPT !.checksums = TRUE] ELSE d

\* The ledger with the digests of the files as they are now.
Adopted(d, f) ==
  IF d.table /\ ~d.checksums
  THEN [d EXCEPT !.checksums = TRUE, !.applied = [v \in DOMAIN d.applied |-> f[v]]]
  ELSE d

\* Wrong on purpose: a row without a digest is passed over.
VerdictPassingOver(d, f) ==
  CASE DOMAIN f = {} \/ ~d.table \/ (\E v \in DOMAIN d.applied :
         v \notin DOMAIN f \/ d.applied[v] \notin {Unknown, f[v]}) -> "BLOCKED"
    [] OTHER -> IF ~d.checksums THEN "LEGACY_REVIEW_REQUIRED"
                ELSE IF Pending(d, f) # {} THEN "PENDING_REVIEW" ELSE "VERIFIED"

\* What the preflight answers.
Verdict(d, f) ==
  CASE DOMAIN f = {} \/ ~d.table \/ Drifted(d, f) -> "BLOCKED"
    [] OTHER -> IF ~d.checksums THEN "LEGACY_REVIEW_REQUIRED"
                ELSE IF Pending(d, f) # {} THEN "PENDING_REVIEW" ELSE "VERIFIED"

-------------------------------------------------------------------------------
(***************************************************************************)
(* A runner.                                                               *)
(***************************************************************************)
At(r, label) == runner[r].pc = label

\* The process ends: its transaction, and with it the lock, is gone.
End(r, outcome) ==
  /\ runner' = [runner EXCEPT ![r].pc = "idle", ![r].outcome = outcome]
  /\ holder' = holder \ {r}

Fault == faults < MaxFaults /\ faults' = faults + 1

\* Reads and hashes the files; a directory without SQL files is refused.
Start(r, option) ==
  /\ At(r, "idle") /\ starts < MaxStarts
  /\ starts' = starts + 1
  /\ runner' = [runner EXCEPT ![r] =
       [pc |-> IF DOMAIN repository = {} THEN "idle" ELSE "lock", option |-> option,
        files |-> repository, tx |-> db,
        outcome |-> IF DOMAIN repository = {} THEN "failed" ELSE "none"]]
  /\ UNCHANGED <<ledgerVars, repository, holder, inspector, edits, faults>>

\* Wrong on purpose: the lock is not waited for.
LockAtOnce(r) ==
  /\ At(r, "lock")
  /\ holder' = holder \cup {r}
  /\ runner' = [runner EXCEPT ![r].pc = "inspect"]
  /\ UNCHANGED <<ledgerVars, repository, inspector, starts, edits, faults>>

\* pg_advisory_xact_lock.
Lock(r) ==
  /\ At(r, "lock") /\ holder = {}
  /\ holder' = {r}
  /\ runner' = [runner EXCEPT ![r].pc = "inspect"]
  /\ UNCHANGED <<ledgerVars, repository, inspector, starts, edits, faults>>

Reject(r) ==
  /\ At(r, "inspect") /\ ~Accepts(db, runner[r].files, runner[r].option)
  /\ End(r, "rejected")
  /\ UNCHANGED <<ledgerVars, repository, inspector, starts, edits, faults>>

\* --no-schema-change returns without touching anything.
Check(r) ==
  /\ At(r, "inspect") /\ runner[r].option = "check"
  /\ Accepts(db, runner[r].files, "check")
  /\ End(r, "done")
  /\ UNCHANGED <<ledgerVars, repository, inspector, starts, edits, faults>>

\* Wrong on purpose: a changed file is recorded anew instead of refused.
BeginBatchRebasing(r) ==
  /\ At(r, "inspect") /\ runner[r].option # "check"
  /\ DOMAIN db.applied \subseteq DOMAIN runner[r].files
  /\ runner' = [runner EXCEPT ![r].pc = "execute",
                  ![r].tx = Adopted([db EXCEPT !.checksums = FALSE], runner[r].files)]
  /\ UNCHANGED <<ledgerVars, repository, holder, inspector, starts, edits, faults>>

\* Wrong on purpose: the lock protects the look at the ledger only.
BeginBatchUnlocked(r) ==
  /\ At(r, "inspect") /\ runner[r].option # "check"
  /\ Accepts(db, runner[r].files, runner[r].option)
  /\ runner' = [runner EXCEPT ![r].pc = "execute", ![r].tx = Adopted(db, runner[r].files)]
  /\ holder' = holder \ {r}
  /\ UNCHANGED <<ledgerVars, repository, inspector, starts, edits, faults>>

\* The ledger is accepted; a legacy one gets its checksums first.
BeginBatch(r) ==
  /\ At(r, "inspect") /\ runner[r].option # "check"
  /\ Accepts(db, runner[r].files, runner[r].option)
  /\ runner' = [runner EXCEPT ![r].pc = "execute", ![r].tx = Adopted(db, runner[r].files)]
  /\ UNCHANGED <<ledgerVars, repository, holder, inspector, starts, edits, faults>>

\* The next file in sorted order that was not applied when the runner looked.
IsNextFile(r, v) ==
  /\ v \in Pending(runner[r].tx, runner[r].files)
  /\ \A w \in Pending(runner[r].tx, runner[r].files) : v <= w

\* Another runner has committed this version, or created the table, since this one looked:
\* a duplicate key, or a table that exists already.
Collides(r, v) ==
  \/ v \in DOMAIN db.applied
  \/ runner[r].files[v] \in Creating /\ db.table /\ ~runner[r].tx.table

\* CREATE TABLE schema_migrations fails on a database that has it; a fresh one needs it first.
Executable(d, content) == content \in Creating <=> ~d.table

Executed(d, v, content, digest) ==
  [table |-> TRUE, checksums |-> TRUE,
   applied |-> [w \in DOMAIN d.applied \cup {v} |-> IF w = v THEN digest ELSE d.applied[w]],
   executed |-> Append(d.executed, [version |-> v, content |-> content])]

\* Wrong on purpose: the file is read again when its turn comes.
ExecuteRereading(r) ==
  /\ At(r, "execute")
  /\ \E v \in Versions :
       /\ IsNextFile(r, v) /\ Executable(runner[r].tx, runner[r].files[v])
       /\ runner' = [runner EXCEPT ![r].tx =
            Executed(@, v, IF v \in DOMAIN repository THEN repository[v] ELSE runner[r].files[v],
                     runner[r].files[v])]
  /\ UNCHANGED <<ledgerVars, repository, holder, inspector, starts, edits, faults>>

\* One file and its ledger row.
Execute(r) ==
  /\ At(r, "execute")
  /\ \E v \in Versions :
       /\ IsNextFile(r, v) /\ Executable(runner[r].tx, runner[r].files[v])
       /\ runner' = [runner EXCEPT ![r].tx = Executed(@, v, runner[r].files[v], runner[r].files[v])]
  /\ UNCHANGED <<ledgerVars, repository, holder, inspector, starts, edits, faults>>

\* The SQL is refused, or the first file of a fresh database does not create the ledger.
Refuse(r) ==
  /\ At(r, "execute")
  /\ \E v \in Versions : IsNextFile(r, v) /\ ~Executable(runner[r].tx, runner[r].files[v])
  /\ End(r, "failed")
  /\ UNCHANGED <<ledgerVars, repository, inspector, starts, edits, faults>>

\* What a preflight under way may answer now that the database changes.
Witnessed ==
  inspector' = IF inspector.pc = "idle" THEN inspector
               ELSE [inspector EXCEPT !.possible = @ \cup {Verdict(db', inspector.files)}]

\* Wrong on purpose: every file is committed by itself, before the next one.
CommitEach(r) ==
  /\ At(r, "execute")
  /\ runner[r].tx # db \/ Pending(runner[r].tx, runner[r].files) = {}
  /\ db' = runner[r].tx
  /\ cause' = IF db' = db THEN cause ELSE [option |-> runner[r].option, files |-> runner[r].files]
  /\ IF Pending(runner[r].tx, runner[r].files) = {} THEN End(r, "done") ELSE UNCHANGED <<runner, holder>>
  /\ Witnessed
  /\ UNCHANGED <<repository, starts, edits, faults>>

\* The transaction ends after the last file.
Commit(r) ==
  /\ At(r, "execute") /\ Pending(runner[r].tx, runner[r].files) = {}
  /\ db' = runner[r].tx
  /\ cause' = IF db' = db THEN cause ELSE [option |-> runner[r].option, files |-> runner[r].files]
  /\ End(r, "done")
  /\ Witnessed
  /\ UNCHANGED <<repository, starts, edits, faults>>

\* Wrong on purpose: a lock of the session, which a pooled connection keeps.
DieLocked(r) ==
  /\ ~At(r, "idle") /\ Fault
  /\ runner' = [runner EXCEPT ![r].pc = "idle", ![r].outcome = "failed"]
  /\ UNCHANGED <<ledgerVars, repository, holder, inspector, starts, edits>>

\* Failing SQL, a lost connection or a dying process: PostgreSQL rolls back.
Die(r) ==
  /\ ~At(r, "idle") /\ Fault
  /\ End(r, "failed")
  /\ UNCHANGED <<ledgerVars, repository, inspector, starts, edits>>

-------------------------------------------------------------------------------
(***************************************************************************)
(* The preflight reads the ledger's columns and then its rows, each as it  *)
(* is committed at that moment.                                            *)
(***************************************************************************)
InspectColumns ==
  /\ inspector.pc = "idle" /\ starts < MaxStarts
  /\ starts' = starts + 1
  /\ inspector' = [pc |-> "rows", files |-> repository, first |-> db,
                   possible |-> {Verdict(db, repository)}, state |-> "none"]
  /\ UNCHANGED <<ledgerVars, repository, holder, runner, edits, faults>>

\* Wrong on purpose: the rows are read before the columns.
SeenRowsFirst(old, new) == [old EXCEPT !.checksums = new.checksums]

\* What the two reads amount to.
Seen(old, new) == IF old.table THEN [old EXCEPT !.applied = new.applied] ELSE old

InspectRows ==
  /\ inspector.pc = "rows"
  /\ inspector' = [inspector EXCEPT !.pc = "idle",
                     !.state = Verdict(Seen(inspector.first, db), inspector.files)]
  /\ UNCHANGED <<ledgerVars, repository, holder, runner, starts, edits, faults>>

\* Another checkout is deployed, or a file is edited.
Edit ==
  /\ edits < MaxEdits
  /\ edits' = edits + 1
  /\ repository' \in Checkouts \ {repository}
  /\ UNCHANGED <<ledgerVars, holder, runner, inspector, starts, faults>>

-------------------------------------------------------------------------------
RunnerStep(r) ==
  \/ Lock(r) \/ Reject(r) \/ Check(r) \/ BeginBatch(r)
  \/ Execute(r) \/ Refuse(r) \/ Commit(r)

Next ==
  \/ \E r \in Runners : RunnerStep(r) \/ Die(r) \/ \E option \in Options : Start(r, option)
  \/ InspectColumns \/ InspectRows \/ Edit

Spec == Init /\ [][Next]_vars

\* A started process is run, and the lock is granted when it is free.
FairSpec == Spec /\ \A r \in Runners : WF_vars(RunnerStep(r))

-------------------------------------------------------------------------------
\* Runners on one database act as if each ran alone, at the moment it commits: the schema
\* changes by whole batches in file order, adoption needs its option and nothing pending, and
\* --no-schema-change changes nothing (apply_migrations, its transaction and its lock).
Ledger == INSTANCE MigrationLedger
ImplementsLedger == Ledger!Spec

\* The committed ledger lists exactly what was executed, each version once, and its digests are
\* those of the executed bytes, although files change while runners wait (the files are read
\* once, before the transaction).
LedgerIsTrue == IsSound(db)

\* A runner never meets a row or a table another runner committed after it looked at the ledger:
\* concurrent runners do not make each other fail (pg_advisory_xact_lock comes first).
RunnersNeverCollide ==
  \A r \in Runners : At(r, "execute") =>
    \A v \in Versions : IsNextFile(r, v) => ~Collides(r, v)

\* The preflight and the runner read one ledger in the same way: VERIFIED is where every option
\* is accepted, PENDING_REVIEW where only --no-schema-change is refused, a legacy ledger is
\* refused by a plain run, and what is BLOCKED for a reason other than a missing ledger or
\* missing files is refused by all.
PreflightAgrees ==
  \A f \in Checkouts : DOMAIN f # {} /\ db.table =>
    LET accepted == {option \in Options : Accepts(db, f, option)}
    IN  CASE Verdict(db, f) = "VERIFIED" -> accepted = Options
          [] Verdict(db, f) = "PENDING_REVIEW" -> accepted = Options \ {"check"}
          [] Verdict(db, f) = "LEGACY_REVIEW_REQUIRED" ->
               accepted = IF Pending(db, f) = {} THEN {"adopt", "check"} ELSE {}
          [] Verdict(db, f) = "BLOCKED" -> accepted = {}

\* The preflight's answer was right at some moment while it ran, although a runner may commit
\* between its reads.
VerdictWasTrue == inspector.state # "none" => inspector.state \in inspector.possible

\* A runner ends, also when another one died while it held the lock.
EveryRunnerEnds == \A r \in Runners : ~At(r, "idle") ~> At(r, "idle")
===============================================================================
