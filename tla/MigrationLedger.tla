---------------------------- MODULE MigrationLedger ----------------------------
(***************************************************************************)
(* What the migration runner promises of a database: its schema changes    *)
(* only by whole upgrades to a checkout that continues what was applied,   *)
(* and by the adoption of checksums (docs/migration-integrity.md).         *)
(* There are no processes, transactions or locks here.                     *)
(***************************************************************************)
EXTENDS Naturals, Sequences

CONSTANTS
  Checkouts,   \* the sets of SQL files there may be: functions from versions to contents
  Databases    \* the databases a runner may be started on

VARIABLES db, cause   \* the database; what asked for its last change

\* The files of f that were not executed yet, sorted by name.
IsBatch(s, d, f) ==
  /\ {s[i].version : i \in DOMAIN s} = DOMAIN f \ DOMAIN d.applied
  /\ \A i \in DOMAIN s : s[i].content = f[s[i].version]
  /\ \A i, j \in DOMAIN s : i < j => s[i].version < s[j].version

Continues(f, d) == \A v \in DOMAIN d.applied : v \in DOMAIN f /\ d.applied[v] = f[v]

\* All pending files at once, on a fresh or a checksummed database.
Upgrade(f) ==
  /\ db.table => db.checksums
  /\ Continues(f, db)
  /\ LET s == SubSeq(db'.executed, Len(db.executed) + 1, Len(db'.executed))
     IN  /\ IsBatch(s, db, f)
         /\ db' = [table |-> TRUE, checksums |-> TRUE, applied |-> f, executed |-> db.executed \o s]
  /\ cause' \in [option : {"apply", "adopt"}, files : {f}]

\* Checksums for a ledger that has none, with nothing pending.
Adopt(f) ==
  /\ db.table /\ ~db.checksums
  /\ DOMAIN f = DOMAIN db.applied
  /\ db' = [db EXCEPT !.checksums = TRUE, !.applied = f]
  /\ cause' = [option |-> "adopt", files |-> f]

NoCause == [option |-> "none", files |-> <<>>]

Init == db \in Databases /\ cause = NoCause
Next == \E f \in Checkouts : Upgrade(f) \/ Adopt(f)
Spec == Init /\ [][Next]_<<db, cause>>
===============================================================================
