----------------------------- MODULE MigrationsMC -----------------------------
(***************************************************************************)
(* Small instances of Migrations for TLC.                                  *)
(***************************************************************************)
EXTENDS Migrations

CONSTANTS initial, second, edited, third

Rows(f) == [v \in DOMAIN f |-> [version |-> v, content |-> Unknown]]

\* The first release, the one after it, one with an edited file, one whose first file was
\* removed, and a directory without files.
One == <<initial>>
Two == <<initial, second>>
Changed == <<initial, edited>>
Three == <<initial, second, third>>
Headless == [v \in {2} |-> second]
MCCheckouts == {One, Two, Changed, Three, Headless, <<>>}

\* A fresh database, legacy ones, and one whose second row has no digest.
Fresh == [table |-> FALSE, checksums |-> FALSE, applied |-> <<>>, executed |-> <<>>]
Legacy(f) == [table |-> TRUE, checksums |-> FALSE,
              applied |-> [v \in DOMAIN f |-> Unknown], executed |-> Rows(f)]
Unhashed == [table |-> TRUE, checksums |-> TRUE,
             applied |-> <<initial, Unknown>>, executed |-> Rows(Two)]
MCDatabases == {Fresh, Legacy(One), Legacy(Two), Unhashed}
===============================================================================
