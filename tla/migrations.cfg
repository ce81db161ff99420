CONSTANTS
  initial = initial
  second = second
  edited = edited
  third = third
  Unknown = Unknown
  Versions = {1, 2, 3}
  Contents = {initial, second, edited, third}
  Creating = {initial}
  Checkouts <- MCCheckouts
  Databases <- MCDatabases
  Runners = {r1, r2}
  MaxStarts = 3
  MaxEdits = 1
  MaxFaults = 1
SPECIFICATION FairSpec
INVARIANTS
  TypeOK
  LedgerIsTrue
  RunnersNeverCollide
  PreflightAgrees
  VerdictWasTrue
PROPERTIES
  ImplementsLedger
  EveryRunnerEnds
CHECK_DEADLOCK FALSE
