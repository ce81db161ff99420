CONSTANTS
  Incidents = {i1, i2}
  Severity <- MCSeverity
  Evidence = {e1, e2}
  Workers = {w1, w2}
  NoAnalysis = NoAnalysis
  Providers = 1
  Limit = 2
  MaxTurns = 2
  MaxStarts = 2
  MaxFaults = 1
SYMMETRY MCSymmetry
SPECIFICATION Spec
INVARIANTS
  TypeOK
  StoredOnce
  GroundedInAnalysis
  ReportsAreStored
  ExplainedIsNotPending
CHECK_DEADLOCK FALSE
