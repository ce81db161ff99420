CONSTANTS
  Incidents = {i1, i2}
  Severity <- MCSeverity
  Evidence = {e1}
  Workers = {w1}
  NoAnalysis = NoAnalysis
  Providers = 2
  Limit = 2
  MaxTurns = 1
  MaxStarts = 1
  MaxFaults = 0
SPECIFICATION Spec
INVARIANT
  CallsWithinQuota
CHECK_DEADLOCK FALSE
