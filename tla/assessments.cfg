CONSTANTS
  MinimumRuns = 3
  MinSamples = 5
  Threshold = 200
  Ln <- MCLn
  MaxPollAge = 720
  Tolerance = 5
  Window = 43200
  MaxDepth = 2
  Now <- MCNow
  Contexts <- MCContexts
  StoredRules <- MCStoredRules
  StatusLists <- MCStatusLists
  SourceSets <- MCSourceSets
  Evidences <- MCEvidences
  Samples <- MCSamples
  Schemas <- MCSchemas
  Graphs <- MCGraphs
SPECIFICATION Spec
INVARIANTS
  RulesJudgeAsMeant
  ReportsFitRows
  CausesAreEarned
  DriftIsMeasured
  ImpactsAgree
CHECK_DEADLOCK FALSE
