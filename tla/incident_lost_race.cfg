CONSTANTS
  q1 = q1
  q2 = q2
  d1 = d1
  d2 = d2
  Keys = {q1}
  DriftKeys = {}
  Workers = {w1, w2}
  NoWorker = NoWorker
  StageOf <- Stages
  Rank <- Ranks
  Lineages = {1}
  MaxEvaluations = 3
SPECIFICATION Spec
INVARIANT FailureIsRecorded
CHECK_DEADLOCK FALSE
