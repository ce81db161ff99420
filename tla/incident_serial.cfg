CONSTANTS
  q1 = q1
  q2 = q2
  d1 = d1
  d2 = d2
  Keys = {q1, q2, d1}
  DriftKeys = {d1}
  Workers = {w1}
  NoWorker = NoWorker
  StageOf <- Stages
  Rank <- Ranks
  Lineages = {1, 2}
  MaxEvaluations = 3
SPECIFICATION Spec
INVARIANT TimesInOrder
PROPERTY HistoryIsKept
CHECK_DEADLOCK FALSE
