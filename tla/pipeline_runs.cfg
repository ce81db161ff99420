CONSTANTS
  weather = weather
  quakes = quakes
  Sources = {weather, quakes}
  Plans <- MCPlans
  Records = {r1}
  MaxAlarms = 2
  MaxProcesses = 2
  MaxFaults = 1
SPECIFICATION FairSpec
INVARIANTS
  TypeOK
  StoredOnce
  CountsMatchRows
  EvaluationFollowsRun
  EvaluationsAreWhole
  FirstReportIsTrue
PROPERTIES
  CommittedIsKept
  EveryProcessEnds
CHECK_DEADLOCK FALSE
