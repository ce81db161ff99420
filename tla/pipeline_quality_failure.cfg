CONSTANTS
  weather = weather
  quakes = quakes
  Sources = {weather, quakes}
  Plans <- MCPlans
  Records = {r1}
  MaxAlarms = 1
  MaxProcesses = 1
  MaxFaults = 1
SPECIFICATION Spec
INVARIANT
  QualityFailureIsRecorded
CHECK_DEADLOCK FALSE
