CONSTANTS
  magnitude = magnitude
  SchemaColumn = SchemaColumn
  Columns = {magnitude}
  Registry <- MCRegistry
  Creators = {c1, c2}
  Evaluators = {e1}
  Observations = {1, 2, 3}
  ObservedAt <- MCObservedAt
  BaselineLimit = 2
  CurrentLimit = 1
  MinimumSamples = 1
  MaxCommands = 3
  MaxReleases = 2
SPECIFICATION FairSpec
INVARIANTS
  TypeOK
  EvaluationsAreSound
  SchemaComparedWithItself
PROPERTIES
  ImplementsHistory
  EveryCommandEnds
CHECK_DEADLOCK FALSE
