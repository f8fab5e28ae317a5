\* MAX ... LIMIT 1 re-executed: a descending scan begun twice.
CONSTANTS
  NULL = NULL
  ColTypes <- MCColTypesIntStr
  IntMin <- MCIntMin
  IntMax = 1
  FltMin = 1
  FltMax = 2
  StrMin = 0
  StrMax = 2
  IntVals <- MCIntVals
  FloatVals <- MCFloatVals
  StrVals = {0, 1, 2}
  MaxRows = 2
  BatchSize = 2
  MaxPulls = 1
  MaxPasses = 2
  RestartMidScan = {"range"}
  Tables <- MCTables
  Queries <- NoConds
  JoinFirstChoices = {FALSE}
  AscChoices = {FALSE}
SPECIFICATION Spec
INVARIANTS RestartTolerated
