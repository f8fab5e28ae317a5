\* A descending scan whose conditions are re-checked on the key (second index column only).
CONSTANTS
  NULL = NULL
  ColTypes <- MCColTypesIntStr
  IntMin <- MCIntMin
  IntMax = 1
  FltMin = 1
  FltMax = 2
  StrMin = 0
  StrMax = 2
  IntVals <- MCIntVals
  FloatVals <- MCFloatVals
  StrVals = {0, 1, 2}
  MaxRows = 2
  BatchSize = 2
  MaxPulls = 1
  MaxPasses = 1
  RestartMidScan = {}
  Tables <- MCTables
  Queries <- MCSecondColQueries
  JoinFirstChoices = {FALSE}
  AscChoices = {FALSE}
SPECIFICATION Spec
INVARIANTS DescYieldsMax
