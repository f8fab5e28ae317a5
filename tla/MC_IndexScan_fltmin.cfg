\* Range derivation on an INT x FLOAT index whose FLOAT column holds values <= 0.
CONSTANTS
  NULL = NULL
  ColTypes <- MCColTypesIntFloat
  IntMin <- MCIntMin
  IntMax = 1
  FltMin = 1
  FltMax = 2
  StrMin = 0
  StrMax = 2
  IntVals <- MCIntVals
  FloatVals <- MCFloatVals
  StrVals = {0, 1, 2}
  MaxRows = 2
  BatchSize = 2
  MaxPulls = 3
  MaxPasses = 1
  RestartMidScan = {}
  Tables <- MCTables
  Queries <- MCLiteralQueries
  JoinFirstChoices = {FALSE}
  AscChoices = {TRUE}
SPECIFICATION Spec
INVARIANTS RangeSelectsMatches
