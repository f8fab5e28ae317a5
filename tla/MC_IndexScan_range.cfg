\* Ascending scans on an INT x CHAR index, with or without a column =
\* column condition first: range scans and scan_index_ mode restarted at any
\* point, and the mergesort_ mode (spill file read one record per batch,
\* reopened after the end).
CONSTANTS
  NULL = NULL
  ColTypes <- MCColTypesIntStr
  IntMin <- MCIntMin
  IntMax = 1
  FltMin = 1
  FltMax = 2
  StrMin = 0
  StrMax = 2
  IntVals <- MCIntVals
  FloatVals <- MCFloatVals
  StrVals = {0, 1, 2}
  MaxRows = 2
  BatchSize = 1
  MaxPulls = 3
  MaxPasses = 2
  RestartMidScan = {"range", "scanindex"}
  Tables <- MCTables
  Queries <- MCQueries
  JoinFirstChoices = {FALSE, TRUE}
  AscChoices = {TRUE}
SPECIFICATION Spec
INVARIANTS TypeOK RangeSelectsMatches ScanYieldsMatches
