\* The mergesort_ mode restarted before its end (inner side of a nested-loop
\* join); MC_IndexScan_descrestart.cfg checks the same property on a
\* MAX ... LIMIT 1 scan begun twice.
CONSTANTS
  NULL = NULL
  ColTypes <- MCColTypesIntStr
  IntMin <- MCIntMin
  IntMax = 1
  FltMin = 1
  FltMax = 2
  StrMin = 0
  StrMax = 2
  IntVals <- MCIntVals
  FloatVals <- MCFloatVals
  StrVals = {0, 1, 2}
  MaxRows = 2
  BatchSize = 2
  MaxPulls = 3
  MaxPasses = 2
  RestartMidScan = {"merge"}
  Tables <- MCTables
  Queries <- NoConds
  JoinFirstChoices = {TRUE}
  AscChoices = {TRUE}
SPECIFICATION Spec
INVARIANTS RestartTolerated
