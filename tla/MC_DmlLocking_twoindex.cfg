\* One session reads or deletes row 1 through the index on a, the other deletes it through the index on b.
CONSTANTS
  T1 = T1
  T2 = T2
  Txns <- MCTxns
  Rows <- MCRows
  Vals <- MCVals
  RowVal <- MCRowVal
  ScriptChoices <- TwoIndexScripts
SPECIFICATION Spec
INVARIANTS DeleteIsolation
