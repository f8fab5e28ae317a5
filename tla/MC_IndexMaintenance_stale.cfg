\* UPDATE through the index on one column, setting the other, then a SELECT
\* through the other column's index.
CONSTANTS
  Rids <- MCRids
  Vals <- MCVals
  InitRows <- MCInitRows
  Stmts <- MCStmts
SPECIFICATION Spec
INVARIANTS SelectSeesHeap
