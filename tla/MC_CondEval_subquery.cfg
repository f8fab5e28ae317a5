\* Subquery right-hand sides against spec 4.6.3, over every statement and
\* every content of u.
CONSTANTS
  Cat <- MCCat
  Stmts <- MCStmts
  TRows <- MCTRows
  URows <- MCURows
SPECIFICATION Spec
CHECK_DEADLOCK FALSE
INVARIANTS SubqueryMatchesSpec
