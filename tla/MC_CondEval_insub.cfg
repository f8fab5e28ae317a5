\* IN subqueries only: the records kept against the rows of u, with the
\* scalar-subquery statements left out so that TLC reports the IN case.
CONSTANTS
  Cat <- MCCat
  Stmts <- MCInStmts
  TRows <- MCTRows
  URows <- MCURows
SPECIFICATION Spec
CHECK_DEADLOCK FALSE
INVARIANTS SubqueryMatchesSpec
