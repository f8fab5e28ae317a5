\* Every condition of MC_CondEval over every content of u: what the
\* analyzer accepts, what cmp_cond then throws, and the records kept.
\* A statement ends; there is no step after it.
CONSTANTS
  Cat <- MCCat
  Stmts <- MCStmts
  TRows <- MCTRows
  URows <- MCURows
SPECIFICATION Spec
CHECK_DEADLOCK FALSE
INVARIANTS TypeOK AnalyzedNeverIncompatible PromotedCompareMatches
