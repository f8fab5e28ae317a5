\* Two sessions, every script of one or two statements on column a, under
\* the fair scheduler.  A state where every session sleeps is a violation
\* of AllFinish itself, so it is reported as one rather than as a deadlock.
CONSTANTS
  T1 = T1
  T2 = T2
  Txns <- MCTxns
  Rows <- MCRows
  Vals <- MCVals
  RowVal <- MCRowVal
  ScriptChoices <- OneIndexScripts
SPECIFICATION LiveSpec
INVARIANTS TypeOK DeleteIsolation
PROPERTIES AllFinish RefinesAtomicStatements
CHECK_DEADLOCK FALSE
