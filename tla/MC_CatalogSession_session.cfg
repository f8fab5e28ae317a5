\* DDL on u, every statement of MCStmts analysed in any state, up to two
\* restarts.
CONSTANTS
  DbName = "db"
  TableDefs <- MCTableDefs
  InitTables = {"t"}
  Droppable = {"u"}
  IndexDefs <- MCIndexDefs
  Stmts <- MCStmts
  MaxRestarts = 2
SPECIFICATION Spec
INVARIANTS TypeOK AnalyzerSound
PROPERTIES RestartPreservesCatalog
