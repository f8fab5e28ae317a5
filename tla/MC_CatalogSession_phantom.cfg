\* As the session run, with DELETE FROM u analysed also after DROP TABLE u.
CONSTANTS
  DbName = "db"
  TableDefs <- MCTableDefs
  InitTables = {"t"}
  Droppable = {"u"}
  IndexDefs <- MCIndexDefs
  Stmts <- MCStmtsWithDeleteU
  MaxRestarts = 2
SPECIFICATION Spec
PROPERTIES RestartPreservesCatalog
