\* Both transactions delete a row of page 1 through the index-scan path.
CONSTANTS
  Clients <- MCClients
  Appends <- MCAppendsSamePage
  Pages <- MCPages
  LOG_BUFFER_SIZE = 64
SPECIFICATION WalSpec
INVARIANTS WalHolds
