\* The two transactions of MC_LogManager logging through a 64-byte buffer,
\* transaction 1 deleting a row of page 1, the buffer pool writing the page
\* back, the background flush, then the destructor.
CONSTANTS
  Clients <- MCClients
  Appends <- MCAppends
  Pages <- MCPages
  LOG_BUFFER_SIZE = 64
SPECIFICATION WalSpec
INVARIANTS WalTypeOK LogDecodes WalHolds
PROPERTIES RefinesDurableLog
