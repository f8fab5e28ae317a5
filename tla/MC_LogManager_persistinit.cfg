\* persist_lsn_ as the freshly constructed LogManager holds it.
CONSTANTS
  Clients <- MCClients
  Appends <- MCAppends
  LOG_BUFFER_SIZE = 64
SPECIFICATION Spec
INVARIANTS PersistedPrefix
