SPECIFICATION LiveSpec
CONSTANTS
  Callers = {timer, user}
  Resync = Resync
  Removal = Removal
  NoPromise = NoPromise
  MainTxs = {m}
  ConnectorTxs = {d}
INVARIANTS TypeOK EntryIsRunning RefreshAlone WaitsEnd ShownOnceAlone
PROPERTIES CallsReturn Settles
