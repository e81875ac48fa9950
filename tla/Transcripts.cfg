CONSTANTS
  w = w
  cli = cli
  a = a
  b = b
  None = None
  Adapters = {w, cli}
  Watcher = w
  Contents = {a, b}
  Chunks <- MCChunks
  MaxWrites = 3
  MaxAttempts = 3
SPECIFICATION Spec
INVARIANT RecordedIsExtracted
INVARIANT RowsMatchRecord
PROPERTY ChangesAreSeen
CHECK_DEADLOCK FALSE
