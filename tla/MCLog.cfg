\* Two blocks and a log that holds two, crashes at any point; a third
\* log_write in a transaction panics.
SPECIFICATION FairSpec
CONSTANTS
  Proc = {p1, p2}
  InitProc = p1
  Block = {a, b}
  Value = {u, v}
  NoBuf = NoBuf
  NoOwner = NoOwner
  LOGSIZE = 3
  LogBlocks = 3
INVARIANTS Serialised PinnedUntilInstalled
PROPERTIES WriteAhead Refinement SleeperWoken
