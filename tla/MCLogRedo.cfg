\* A crash inside commit_trans, then recovery.
SPECIFICATION Spec
CONSTANTS
  Proc = {p1, p2}
  InitProc = p1
  Block = {a, b}
  Value = {u, v}
  NoBuf = NoBuf
  NoOwner = NoOwner
  LOGSIZE = 3
  LogBlocks = 3
INVARIANTS CommitIsDurable
