\* As MCNamespace.cfg, for writes outside of a transaction.
SPECIFICATION Spec
CONSTANTS
  Proc = {p1, p2}
  initproc = p1
  NINUM = 3
  NINODE = 4
  Name <- MCName
  Workloads <- MCOneTree
  None = None
INVARIANTS WritesInTransaction
