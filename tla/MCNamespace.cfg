\* Two processes and three inodes: a directory and a file in it come and go,
\* names are added to a file, current directories are removed and
\* still used.
SPECIFICATION Spec
CONSTANTS
  Proc = {p1, p2}
  initproc = p1
  NINUM = 3
  NINODE = 4
  Name <- MCName
  Workloads <- MCWorkloads
  None = None
INVARIANTS RefsCounted TreeConsistent NoDeadlock
