\* Two buffers for three sectors: recycling, pinning, running out of buffers,
\* on a disk that works and on one that reports errors.
SPECIFICATION FairSpec
CONSTANTS
  Proc = {p1, p2}
  Buf = {b1, b2}
  Sector = {s1, s2, s3}
  Value = {u, v}
  NoSector = NoSector
  NoBuf = NoBuf
  Jobs <- MCJobs
INVARIANTS Exclusive ReadsLatest NoLostWakeup
PROPERTIES RequestCompletes
