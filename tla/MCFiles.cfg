\* Two processes with two descriptors each and three files, so that files,
\* descriptors and pipe pages all run out; two processes that call read
\* or write twice each, on the disk of mkfs.c; and small blocks, see MCFiles.
SPECIFICATION MCSpec
CONSTANTS
  Proc = {p1, p2}
  initproc = p1
  Pipe = {k1}
  Inode = {i1}
  NFILE = 3
  NOFILE = 2
  None = None
  BSIZE = 512
  NDIRECT = 11
  NINDIRECT = 128
  LOGSIZE = 10
  NLOG = 10
  NBITMAP = 6
  Start <- MCStart
  Back = 600
  Request = {0, 1536, 2000}
  MaxCalls = 2
  Width = 4
  Val = {1, 2}
  Count = {0, 3, 15}
  Jobs <- MCJobs
INVARIANTS RefsCounted ChunksTile BlocksSound
