\* One writer and two readers of a two-byte pipe whose counters wrap at four.
SPECIFICATION FairSpec
CONSTANTS
  Writers = {w1}
  Readers = {r1, r2}
  Byte = {x, y}
  PIPESIZE = 2
  UintRange = 4
  Counts = {1, 3}
  None = None
INVARIANTS NobodyStranded
PROPERTIES FifoChannel ZeroMeansEof WriterWoken
