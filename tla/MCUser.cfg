SPECIFICATION MCSpec
CONSTANTS
  Word = {"a", "b"}
  MAXARGS = 3
  MaxLine = 5
  Lines <- MCLines
  Filter = {"a"}
  MaxUnit = 13
  MinCore = 4
  Header = 8
  Sizes = {1, 16, 32}
  MAX_THREAD = 4
  Created = 2
  Rounds = 20
  Letter = {"a", "b"}
  MaxRe = 4
  MaxText = 4
  Size = 5
  Chr = {0, 1, 2}
  Bits = 8
  Slash = 2
  DIRSIZ = 2
  KERNBASE = 8
  UintRange = 16
  WORD = 2
  Byte = {0, 1, 3}
  Decode <- MCDecode
  NOFILE = 1
  MAXARG = 2
  MemSizes = {1, 8, 15}
  Memories <- MCMemories
  Chars = {"a", " ", "\n"}
  BufSize = 3
  MaxInput = 5
INVARIANTS ShellRuns HeapSound ArgumentsInside AlgorithmsRight
\* Programs end, and the inputs of the pure functions are bounded.
CHECK_DEADLOCK FALSE
