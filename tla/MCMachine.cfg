SPECIFICATION MCSpec
CONSTANTS
  Reader = {p1, p2}
  INPUT_BUF = 3
  UintRange = 6
  Ordinary = {"a"}
  Counts = {2}
  TickRange = 4
  Sleeps <- MCSleeps
  Alarms = {0, 2}
  Keys <- MCKeys
  Cpu = {c1, c2}
  Texts <- MCTexts
  Echoed = {"e", "BACKSPACE"}
  MaxOut = 5
  None = None
  Proc = {t1, t2}
  initproc = t1
  NFRAME = 11
  PGSIZE = 2
  KPAGES = 4
  NPTENTRIES = 2
  Width = 6
  Jobs <- MCJobs
INVARIANTS ReadersServed TimeKept NoStuckModifier ScreenRight  MemoryPrivate
PROPERTIES LineDiscipline 
SYMMETRY Symm
