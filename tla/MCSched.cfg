\* Two processes on two CPUs; the start of three CPUs with five pages.
SPECIFICATION MCSpec
CONSTANTS
  Cpu = {c1, c2}
  NPROC = 2
  None = None
  MaxValue = 1
  NCPU = 3
  BSP = 2
  NLOW = 4
  NHIGH = 1
  MaxProc = 2
INVARIANTS SwitchesSafely NoLostWakeup BootSafe
PROPERTIES EveryoneGoesOn
