\* Init and three more slots, enough for a grandchild of init to leave a dead
\* child behind; three forks, so a slot is reused.
SPECIFICATION FairSpec
CONSTANTS
  NPROC = 4
  MaxPid = 4
  None = None
INVARIANTS FamilyIntact NothingMissed OwnsItsMemory
PROPERTIES OrphansReaped KilledExits
