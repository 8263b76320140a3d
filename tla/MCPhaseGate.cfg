CONSTANTS
  p1 = p1
  p2 = p2
  s1 = s1
  s2 = s2
  Proc <- MCProc
  Slot <- MCSlot
  MachineLocked = {"formal"}
  MaxRounds = 1
  Free = Free
SPECIFICATION FairSpec
INVARIANTS
  ProcessMutex
PROPERTIES
  FormalIsExclusive
  EveryRunEnds
