CONSTANTS
  None = None
  CoremarkTarget = 4
  LutTarget = 2
  TournamentSize = 2
  InitialDesigns <- MCInitial
  Designs <- MCDesigns
  Faults = {"raise", "stray", "merge", "stop"}
  MaxRound = 2
  MaxStarts = 2
SPECIFICATION Spec
INVARIANTS
  AnchorIsTip
  RoundsAreWhole
PROPERTIES
  ClimbsLadder
CHECK_DEADLOCK FALSE
