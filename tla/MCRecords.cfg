CONSTANTS
  None = None
  CoremarkTarget = None
  LutTarget = None
  TournamentSize = 2
  InitialDesigns <- MCCores
  Designs <- MCTwo
  Faults = {"merge", "journal", "kill"}
  MaxRound = 2
  MaxStarts = 2
SPECIFICATION RecordsSpec
INVARIANTS
  WorktreesReclaimed
  AnchorIsReal
  OneLinePerSlot
  FreshWorktree
  HarvestIsComplete
  SummaryAgrees
PROPERTIES
  MergesBeatAnchor
  CommittedIsAppendOnly
CHECK_DEADLOCK FALSE
