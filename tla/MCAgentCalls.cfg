CONSTANTS
  None = None
  NoFile <- MCNoFile
  Path = {"journal", "lessons", "tools", "riscv-formal"}
  Ignored = {"riscv-formal"}
  Contract = {"tools", "riscv-formal"}
  Slot = {1, 10}
  Journal = "journal"
  Lessons = "lessons"
  Core = {"journal", "lessons"}
  Owned = {"tools"}
  Flaws <- MCFlaws
  Misdeeds = {"stray", "tree", "plant", "fail", "rewrite", "delete"}
  MaxEdits = 2
SPECIFICATION Spec
INVARIANTS
  TypeOK
  OwnersWorkStays
  StrayIsUndone
  FailsClosed
  NeverASiblingsFile
PROPERTIES
  LessonsGrow
CHECK_DEADLOCK FALSE
