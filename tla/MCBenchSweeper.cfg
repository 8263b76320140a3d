SPECIFICATION SweeperSpec
CONSTANTS
    j1 = j1
    j2 = j2
    Jobs = {j1, j2}
    Parallel = 1
    MaxStarts = 2
INVARIANT LiveCloneIsKept
INVARIANT OneRowPerRep
INVARIANT NoneForgotten
SYMMETRY Perms
CHECK_DEADLOCK FALSE
