SPECIFICATION Spec
CONSTANTS
    j1 = j1
    j2 = j2
    Jobs = {j1, j2}
    Parallel = 1
    MaxStarts = 1
    RenderFaults = 0
    CommitFaults = 0
    PushFaults = 0
INVARIANT RowsComeWithArtifacts
CHECK_DEADLOCK FALSE
