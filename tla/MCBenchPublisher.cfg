SPECIFICATION Spec
CONSTANTS
    j1 = j1
    j2 = j2
    Jobs = {j1, j2}
    Parallel = 2
    MaxStarts = 2
    RenderFaults = 1
    CommitFaults = 1
    PushFaults = 1
INVARIANT OneRowPerRep
INVARIANT DoneRowsAreOwn
INVARIANT RowsFollowArtifacts
INVARIANT NoneForgotten
INVARIANT PublishedIsFinal
SYMMETRY Perms
CHECK_DEADLOCK FALSE
