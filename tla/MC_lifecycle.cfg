\* init and shutdown used as the shutdown code assumes: no descriptor open,
\* no concurrent caller; allocations in init may fail, and init and shutdown
\* may be called again after a shutdown.
CONSTANTS
    NodeIds <- MCNodeIds
    Names <- MCNames
    Fold <- MCFold
    OpenModes <- MCOpenModes
    Root = Root
    NULL = NULL
    RootPath = RootPath
    Nested = Nested
    n1 = n1
    n2 = n2
    x = x
    X = X
    MaxFiles = 2
    InitCap = 2
    Slack = 1
    PlaceholderCap = 1
    MaxCap = 4
    WriteCounts = {1}
    ReadCounts = {1}
    SeekOffsets = {1}
    AttachSizes = {3}
    AllocCanFail = TRUE
    Threads = {}
    BridgeOps = {}
    MmapCalls = FALSE
    Quiesce = TRUE
SPECIFICATION Spec
INVARIANT ReachableAllocated
INVARIANT NoLeakAfterShutdown
