\* shutdown called while other threads use /ram and hold descriptors.
CONSTANTS
    NodeIds <- MCNodeIds
    Names <- MCNames
    Fold <- MCFold
    OpenModes <- MCOpenModes
    Root = Root
    NULL = NULL
    RootPath = RootPath
    Nested = Nested
    n1 = n1
    n2 = n2
    x = x
    X = X
    MaxFiles = 3
    InitCap = 2
    Slack = 1
    PlaceholderCap = 1
    MaxCap = 4
    WriteCounts = {1}
    ReadCounts = {1}
    SeekOffsets = {1}
    AttachSizes = {3}
    AllocCanFail = FALSE
    Threads = {}
    BridgeOps = {}
    MmapCalls = FALSE
    Quiesce = FALSE
SPECIFICATION Spec
SYMMETRY MCSymmetry
INVARIANT ReachableAllocated
