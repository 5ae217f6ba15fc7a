\* A directory handle whose cursor node is unlinked.
CONSTANTS
    NodeIds <- MCNodeIds
    Names <- MCNames
    Fold <- MCFold
    OpenModes <- MCOpenModes
    SeekOffsets <- MCSeekOffsets
    Root = Root
    NULL = NULL
    RootPath = RootPath
    Nested = Nested
    n1 = n1
    n2 = n2
    x = x
    X = X
    y = y
    t1 = t1
    t2 = t2
    MaxFiles = 3
    InitCap = 2
    Slack = 1
    PlaceholderCap = 1
    MaxCap = 4
    WriteCounts = {1}
    ReadCounts = {1}
    AttachSizes = {3}
    AllocCanFail = FALSE
    Threads = {}
    BridgeOps = {}
    MmapCalls = FALSE
SPECIFICATION Spec
SYMMETRY MCSymmetry
VIEW MCView
INVARIANT DirCursorLive
