SPECIFICATION StorageSpec
CONSTANTS
    Procs = {A, B, C}
    NumHeapPages = 2
    Areas = {}
    PagesPerTable = 2
    MaxFrames = 7
    MaxRef = 4
    Values = {0, 1}
    Stored = {1}
    KernelWrites = FALSE
    FRAME_SIZE = 8
    NumFrames = 4
    Slack = 2
    Sizes = {3, 5, 8, 9}
    CallsInit = FALSE
    Inodes = {2}
    MapPages = {0, 1, 2}
    PAGE_CACHE_SIZE = 2
    HashFactor = 1
    CacheFrames = {1, 2, 3}
    MapTasks = {1}
    Paths <- MCPaths
    Contents <- MCContents
    NumClusters = 3
    RootEntries = 2
    EntriesPerCluster = 3
    FatPerSector = 3
    Protected <- MCProtected
    MaxOps = 4
    BUFSIZ = 2
    StdoutSize = 3
    MaxFile = 5
    MaxOut = 8
INVARIANTS FramesExact PoolAccounted HeapBlocksApart LookupFindsNewest  
  
CHECK_DEADLOCK FALSE
SYMMETRY Symmetry
