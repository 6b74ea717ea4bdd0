SPECIFICATION MemSpec
CONSTANTS
    Procs = {A, B, C}
    NumHeapPages = 1
    Areas = {}
    PagesPerTable = 2
    MaxFrames = 9
    MaxRef = 4
    Values = {0, 1}
    Stored = {1}
    KernelWrites = TRUE
PROPERTY MemoryIsPrivate
CHECK_DEADLOCK FALSE
