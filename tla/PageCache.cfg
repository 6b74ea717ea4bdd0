SPECIFICATION CacheSpec
CONSTANTS
    Inodes = {2}
    MapPages = {0, 1}
    PAGE_CACHE_SIZE = 4
    HashFactor = 1
    CacheFrames = {1, 2}
    MapTasks = {1}
INVARIANT MappedShowsFile
CHECK_DEADLOCK FALSE
