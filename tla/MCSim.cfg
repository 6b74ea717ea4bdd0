SPECIFICATION SimSpec
CONSTANTS
    MaxProcesses = 2
    Programs <- MCProcessPrograms
    Priorities = {1}
    Quanta = {1}
    AGING_INTERVAL = 2
    IpcPids = {1, 2}
    MaxSemaphores = 1
    MaxMutexes = 1
    MaxPipes = 0
    MaxQueues = 0
    MaxValue = 1
    PipeSize = 2
    QueueSize = 1
    IoDevices = {"hdd0"}
    Latency <- MCLatency
    MaxRequests = 1
    Packages = {NoApp}
    BuiltinApps = {"term"}
    NoApp = NoApp
    IdleProgram <- MCCpuWork
    AppProgram <- MCCpuWork
    MaxBoots = 2
    MemPids = {2, 3}
    MemFrames = {0, 1}
    SwapSlots = {0, 1}
    MaxPages = 2
    OnlyModest = TRUE
    MaxEntries = 2
    MaxPerSource = 1
    MaxPerTick = 2
    MaxApiLog = 3
    MAX_HISTORY_SIZE = 2
    MAX_BOOT_LOG = 4
    LogLength = 4
    totalBlocks_ = 8
    blockSize_ = 128
    maxInodes_ = 2
    JOURNAL_MAX_ENTRIES = 0
    BlockData = {"x"}
    CacheSizes = {1, 2}
    MaxTx = 1
    RawPaths <- MCPaths
    Sizes = {100, 300}
    Uids = {0, 1}
    Permissions = {{}}
    SystemDirectories <- MCNoDirectories
    MaxInodeId = 3
    UserNames = {"root", "u"}
    Passwords = {"root", "p", "q"}
    PasswordHash <- MCHash
    RootPassword = "root"
    AUDIT_MAX = 4
    AUDIT_DROP = 2
    MaxUid = 2
    MaxSession = 2
    MaxFailed = 1
    Keys = {"C", "LeftCtrl", "CapsLock", "Backspace"}
    Letters = {"C"}
    Symbols = {}
    Readers = {"p", "q"}
    KBD_BUFFER_SIZE = 1
    MAX_EVENT_LOG = 2
    InputQueueSize = 2
    repeatDelay_ = 2
    repeatInterval_ = 1
    MaxLine = 1
    maxHistoryLines_ = 1
    Texts <- MCTexts
    MaxEvents = 4
    MaxLines = 2
INVARIANTS SchedulerExact  IpcExact  FilesExact 
CHECK_DEADLOCK FALSE
