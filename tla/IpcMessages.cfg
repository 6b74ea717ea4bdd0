SPECIFICATION IpcFairSpec
CONSTANTS
    MaxThreads = 3
    Quantum = 1
    AgingInterval = 1
    IdlePriority = 3
    BootPriority = 2
    Priorities = {1}
    SleepTicks = {}
    Channels <- RecvChannels
    KillTargets = {1, 2}
    MaxDirs = 0
    QueueSize = 2
    Payloads = {1}
    Targets = {1, 2}
INVARIANT NoMissedMessage
PROPERTIES RingIsMailbox MessageEndsRecv
