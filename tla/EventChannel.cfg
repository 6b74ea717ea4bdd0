SPECIFICATION EvFairSpec
CONSTANTS
    MaxThreads = 3
    Quantum = 1
    AgingInterval = 1
    IdlePriority = 3
    BootPriority = 2
    Priorities = {1}
    SleepTicks = {2}
    Channels = {0, 1}
    KillTargets = {1, 2}
    MaxDirs = 0
    BufferSize = 3
    MaxWaiters = 2
    Active = {0}
    Irqs = {0, 1}
    Data = {1, 2}
INVARIANT NoMissedEvent
PROPERTIES ChannelIsLossyQueue EventEndsWait
