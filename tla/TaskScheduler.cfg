SPECIFICATION FairSpec
CONSTANTS
    MaxThreads = 3
    Quantum = 2
    AgingInterval = 3
    IdlePriority = 3
    BootPriority = 2
    Priorities = {1, 3}
    SleepTicks = {0, 2}
    Channels = {0}
    KillTargets = {1, 2}
    MaxDirs = 2
INVARIANTS TypeOK OneRunning  
PROPERTIES  SleepNotCutShort SleeperWakes TerminatedFreed
