SPECIFICATION ProcFairSpec
CONSTANTS
    MaxThreads = 4
    Quantum = 1
    AgingInterval = 1
    IdlePriority = 3
    BootPriority = 2
    Priorities = {1}
    SleepTicks = {}
    Channels <- WaitChannels
    KillTargets = {1, 2, 3}
    MaxDirs = 2
INVARIANTS NoMissedExit 
PROPERTY ZombieIsReaped
