SPECIFICATION PreemptSpec
CONSTANTS
    Threads = {shell, loader}
    MaxFrames = 4
    WordBits = 2
    Region = {0, 1, 2, 3}
    MaxRef = 3
    Counts = {}
INVARIANT AllocUnique
