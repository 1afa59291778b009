SPECIFICATION FairSpec
CONSTANTS
    Clients = {c1}
    MinIdles = {0, 2}
    MaxIdle = 2
    MaxRounds = 2
    MaxFaults = 2
    MaxCreating = 2
INVARIANTS IdleCount HandedClean
PROPERTIES FetchEnds PoolRefills
