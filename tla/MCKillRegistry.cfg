SPECIFICATION FairSpec
CONSTANTS
    Agents = {a1}
    MaxGen = 4
INVARIANTS
    RunningIsRegistered
PROPERTIES
    EntriesCleared
CHECK_DEADLOCK FALSE
