SPECIFICATION FairSpec
CONSTANTS
    Paths = {d, s}
    SharedPaths = {s}
    MaxWrites = 3
    MaxFaults = 1
    Peer = Peer
INVARIANTS
    WriteKept
    EditTracked
PROPERTIES
    EditSaved
