SPECIFICATION FairSpec
CONSTANTS
    Devices = {1, 2, 3}
    Writers = {1, 2}
    Paths = {p, q}
    MaxEvents = 3
    MaxTime = 1
    MaxWire = 1
    None = None
INVARIANTS
    NoEditVanishes
PROPERTIES
    LoneEditSpreads
CHECK_DEADLOCK FALSE
