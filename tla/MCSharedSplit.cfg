SPECIFICATION FairSpec
CONSTANTS
    Devices = {1, 2}
    Writers = {1}
    Paths = {p}
    MaxEvents = 3
    MaxTime = 1
    MaxWire = 1
    None = None
PROPERTIES
    Converges
