SPECIFICATION FairSpec
CONSTANTS
    Agents = {a1}
    MaxConcurrent = 1
    BaseSecs = 1
    CapSecs = 2
    MaxFailures = 2
    StallLimit = 2
    ExcuseLimit = 1
    NextActions = {n1, n2}
    RepoKeys = {k1, k2}
    None = None
    Bounds = {None}
    NetworkFlaps = TRUE
    Operator = TRUE
INVARIANTS
    StopHonoured
    SpinBounded
PROPERTIES
    ParkedNotRerolled
    BackoffHonoured
    BackoffExpires
