SPECIFICATION Spec
CONSTANTS
    Agents = {a1, a2, a3}
    MaxConcurrent = 2
    BaseSecs = 1
    CapSecs = 2
    MaxFailures = 3
    StallLimit = 2
    ExcuseLimit = 1
    NextActions = {n1}
    RepoKeys = {}
    None = None
    Bounds = {None, 2}
    NetworkFlaps = FALSE
    Operator = FALSE
SYMMETRY Symmetry
INVARIANTS
    TypeOK
    CapRespected
    BoundedRun
