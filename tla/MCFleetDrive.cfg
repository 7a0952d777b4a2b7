SPECIFICATION Spec
CONSTANTS
    a1 = a1
    a2 = a2
    p1 = p1
    p2 = p2
    p3 = p3
    q1 = q1
    q2 = q2
    None = None
    Agents = {a1, a2}
    Parts = {p1, p2}
    Queues = {q1}
    region_of <- Region2
    Rows <- Rows2
    QueueOrder <- OneQueue
    Fleet <- TwoMembers
    Pin <- PinBoth
    Marked = {}
    Handoffs = {"done"}
    ExitsUsed = {"crashed", "blocks"}
    Env = {"human", "cycle", "restart", "resume", "gate"}
    Faults = {"claim", "read", "reset"}
    MaxFaults = 1
INVARIANTS
    OneMemberPerPart
    HolderIsTheMember
    SingleActive
PROPERTIES
    HolderNotStolen
