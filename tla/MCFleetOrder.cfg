SPECIFICATION Spec
CONSTANTS
    a1 = a1
    a2 = a2
    p1 = p1
    p2 = p2
    p3 = p3
    q1 = q1
    q2 = q2
    None = None
    Agents = {a1, a2}
    Parts = {p1, p2, p3}
    Queues = {q1, q2}
    region_of <- Region3
    Rows <- Rows3
    QueueOrder <- TwoQueues
    Fleet <- TwoReversed
    Pin <- PinFirst
    Marked = {p3}
    Handoffs = {"blocked", "done"}
    ExitsUsed = {"continues", "crashed", "leaves", "blocks", "refused"}
    Env = {"stop", "offline"}
    Faults = {"claim", "spawn", "park", "reassert"}
    MaxFaults = 1
INVARIANTS
    PartOrLatch
PROPERTIES
    PinnedQueueKept
    PartsInOrder
    HandoffKept
