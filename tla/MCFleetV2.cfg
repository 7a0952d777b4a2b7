SPECIFICATION Spec
CONSTANTS
    a1 = a1
    a2 = a2
    m1 = m1
    k1 = k1
    u1 = u1
    r1 = r1
    None = None
    Agents = {a1, a2}
    Entries = {m1, k1, u1}
    EntryOrder <- UrgentFirst
    Urgent = {u1}
    Repo <- OneRepo
    After <- NoLinks
    Slices <- OneSlice
    NewSlices = {"n1"}
    SubSlugs = {"b"}
    SubSlices <- SubList
    MaxDepth = 1
    Unstarted = {"queued"}
    Runs <- RunsDiffer
    PinV2 <- NoPins
    Fleet <- TwoMembers
    FollowUpCap = 2
    Plays <- AllPlays
INVARIANTS
    SessionsApart
PROPERTIES
    OnlyOldHoldsInterrupt
    KeptForItsMember
    HandoffsKeepListsCoherent
