SPECIFICATION FairSpec
CONSTANTS
    r1 = r1
    r2 = r2
    d = d
    x = x
    y = y
    s1 = s1
    s2 = s2
    MaxCommits = 2
    Sessions = {s1, s2}
    Trees = {r1, r2, d}
    Blobs = {x, y}
    Root <- RootDef
    Children <- ChildrenDef
    MaxFaults = 2
    NoSession = NoSession
INVARIANTS
    MirrorComplete
    HonestPushMirrored
PROPERTIES
    RecoversOrAlarms
