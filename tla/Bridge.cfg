SPECIFICATION BridgeSpec
CONSTANTS
    k1 = k1
    k2 = k2
    k3 = k3
    v1 = v1
    v2 = v2
    a1 = a1
    a2 = a2
    p1 = p1
    s1 = s1
    m1 = m1
    Call = {k1, k2, k3}
    Project = {p1}
    Statement = {s1}
    Root = {v1, v2}
    Module = {m1}
    Key = {k1, k2, k3}
    Payload = {v1, v2}
    Replay = {a1, a2}
    MaxEntries = 2
    Limit = 2
    MaxInserts = 3
SYMMETRY Symmetry
CONSTRAINT OneKind
INVARIANTS QueueSound SyncsSeeEachOther DeletedProjectStays
PROPERTIES QueueIsExactlyOnce ConflictsHoldUp FinalReportsAreKept
CHECK_DEADLOCK FALSE
