CONSTANTS
    t1 = t1
    t2 = t2
    w1 = w1
    w2 = w2
    p1 = p1
    p2 = p2
    Tenants = {t1, t2}
    Writers = {w1, w2}
    Payloads = {p1, p2}
    MaxSeq = 3
    c1 = c1
    c2 = c2
    ToolCalls = {c1, c2}
    MaxBuffer = 2
    None = None
    NoCall = NoCall
SPECIFICATION PartsSpec
INVARIANTS
    ChainIntact
    TamperDetected
    RunsOnPermission
PROPERTIES
    RefinesAppendOnlyLog
    AppendEnds
    CallEnds
