CONSTANTS
    search = search
    send_email = send_email
    Slots <- MCSlots
    Runs = {g1}
    Tools <- MCTools
    OUTBOUND_TOOLS <- MCOutbound
    Rego <- MCRego
    MAX_CALLS_PER_RUN = 2
    MAX_SAME_TOOL_STREAK = 1
    BURST_LIMIT = 1
    Ttl = 2
    BurstTtl = 1
    CacheTtl = 2
    CacheMax = 2
    MaxPolicy = 1
    MaxDecides = 3
    MaxClock = 2
    f1 = f1
    f2 = f2
    g1 = g1
    r1 = r1
    r2 = r2
    q1 = q1
    q2 = q2
    Flags <- MCFlags
    FlaggedRuns <- MCRuns
    Requests <- MCRequests
    MaxDecisions = 2
SPECIFICATION PartsSpec
SYMMETRY Interchangeable
INVARIANTS
    StalenessBounded
    ChecksHold
    DecisionsStand
    NoForgottenPause
    CriticalStops
    AbortEnds
CHECK_DEADLOCK FALSE
