SPECIFICATION Spec
CONSTANTS
    Runs = {r1, r2}
    r1 = r1
    r2 = r2
    t1 = t1
    t2 = t2
    none = none
    yesterday = yesterday
    lastHour = lastHour
    since = since
    until = until
    mail = mail
    shell = shell
    TenantOf <- MCTenantOf
    Paths <- MCPaths
    Payloads <- MCPayloads
    Metadata <- MCMetadata
    MaxEvents = 2
    MaxScans = 1
    Tenants = {t1, t2}
    Null = none
    Tables <- MCTables
    Queries <- MCQueries
    Stored <- MCStored
    Overrides <- MCOverrides
    Now = 4
    Ago <- MCAgo
    MAX_LIMIT = 2
    MaxRequests = 2
    Users = {u1, u2}
    Founders = {u1}
    Handlers = {h1, h2}
    TTL = 2
    LastSecond = 2
    MaxLogins = 2
    MaxGrants = 2
    Callers = {c1, c2}
    Admins = {a1}
    None = none
    Reports <- MCReports
    Jumps <- MCJumps
    LastDay = 14
    MaxRows = 4
    MaxFailures = 1
    Viewers = {v1, v2}
    ViewerTenant <- MCViewerTenant
    FlagTenants <- MCFlagTenants
    Topics = {t1, t2}
    QueueSize = 1
    Times = {1, 2, 3}
    PageLimit = 2
    MaxArrived = 4
    MaxPages = 3
SYMMETRY Symmetry
INVARIANTS LeaksSurface AnswersExact AdminBacked RowsEarned TrailAccounts NothingWithheld
PROPERTY LegalUnlessStale
CHECK_DEADLOCK FALSE
