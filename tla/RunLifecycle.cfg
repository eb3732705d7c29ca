CONSTANTS
    r1 = r1
    r2 = r2
    Runs <- MCRuns
    MaxEvents <- MCMaxEvents
    MaxCrashes = 1
    MaxDbFailures = 1
SPECIFICATION FairSpec
INVARIANTS
    AuditIsExact
PROPERTIES
    StatusIsFinal
    RunSettles
    DisconnectedRunAudited
