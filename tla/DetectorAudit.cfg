CONSTANTS
    _MAX_SAME_TOOL = 2
    Sensitive = {"/etc/x"}
    Allowlisted = {"api.anthropic.com"}
    Contained <- MCContained
    WindowMs = 3
    BaselineS = 2
    Runs = {r1, r2, r3}
    Entries = {1, 2, 3}
    MAX_HOPS = 2
    JudgeAnswers <- Answers
    Parts <- MCParts
    Goals <- MCGoals
    Metas <- MCMetas
    Alphabet <- MCAlphabet
    MaxEvents <- MCMaxEvents
    MaxReads = 3
    CatalogTools = {"t1", "t2"}
    Contents = {"v1", "v2", "missing", "unreadable"}
    MaxObserved = 3
    Observations = {0, 1, 2, 5}
SPECIFICATION DetectorSpec
CHECK_DEADLOCK FALSE
INVARIANTS
    AlgorithmsExact
    MarkersSurviveJudge
    ArrivalOrderIrrelevant
    DisabledOnlyByJudge
PROPERTIES
    ViolationsStay
