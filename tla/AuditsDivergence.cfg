SPECIFICATION Spec
CONSTANTS
    Traces <- MCTraces
    Defaults <- MCDefaults
    EnvRates <- MCEnvRates
    Bodies <- MCBodies
    Buckets = 2
    Epoch = 2
    MaxTicks = 2
    MaxDecisions = 3
    MaxUpdates = 1
    Detectors <- MCDetectors
    JudgeDetectors <- MCJudgeDetectors
    CriticalDetectors <- MCCriticalDetectors
    Answers <- MCAnswers
    Routings <- MCRoutings
    i1 = i1
    q1 = q1
    q2 = q2
    Incidents = {i1}
    Requests = {q1, q2}
    MaxTransitions = 7
PROPERTY
    DivergenceAudited
CHECK_DEADLOCK FALSE
