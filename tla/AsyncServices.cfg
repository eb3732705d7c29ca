SPECIFICATION Spec
CONSTANTS
    Callers = {c1, c2}
    Slices = {s1, s2}
    Marked = {s1}
    Words = {"OK", "maybe"}
    MaxLookups = 3
    Samplers = {p1, p2}
    Tools = {t1}
    Hosts = {h1}
    Scores <- MCScores
    Cap = 1
    Costs <- MCCosts
    MaxRuns = 3
    ChatRuns = {k1}
    MaxPolls = 2
    MaxFaults = 1
INVARIANTS AnswersGrounded FirstUseAudited VerdictShownWasStored
PROPERTIES CallReturns TurnSettles
CHECK_DEADLOCK FALSE
