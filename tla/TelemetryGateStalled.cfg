CONSTANTS
    c1 = c1
    c2 = c2
    ToolCalls = {c1, c2}
    MaxBuffer = 2
    NoCall = NoCall
SPECIFICATION GateFairSpec
PROPERTY
    CallEndsAlways
