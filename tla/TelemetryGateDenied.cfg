CONSTANTS
    c1 = c1
    c2 = c2
    c3 = c3
    ToolCalls = {c1, c2, c3}
    MaxBuffer = 2
    NoCall = NoCall
SYMMETRY Symmetry
SPECIFICATION GateSpec
INVARIANT
    DeniedCallDoesNotRun
