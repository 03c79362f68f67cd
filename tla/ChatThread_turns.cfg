SPECIFICATION Spec
CONSTANTS
    Texts = {x, y}
    Go = Go
    Convs = {c1, c2}
    NoConv = NoConv
    MaxMessages = 3
    MaxSends = 4
    MaxUse = 1
SYMMETRY Symmetry
CHECK_DEADLOCK FALSE
INVARIANTS
    ContextIsComplete
    ThreadIsKept
    UsageIsCounted
