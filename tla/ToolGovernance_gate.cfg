SPECIFICATION Spec
CONSTANTS
    t1 = t1
    t2 = t2
    t3 = t3
    t4 = t4
    Agents = {a1, a2}
    Tools <- AllTools
    Policy <- AllPolicy
    MaxRequests = 3
    Window = 2
    HooksMayDie = TRUE
    NoTool = NoTool
SYMMETRY Symmetry
CHECK_DEADLOCK FALSE
INVARIANTS
    RunsAsDecided
    WaitingHasRequest
    RequestsShared
