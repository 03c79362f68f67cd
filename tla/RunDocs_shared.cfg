SPECIFICATION Spec
CONSTANTS
    Service = service
    Hooks = {h1, h2}
    MaxSeq = 4
    MaxCrashes = 2
SYMMETRY Symmetry
CHECK_DEADLOCK FALSE
INVARIANTS
    EventsCounted
    CountKept
    NumbersListed
    DocConsistent
PROPERTIES
    MovesLegally
