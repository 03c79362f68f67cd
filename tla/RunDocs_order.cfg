SPECIFICATION Spec
CONSTANTS
    Service = service
    Hooks = {h1}
    MaxSeq = 4
    MaxCrashes = 0
CHECK_DEADLOCK FALSE
PROPERTIES
    EventsAppended
