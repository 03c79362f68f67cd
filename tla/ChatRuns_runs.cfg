SPECIFICATION FairSpec
CONSTANTS
    Runs = {r1, r2}
    Tasks = {t1, t2}
    NoRun = NoRun
    NoTask = NoTask
    MaxCrashes = 1
CHECK_DEADLOCK FALSE
INVARIANTS
    RunningIsExecuted
    SpinnerHasTask
    OneAtATime
    WaitingIsActionable
PROPERTIES
    ImplementsLifecycle
    ResumeProceeds
    RunningSettles
