SPECIFICATION Spec
CONSTANTS
    Runs = {r1}
    Tasks = {t1, t2}
    NoRun = NoRun
    NoTask = NoTask
    MaxCrashes = 0
CHECK_DEADLOCK FALSE
PROPERTIES ApprovedRunResumes
