SPECIFICATION Spec
CONSTANTS
    Ids = {a}
    Limit = 1
    MaxStarts = 1
    MaxCrashes = 0
    TimeLimited = FALSE
    DiskCanFill = FALSE
    Faults = {}
INVARIANTS FailedStartTornDown
