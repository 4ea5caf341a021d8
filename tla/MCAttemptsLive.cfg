SPECIFICATION FairSpec
CONSTANTS
    Ids = {a}
    Limit = 1
    MaxStarts = 1
    MaxCrashes = 2
    TimeLimited = TRUE
    DiskCanFill = TRUE
    Faults = {}
PROPERTIES EndKept EndsReached
