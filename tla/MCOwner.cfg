SPECIFICATION OwnerSpec
CONSTANTS
    Part = {"upgrade", "seed", "feed", "records"}
    MaxApplies = 2
    MaxAttempts = 2
    MaxMishaps = 3
    Seeders = {a1, a2}
    GroupCount = 3
    Keepers = {a1, a2}
    Commits = {b1}
    LastRehearsal = 1
    MaxSequence = 2
    MaxKeeperRuns = 4
    Askers = {a1, a2}
    Bodies = {b1, b2}
    NoBody = NoBody
    Places = {p1, p2}
    MaxRevision = 2
    MaxChanges = 3
INVARIANTS OneBuild 
PROPERTIES NothingLiveTouched 
CHECK_DEADLOCK FALSE
