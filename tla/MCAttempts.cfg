SPECIFICATION Spec
CONSTANTS
    Ids = {a, b}
    Limit = 1
    MaxStarts = 2
    MaxCrashes = 1
    TimeLimited = FALSE
    DiskCanFill = FALSE
    Faults = {"list", "teardown"}
INVARIANTS EndedHelperGone OneHelperPerAttempt HelpersClaimed
PROPERTIES VMOutlivesHelper
