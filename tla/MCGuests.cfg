SPECIFICATION Spec
CONSTANTS
    Part = {"calls", "fence", "seat", "actor", "mcp", "mail", "phase", "trace", "cache", "base"}
    Requests = {r1, r2}
    Outside = {r3}
    NoReq = NoReq
    Clients = {a1, a2}
    Styles = {"owner", "ci"}
    MaxRuns = 3
    Ids = {a1, a2}
    Bindings = {b1, b2}
    NoBinding = NoBinding
    Incarnations = {n1, n2}
    NoIncarnation = NoIncarnation
    Handles = {h1, h2}
    MaxRecords = 1
    MaxFence = 6
    Consoles = {a1, a2}
    ResetOps = {b1, b2}
    MaxLaunches = 3
    MaxFresh = 2
    MaxThreads = 2
    MaxResets = 3
    Queries = {a1, a2}
    MaxWaiting = 2
    MaxTurns = 2
    MaxProcs = 2
    MaxUses = 1
    CallIds = {d1, d2, d3}
    Inputs = {a1, a2}
    NoInput = NoInput
    MaxInFlight = 2
    MaxRecorded = 1
    MaxConnection = 2
    MaxMessages = 6
    Channels = {a1, a2}
    Mails = {b1, b2}
    NodeSlots = 2
    GuestSlots = 1
    MaxMailInflight = 2
    WriteTokens = 1
    MaxQualRuns = 2
    Threshold = 2
    Tolerance = 1
    Created = 1
    MaxClock = 4
    MaxTrace = 4
    MaxRequests = 2
    Fetchers = {a1, a2}
    MaxAsked = 3
    Sizes = {1, 2}
    MaxBaseBuilds = 3
    MaxBoots = 3
SYMMETRY Symmetric
INVARIANTS FirstOnce SeatHeld ToolCallsOnce  QualificationTrue 
 
CHECK_DEADLOCK FALSE
