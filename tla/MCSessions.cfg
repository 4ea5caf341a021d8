SPECIFICATION Spec
CONSTANTS
    Part = {"sends", "reports", "ops", "names", "control", "output", "program"}
    SendOps = {s1, s2}
    SendKinds = {"raw-acked", "ready"}
    Slots = {q1, q2}
    Conns = {k1, k2, k3}
    SendConn = k1
    MaxOps = 1
    MaxSends = 2
    MaxReports = 4
    SendReports = 2
    OpIDs = {x1, x2}
    Gens = {1, 2, 3}
    OpBound = 1
    MaxLines = 4
    CreateOps = {n1, n2}
    Callers = {q1, q2}
    MaxSess = 2
    MaxServes = 3
    LastAsked = 2
    Clients = {c1, c2, c3}
    Nobody = Nobody
    MaxViewers = 2
    inputQueue = 2
    MaxEpoch = 6
    RetainBytes = 3
    viewerQueue = 2
    logBound = 6
    MaxChunk = 4
    MaxOutput = 7
    Operations = {o1, o2}
    Prepares = {o1}
    MaxSessions = 2
    maxOps = 1
    MaxStarts = 3
INVARIANTS WrittenOnce NoReadinessMissed   OutputExact ProgramsTrue
PROPERTIES StateVouched OnlyControllerTypes
SYMMETRY Symmetric
CHECK_DEADLOCK FALSE
