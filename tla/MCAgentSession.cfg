SPECIFICATION Spec
CONSTANTS
    Tasks = {a, b}
    Controls = {c, d}
    MaxInc = 3
    MaxTurns = 2
    MaxRequests = 1
    MaxMishaps = 1
CHECK_DEADLOCK FALSE
SYMMETRY Symmetry
INVARIANTS SentOnce OutcomeTrue OneWorker
