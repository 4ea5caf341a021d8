SPECIFICATION Spec
CONSTANTS
    MaxLaunches = 3
    MaxOps = 4
    MaxMishaps = 1
CHECK_DEADLOCK FALSE
INVARIANTS OneScope FencedIsGone
PROPERTIES ChangedAtRest
