SPECIFICATION Spec
CONSTANTS
    store = store
    guest = guest
    mirror = mirror
    Callers = {c1, c2}
    Objects <- MCObjects
    AttemptObjs <- MCAttempts
    CacheDirs <- MCCacheDirs
    Nested <- MCNested
    Legacy <- MCLegacy
    LockMade <- MCObjects
    AppendFaults = {}
INVARIANTS  RemovalsDisjoint OriginalKept
PROPERTIES OnlyOwnRemovalDeletes
