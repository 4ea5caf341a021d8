SPECIFICATION FairSpec
CONSTANTS
    one = one
    Attempts <- One
    Keys <- MCKeys
    Policy <- SignedPolicy
    MaxDocs = 2
    MaxMishaps = 2
    Faults = {"lost", "late", "list"}
    Tampering = TRUE
CHECK_DEADLOCK FALSE
INVARIANTS PublishedTrue AcknowledgedIsSynced
PROPERTIES EvidenceKept EventuallyPublished
