SPECIFICATION Spec
CONSTANTS
    Ids <- MCIds
    PassLimit = 1
    MaxRestarts = 1
PROPERTY NoneStarved
