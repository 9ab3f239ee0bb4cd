SPECIFICATION FairSpec
CONSTRAINTS InOrder TwoTroubles
CONSTANTS
    None = None  A = A  B = B  X = X  e = e  f = f
    MaxUIDs = 7
    RemUIDs <- UIDs
    HAUIDs <- UIDs
    ListNames <- ThreeLists
    Entities <- TwoEntities
    Mappings <- Both
    MaxTasks = 2
    MaxMoves = 1
    MaxEdits = 1
    MaxAttempts = 3
    MaxFaults = 2
    MaxRemaps = 0
INVARIANTS ListsInv CopiesBounded
PROPERTIES DeletionsMirrored SummaryResolves Converges
