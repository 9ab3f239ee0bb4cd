SPECIFICATION ReconfiguredSpec
CONSTRAINT InOrder
CONSTANTS
    None = None  A = A  B = B  X = X  e = e  f = f
    MaxUIDs = 3
    RemUIDs <- UIDs
    HAUIDs <- UIDs
    ListNames <- OneList
    Entities <- TwoEntities
    Mappings <- Changed
    MaxTasks = 1
    MaxMoves = 0
    MaxEdits = 0
    MaxAttempts = 1
    MaxFaults = 0
    MaxRemaps = 1
PROPERTIES RemindersSurvive
