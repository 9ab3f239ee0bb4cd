SPECIFICATION HistorySpec
CONSTRAINTS InOrder OneFailure
ACTION_CONSTRAINT OneField
SYMMETRY Symmetry
CONSTANTS
    None = None  norules = norules  weekly = weekly
    workdays = workdays  t1 = t1  t2 = t2
    MaxUIDs = 7
    RemUIDs <- UIDs
    HAUIDs <- UIDs
    Texts <- TwoTexts
    Rules <- Recurrence
    NoRules = norules
    Frequencies <- OnceOrWeekly
    Once = "once"
    Simple <- OnceOrWeekly
    FrequencyLabel <- WeeklyLabel
    recurrenceForLabel <- WeeklyRules
    Legacy <- Nothing
    Concurrent = FALSE
    MaxAttempts = 1
    MaxTasks = 1
    MaxEdits = 2
    MaxFaults = 1
    MaxCrashes = 1
INVARIANTS NoDuplicatesUnfailed QuietInv EditsKnown
PROPERTIES ICloudWins RulesKept HAEditsPropagate NoChurn
