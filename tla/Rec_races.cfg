SPECIFICATION Spec
CONSTRAINT InOrder
CONSTANTS
    None = None  norules = norules  weekly = weekly
    workdays = workdays  t1 = t1  t2 = t2
    MaxUIDs = 7
    RemUIDs <- UIDs
    HAUIDs <- UIDs
    Texts <- OneText
    Rules <- NoRecurrence
    NoRules = norules
    Frequencies <- OnlyOnce
    Once = "once"
    Simple <- OnlyOnce
    FrequencyLabel <- OnceLabel
    recurrenceForLabel <- OnceRules
    Legacy <- UIDs
    Concurrent = TRUE
    MaxAttempts = 2
    MaxTasks = 2
    MaxEdits = 1
    MaxFaults = 1
    MaxCrashes = 0
INVARIANTS IInv NoEcho
PROPERTIES Mirrors
