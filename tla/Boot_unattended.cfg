SPECIFICATION FairDaemonSpec
CONSTRAINT InOrder
CONSTANTS
    None = None  norules = norules  t1 = t1  t2 = t2
    MaxUIDs = 3
    RemUIDs <- UIDs
    HAUIDs <- UIDs
    Texts <- OneText
    Rules <- NoRecurrence
    NoRules = norules
    Frequencies <- OnlyOnce
    Once = "once"
    Simple <- OnlyOnce
    FrequencyLabel <- OnceLabel
    recurrenceForLabel <- OnceRules
    Legacy <- Nothing
    SameTitle <- Same
    Attended = FALSE
    Concurrent = FALSE
    MaxAttempts = 1
    MaxTasks = 2
    MaxEdits = 1
    MaxFaults = 1
    MaxCrashes = 0
PROPERTIES Converges
