SPECIFICATION FairSmallSpec
CONSTRAINT InOrder
ACTION_CONSTRAINT CallsUndisturbed
CONSTANTS
    None = None  norules = norules  t1 = t1  t2 = t2
    MaxUIDs = 5
    RemUIDs <- UIDs
    HAUIDs <- UIDs
    Texts <- TwoTexts
    Rules <- NoRecurrence
    NoRules = norules
    Frequencies <- OnlyOnce
    Once = "once"
    Simple <- OnlyOnce
    FrequencyLabel <- OnceLabel
    recurrenceForLabel <- OnceRules
    Legacy <- First
    SameTitle <- Same
    Attended = TRUE
    Concurrent = TRUE
    MaxAttempts = 1
    MaxTasks = 3
    MaxEdits = 1
    MaxFaults = 1
    MaxCrashes = 0
INVARIANTS BootInv LinksInjective
PROPERTIES Converges AllLinked LinkedInStep AskedFirst DeletionsMirrorUsers
