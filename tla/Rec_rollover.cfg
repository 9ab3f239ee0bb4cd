SPECIFICATION FairSpec
CONSTRAINTS InOrder OneFailure
CONSTANTS
    None = None  norules = norules  weekly = weekly
    workdays = workdays  t1 = t1  t2 = t2
    MaxUIDs = 7
    RemUIDs <- UIDs
    HAUIDs <- UIDs
    Texts <- TwoTexts
    Rules <- TwoRules
    NoRules = norules
    Frequencies <- OnceOrWeekly
    Once = "once"
    Simple <- OnceOrWeekly
    FrequencyLabel <- PlainLabel
    recurrenceForLabel <- WeeklyRules
    Legacy <- UIDs
    Concurrent = TRUE
    MaxAttempts = 1
    MaxTasks = 1
    MaxEdits = 1
    MaxFaults = 1
    MaxCrashes = 1
INVARIANTS TypeOK CompletionLinksResolve
PROPERTIES LinksForgottenLast Converges
