SPECIFICATION PushSpec
CONSTANTS
    home = home  work = work
    Lists <- TwoLists
    Shared <- OneList
    Settling = 2
    MaxChanges = 2
    MaxFailures = 1
INVARIANTS TypeOK NoWakeUpLost
PROPERTIES PushSuffices RecoveryHandlesAll Settles Reconnects Stops
