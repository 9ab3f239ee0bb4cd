SPECIFICATION FairSpec
CHECK_DEADLOCK FALSE
CONSTANTS
    Limits <- UpToFour
    BaseDelay = 2
    MaxDelay = 5
PROPERTIES Implements Returns
