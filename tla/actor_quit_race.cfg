SPECIFICATION FairSpec
CONSTANTS
    Capacity = 6
    MaxSends = 2
    MaxEmits = 0
    StopWords = {"$TERM", "$KTHXBAI"}
    MayQuit = TRUE
    MayFailInit = FALSE
    MayInterrupt = FALSE
    Collects = TRUE
PROPERTIES
    DestroyReturns
CHECK_DEADLOCK FALSE
