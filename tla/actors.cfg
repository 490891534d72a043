SPECIFICATION ActorsSpec
CONSTANTS
    Capacity = 6
    MaxSends = 3
    MaxEmits = 1
    StopWords = {"$TERM", "$KTHXBAI"}
    MayQuit = TRUE
    MayFailInit = TRUE
    MayInterrupt = FALSE
    Collects = TRUE
    MaxBlocks = 2
    MaxCalls = 2
    MaxMessages = 2
    MaxFrames = 2
    MaxRequests = 4
    MaxInterrupts = 1
    OutputHwm = 1
    EarlyResume = FALSE
    CaptureThread = TRUE
    beacon1 = beacon1
    beacon2 = beacon2
    nodeA = nodeA
    nodeB = nodeB
    program = program
    NoTuple = NoTuple
INVARIANTS
    CommandsFinished
    NewSynchronizes
    DestroySynchronizes
    NeverMerged
    PassesAll
    CodeIsTrue
    NoOrphan
PROPERTIES
    
    SessionsSettle
CHECK_DEADLOCK FALSE
