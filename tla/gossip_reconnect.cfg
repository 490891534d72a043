SPECIFICATION FairSpec
CONSTANTS
    nodeA = nodeA
    nodeB = nodeB
    nodeC = nodeC
    NoTuple = NoTuple
    Nodes <- Two
    Links <- OneLink
    RawLinks <- None
    Publications <- TwoAtA
    MaxConnects = 1
    MaxDrops = 1
    MaxRaw = 0
    Expiring <- None
    Restarting <- None
    OnlyQuiet = FALSE
PROPERTIES EventuallyConsistent
CHECK_DEADLOCK FALSE
