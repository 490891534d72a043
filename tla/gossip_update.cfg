SPECIFICATION FairSpec
CONSTANTS
    nodeA = nodeA
    nodeB = nodeB
    nodeC = nodeC
    NoTuple = NoTuple
    Nodes <- Two
    Links <- OneLink
    RawLinks <- None
    Publications <- Update
    MaxConnects = 1
    MaxDrops = 0
    MaxRaw = 0
    Expiring <- None
    Restarting <- None
    OnlyQuiet = FALSE
PROPERTIES EventuallyConsistent
CHECK_DEADLOCK FALSE
