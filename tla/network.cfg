SPECIFICATION NetworkSpec
CONSTANTS
    nodeA = nodeA
    nodeB = nodeB
    nodeC = nodeC
    NoTuple = NoTuple
    Nodes <- Three
    Links <- Triangle
    RawLinks <- None
    Publications <- AtTwoEnds
    MaxConnects = 1
    MaxDrops = 2
    MaxRaw = 0
    Expiring <- None
    Restarting <- Three
    OnlyQuiet = TRUE
INVARIANTS
    ClientsTold
    
    AttachExact
    EventsTold
    

    
    
CHECK_DEADLOCK FALSE
