SPECIFICATION ProcessSpec
CONSTANTS
    Threads = {main, worker, other}
    Main = main
    NoThread = none
    MaxSockets = 3
    SizeMax = 8
    LateClose = FALSE
    KeepsLogsender = FALSE
    Connections = {"c1", "c2"}
    Workers = {"w1"}
    MaxRequests = 2
    MaxPorts = 1
    Hwm = 1
    WorkersConnect = TRUE
INVARIANTS
    CounterExact
    TermNeverHangs
    AbortsOnlyIfDangling
    RequestsExact
    EachFrameOnce
    SortsItems
PROPERTIES
    NoCallHangs
    HandedOverArrives
CHECK_DEADLOCK FALSE
