SPECIFICATION Spec
CONSTANTS
    Threads = {main, worker}
    Main = main
    NoThread = none
    MaxSockets = 2
    SizeMax = 8
    LateClose = FALSE
    KeepsLogsender = TRUE
INVARIANTS
    AbortsOnlyIfDangling
CHECK_DEADLOCK FALSE
