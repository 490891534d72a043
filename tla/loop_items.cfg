SPECIFICATION Spec
CONSTANTS
    NoSocket = NoSocket
    Sockets = {s1}
    PolledSockets = {}
    Fds = {0}
    MaxRegs = 2
    MaxTimers = 1
    MaxTickets = 1
    MaxTime = 1
    MaxZombies = 1
    TimerDelays = {0}
    TimerTimes = {1}
    TicketDelays = {1}
    TimerLimits = {}
    TicklessMax = 3
    MayStop = TRUE
    MayInterrupt = TRUE
    MayRepeat = FALSE
INVARIANTS
    PollsetInSync
PROPERTIES
    CallsRegistered
    StopHonoured
CHECK_DEADLOCK FALSE
