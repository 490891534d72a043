SPECIFICATION Spec
CONSTANTS
    NoSocket = NoSocket
    Sockets = {}
    PolledSockets = {}
    Fds = {0}
    MaxRegs = 1
    MaxTimers = 0
    MaxTickets = 0
    MaxTime = 1
    MaxZombies = 0
    TimerDelays = {}
    TimerTimes = {}
    TicketDelays = {}
    TimerLimits = {}
    TicklessMax = 1
    MayStop = FALSE
    MayInterrupt = FALSE
    MayRepeat = FALSE
PROPERTIES
    TolerantKept
CHECK_DEADLOCK FALSE
