SPECIFICATION ClockSpec
CONSTANTS
    NoSocket = NoSocket
    Sockets = {}
    PolledSockets = {}
    Fds = {}
    MaxRegs = 0
    MaxTimers = 2
    MaxTickets = 2
    MaxTime = 2
    MaxZombies = 1
    TimerDelays = {0, 1}
    TimerTimes = {0, 2}
    TicketDelays = {1}
    TimerLimits = {1}
    TicklessMax = 3
    MayStop = FALSE
    MayInterrupt = FALSE
    MayRepeat = FALSE
INVARIANTS
    NoOversleep
    TicketsSorted
    TimerRepeats
    
    
CHECK_DEADLOCK FALSE
