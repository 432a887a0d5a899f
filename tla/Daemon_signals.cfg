CONSTANTS
    Buffers = 2
    Freq = 1
    MaxEvents = 1
    MaxSignals = 2
    MaxFaults = 1
    Careful = TRUE
SPECIFICATION FairSpec
CHECK_DEADLOCK FALSE
INVARIANTS EventsOwned Consistent
PROPERTIES Responds
