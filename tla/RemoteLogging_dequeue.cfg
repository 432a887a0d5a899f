SPECIFICATION Spec
CONSTANTS
    MaxTries = 1
    QueueDepth = 2
    MaxEvents = 1
    MaxMishaps = 3
    SeqMod = 4
    Configs <- Logging
CHECK_DEADLOCK FALSE
PROPERTIES GivenUpIsDequeued
