SPECIFICATION FairSpec
CONSTANTS
    MaxTries = 1
    QueueDepth = 2
    MaxEvents = 2
    MaxMishaps = 2
    SeqMod = 4
    Configs <- Keeping
CHECK_DEADLOCK FALSE
INVARIANTS AnswersMatch
PROPERTIES AtLeastOnce Sent
