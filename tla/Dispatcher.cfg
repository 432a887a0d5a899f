SPECIFICATION FairSpec
CONSTANTS
    NULL = NULL
    UINT = 8
    Worlds <- SomeWorlds
CHECK_DEADLOCK FALSE
INVARIANTS QueueSound UsedIsCount SleepsOnlyWhenEmpty
PROPERTIES RefinesChannel Progress
