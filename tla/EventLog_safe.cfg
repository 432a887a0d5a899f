CONSTANTS
    Worlds <- SafeWorlds
    MaxFiles = 8
SPECIFICATION Spec
CHECK_DEADLOCK FALSE
INVARIANTS FilesSound
PROPERTIES  LogKept
