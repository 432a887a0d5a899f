CONSTANTS
    Conns <- ThreeConns
    Addr <- AddrOf
    Port <- PortOf
    Denied <- DeniedAddrs
    MAX = 5
    Worlds <- SomeWorlds
SPECIFICATION FairSpec
CHECK_DEADLOCK FALSE
INVARIANTS ClientsSound RecordsWhole
PROPERTIES Attended
