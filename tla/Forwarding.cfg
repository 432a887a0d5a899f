CONSTANTS
  Names <- FileNames
  PWorlds <- SomePWorlds
  ZosWorlds <- MCZosWorlds
  MaxZosEvents = 3
  MaxZosHups = 1
  MaxZosFaults = 2
  Streams <- MCStreams
  BufSize = 5
  Blen = 4
  Data = {d1, d2}
  Long = {long}
  NULL = NULL
  TORN = TORN
  Sizes = {2, 3}
  FlagSets <- QueueFlags
  KeepGoing = FALSE
SPECIFICATION ForwardSpec
CHECK_DEADLOCK FALSE
INVARIANTS ZosQueue SysStream TypeOK EntriesWhole
PROPERTIES PluginsSound ZosExits CallsSound RefinesFifo
