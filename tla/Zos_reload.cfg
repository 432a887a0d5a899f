CONSTANTS
  Names <- FileNames
  PWorlds <- SomePWorlds
  ZosWorlds <- MCZosWorlds
  MaxZosEvents = 1
  MaxZosHups = 1
  MaxZosFaults = 0
  Streams <- MCStreams
  BufSize = 5
  Blen = 4
  Data = {d1, d2}
  Long = {long}
  NULL = NULL
  TORN = TORN
  Sizes = {2, 3}
  FlagSets <- QueueFlags
  KeepGoing = FALSE
SPECIFICATION ForwardSpec
CHECK_DEADLOCK FALSE
PROPERTIES ZosReload
