CONSTANTS
  SearchWorlds = {}
  LOL_LIMIT = 2
  NumLogs = 2
  ClockWorlds = {}
  PwName <- MCPwName
  PwUid <- MCPwUid
  GrGid <- MCGrGid
  HostMachine = 1
  MachineOf <- MCMachineOf
  SyscallOf <- MCSyscallOf
  ErrnoOf <- MCErrnoOf
  MsgTypes <- MCMsgTypes
  MatchWorlds = {}
  Logins <- MCLogins
  Ttys = {"tty1", "tty2"}
  AulWorlds <- MCAulWorlds
  MaxAulEvents = 5
  LastWorlds = {}
  VirtWorlds = {}
  Machines <- MCMachines
  Controls <- MCControls
  Resources <- MCResources
  Denials <- MCDenials
  Anomalies <- MCAnomalies
  RptWorlds = {}
  LoginName <- MCLoginName
SPECIFICATION Spec
CHECK_DEADLOCK FALSE
PROPERTIES AulTheory
