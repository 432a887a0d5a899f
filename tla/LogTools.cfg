CONSTANTS
  SearchWorlds <- MCSearchWorlds
  LOL_LIMIT = 2
  NumLogs = 2
  ClockWorlds <- MCClockWorlds
  PwName <- MCPwName
  PwUid <- MCPwUid
  GrGid <- MCGrGid
  HostMachine = 1
  MachineOf <- MCMachineOf
  SyscallOf <- MCSyscallOf
  ErrnoOf <- MCErrnoOf
  MsgTypes <- MCMsgTypes
  MatchWorlds <- MCMatchWorlds
  Logins <- MCLogins
  Ttys = {"tty1", "tty2"}
  AulWorlds <- MCAulWorlds
  MaxAulEvents = 5
  LastWorlds <- MCLastWorlds
  VirtWorlds <- MCVirtWorlds
  Machines <- MCMachines
  Controls <- MCControls
  Resources <- MCResources
  Denials <- MCDenials
  Anomalies <- MCAnomalies
  RptWorlds <- MCRptWorlds
  LoginName <- MCLoginName
SPECIFICATION Spec
CHECK_DEADLOCK FALSE
INVARIANTS ClockRange MatchMeaning VirtTrue RptTrue
PROPERTIES SrchExact LoginsTrue
