CONSTANTS
  ConfWorlds <- MCConfWorlds
  Status <- MCStatus
  Validity <- MCValidity
  ExeOk <- MCExeOk
  Absolute <- MCAbsolute
  Inode <- MCInode
  Builtin <- MCBuiltin
  Hosts <- MCHosts
  SyscallNumber <- MCSyscallNumber
  Digits <- MCDigits
  Features <- MCFeatures
  RuleWorlds <- MCRuleWorlds
  CtlWorlds <- MCCtlWorlds
  AutWorlds <- MCAutWorlds
SPECIFICATION Spec
CHECK_DEADLOCK FALSE
INVARIANTS ConfMeaning RuleMeaning
PROPERTIES CtlResult AutResult
