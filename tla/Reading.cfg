CONSTANTS
  AsmWorlds <- MCAsmWorlds
  ARRAY_LIMIT = 2
  MaxResets = 1
  UidFields <- MCUidFields
  TypeOfName <- MCTypeOfName
  NumberOf <- MCNumberOf
  StampOf <- MCStampOf
  Regexps <- MCRegexps
  UINT32 = 16
  Phrases <- MCPhrases
  MaxPhrases = 5
  CurWorlds <- MCCurWorlds
  Items <- MCItems
  Texts <- MCTexts
  Names = {"name", "comm"}
  MaxCalls = 5
  Total = 3
  Uids = {1, 2, 3, 4, 5}
  MaxLookups = 6
  MaxChanges = 1
  MaxBytes = 6
  MaxPiece = 3
SPECIFICATION Spec
CHECK_DEADLOCK FALSE
INVARIANTS AsmDelivers ExprGrammar LruCoherent DbContents
PROPERTIES CurMoves
