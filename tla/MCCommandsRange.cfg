SPECIFICATION CommandsSpec
CONSTANTS
  Command <- MCCommand
  Name <- MCName
  NameOf <- MCNameOf
  Kind <- MCKind
  EmptyArg <- MCEmptyArg
  LowerArg <- MCLowerArg
  Word <- MCWord
  ToLower <- MCToLower
  Null = Null
  NaN = NaN
  Throws = Throws
  StoI <- MCStoI
  StoF <- MCStoF
  IntText <- MCIntText
  RealText <- MCRealText
  Float <- MCFloat
  Resolution = 1
  Size <- MCSize
  Reread <- MCReread
  Limit <- MCLimit
  Key <- MCKey
  KeyName <- MCKeyName
  NameOfKey <- MCNameOfKey
  KeyType <- MCKeyType
  Token <- MCToken
  Prefixed <- MCPrefixed
  Mentions <- MCMentions
  Exact <- MCExact
  Numeric <- MCNumeric
  Argv <- MCArgv
  NoKey = NoKey
PROPERTIES
  RangeKept
