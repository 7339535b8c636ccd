SPECIFICATION KeysSpec
CONSTANTS
  Key <- MCKey
  KeyName <- MCKeyName
  NameOfKey <- MCNameOfKey
  KeyType <- MCKeyType
  Token <- MCToken
  Prefixed <- MCPrefixed
  Mentions <- MCMentions
  Exact <- MCExact
  Numeric <- MCNumeric
  Argv <- MCArgv
  NoKey = NoKey
INVARIANTS
  SetOnlyIfGiven
