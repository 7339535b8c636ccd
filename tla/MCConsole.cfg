SPECIFICATION ConsoleSpec
CONSTANTS
  Thread = {"watcher"}
  Path <- MCPath
  Word <- MCWord
  ToLower <- MCToLower
  Null = Null
  ConfigFile = "b.cfg"
  Absent = Absent
  MaxDepth = 2
  UserFiles <- MCUserFiles
  Typed <- MCTyped
PROPERTIES
  OverflowOnlyFromCycle
  BusyEnds
