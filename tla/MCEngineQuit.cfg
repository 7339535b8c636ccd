SPECIFICATION Spec
CONSTANTS
  Thread = {"main", "watcher"}
  Path <- MCPath
  Word <- MCWord
  ToLower <- MCToLower
  Null = Null
  Absent = Absent
  ConfigFile = "main.config"
  MaxDepth = 2
  MaxEvents = 2
  MaxRuns = 1
  UserFiles <- MCUserFiles
  Typed <- MCTyped
PROPERTIES
  QuitEnds
