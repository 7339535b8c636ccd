SPECIFICATION Spec
CONSTANTS
  Thread = {"main", "watcher"}
  Path <- MCPath
  Word <- MCWord
  ToLower <- MCToLower
  Null = Null
  Absent = Absent
  ConfigFile = "main.config"
  MaxDepth = 2
  MaxEvents = 2
  MaxRuns = 2
  UserFiles <- MCUserFiles
  Typed <- MCTyped
INVARIANTS
  EngineTypeOK
  WatcherHasWindow
  SavedIsPrefix
PROPERTIES
  OnlyConsoleParts
  NoLateCommand
  RefinesLifecycle
  CloseEnds
