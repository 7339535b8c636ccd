SPECIFICATION Spec
CONSTANTS
  Adapters <- MCShared
  MaxImages = 2
  MaxEvents = 2
PROPERTIES
  CloseEnds
  FollowsWindow
