SPECIFICATION Spec
CONSTANTS
  Adapters <- MCAdapters
  MaxImages = 3
  MaxEvents = 3
INVARIANTS
  FrameTypeOK
  BuiltFromCurrent
  DrawsUseCurrent
  ProjectionFits
  SignalsFit
  NoEmptySwapChain
  TakenApart
PROPERTIES
  RefinesOwnership
CHECK_DEADLOCK FALSE
