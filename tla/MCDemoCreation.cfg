SPECIFICATION CreationSpec
CONSTANTS
  good = good
  unended = unended
  bad = bad
  Version <- MCVersion
  Valid <- MCValid
  ZeroEnded <- MCZeroEnded
  MaxEvents = 3
  a = a
  b = b
  nan = nan
  Machine <- MCMachine
  Offer <- MCOffer
  Vertex <- MCVertex
  Odd <- MCOdd
  Outside = Outside
  Model <- MCModel
  Screen <- MCScreen
  AsYouLike = AsYouLike
  Texels = Texels
  Junk = Junk
  NoObject = NoObject
INVARIANTS
  SourceIsUsed
  KeepsWorking
  RequestFits
  FramesFit
  PendingFits
  ModelShown
PROPERTIES
  RefinesCache
