CONSTANTS
  Commands = {c1, c2}
  Resources = {}
  SurfaceFences = {0, 1}
  Semaphores = {0, 1, i1, i2}
  Images = {i1, i2}
  NoImage = NoImage
SPECIFICATION FairSpec
INVARIANTS
  SlotIsDoneWhenReused
  PresentSemaphoresAlternate
  HandedOutImageIsIdle
  ResetDestroysNothingInUse
PROPERTIES
  AcquireReturns
  RecreateReturns
CHECK_DEADLOCK FALSE
