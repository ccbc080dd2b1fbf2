CONSTANTS
  Commands = {c1, c2}
  Resources = {}
  SurfaceFences = {0, 1}
  Semaphores = {0, 1, i1, i2}
  Images = {i1, i2}
  NoImage = NoImage
SPECIFICATION FairSpec
PROPERTY
  BrokenPresenterIsReplaced
CHECK_DEADLOCK FALSE
