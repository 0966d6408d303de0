CONSTANTS
  c1 = c1
  c2 = c2
  Events = {1, 2}
  Images = {1, 2}
  ImageEvent <- EventOfImage
  Kept <- FacesKept
  Dropped <- FacesDropped
  Versions = {"v1", "v2"}
  Current = "v2"
  PageSizes = {1, 2}
  MaxSearches = 2
  Consumers = {c1, c2}
  PollInterval = 1
  ActiveThreshold = 3
  RetryIdle = 2
  PollBatch = 2
  MaxPublished = 2
SPECIFICATION Spec
SYMMETRY ConsumerSymmetry
CHECK_DEADLOCK FALSE
INVARIANTS
  TypeOK
  DiscardedOnce
  OnlyARaceRaises
  MoreIsTold
  FacesOfIndexedImages
  ScreensAgree
  StalledIsNobodyPolling
  BacklogCountsOnce
