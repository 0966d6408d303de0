CONSTANTS
  Importers = {p1, p2}
  Commands = {p2}
  p1 = p1
  p2 = p2
  Events = {1, 2}
  Photos = {a, b}
  a = a
  b = b
  Suffixes = {jpg, png}
  jpg = jpg
  png = png
  Unreadable = {b}
  Batches <- ShortBatches
  Trees <- Given
  MaxRequests = 3
  MaxFailures = 2
SPECIFICATION FolderSpec
INVARIANTS
  OneRowPerPhoto
  EveryRowStored
  ResultsAreTrue
  ImportedOnce
  OrphansBounded
  LeftByFailures
  NothingLeftBehind
CHECK_DEADLOCK FALSE
