CONSTANTS
  a = a
  b = b
  c = c
  Openings = {o1, o2}
  Cycles = {c1, c2}
  NoCycle = NoCycle
  Photos = {a, b, c}
  FacesIn <- FacesFound
  Calls = {k1, k2, k3}
  Nothing = Nothing
  Ranks = {1, 2, 3, 4}
  PageSize = 1
  MaxLoads = 2
  MaxPhotos = 3
  MaxRuns = 2
SPECIFICATION FairSpec
CHECK_DEADLOCK FALSE
INVARIANT
  CameraOffWhenStopped
