CONSTANTS
  None = None
  r1 = r1
  r2 = r2
  Requests = {r1, r2}
  Events = {1, 2}
  Faces = {1, 2, 3, 4}
  EventOf <- EventsOfFaces
  VersionOf <- VersionsOfFaces
  EventDate <- Dates
  QueryFaces = {"a", "b"}
  Similarity <- Similarities
  Bonus <- Bonuses
  Queries <- Asked
  Version = "v2"
  Quota = 1
  TopK = 3
  MaxResults = 2
  DefaultThreshold = 450
  MaxFailures = 1
SPECIFICATION Spec
SYMMETRY RequestSymmetry
CHECK_DEADLOCK FALSE
INVARIANTS
  TypeOK
  AnswersAreJournaled
  LooksAreCounted
  EvidenceQualifies
  BestEvidence
  LimitKeepsTheBest
  GoneEventsOmitted
