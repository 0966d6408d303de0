CONSTANTS
  Images = {1, 2}
  w1 = w1
  w2 = w2
  t1 = t1
  v1 = v1
  v2 = v2
  Versions = {v1, v2}
  Workers = {w1, w2}
  Triggers = {t1}
  TriggerVersion = v2
  WorkerVersion <- UpgradingVersions
  Accepted <- FacesAccepted
  Rejected <- FacesRejected
  Fraction = 2
  MaxMessages = 2
  BatchSize = 1
  BatchLimit = 2
  MaxAttempts = 2
  MinIdle = 1
  MaxCrashes = 0
SPECIFICATION Spec
INVARIANT NoMessageStolen
