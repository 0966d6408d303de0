CONSTANTS
  Requests = {r1, r2}
  MaxPerMinute = 2
  Window = 3
  MaxFailures = 1
SPECIFICATION QuotaFairSpec
PROPERTY NeverLockedOut
