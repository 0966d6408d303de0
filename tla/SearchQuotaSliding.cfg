CONSTANTS
  Requests = {r1, r2}
  MaxPerMinute = 2
  Window = 3
  MaxFailures = 0
SPECIFICATION QuotaFairSpec
INVARIANT SlidingWindow
