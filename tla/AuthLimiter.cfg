\* Three addresses, room for two, a window longer than the cleanup interval.
SPECIFICATION LimiterSpec
CONSTANTS
  IPs = {p, q, r}
  max = 2
  window = 3
  CleanupInterval = 2
  HardCap = 2
  MaxTime = 8
  None = None
SYMMETRY IPSymmetry
INVARIANTS
  LimiterTypes
  BurstBounded
  RefusalEarned
  CapRefusalRecent
