SPECIFICATION FairSpec
CONSTANTS
  LeaseIds = {a}
  Ports <- OnePort
  Ranges <- OneRange
  Durations <- Bought
  MaxMints = 2
  MaxTime = 1
  Horizon = 2
  None = None
  Calls = {h1, h2}
  Sweeper = sweeper
  Seconds = {0, 3}
  MinLeaseSeconds = 1
  MaxLeaseSeconds = 1
INVARIANTS
  PromiseKept
PROPERTY GaugesCatchUp
