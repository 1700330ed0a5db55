\* Integers of 8 bits and a second of 10 units; the numbers lie around every
\* boundary, and 128 stands for a variable that is unset or does not parse.
SPECIFICATION Spec
CONSTANTS
  MaxInt = 127
  Second = 10
  MaxPort = 12
  Overhead = 3
  LimitGiven = {0, 1, 12, 13, 26, 128}
  LeaseGiven = {0, 1, 12, 13, 26, 128}
  EgressGiven = {0, 1, 2, 12, 13, 26, 124, 126, 127, 128}
  Lengths = {0, 1, 2, 3, 4, 5, 6, 12, 13, 15, 16, 126}
  DefMin = 1
  DefMax = 12
  DefWindow = 3
  DefAttempts = 5
  DefVisitors = 6
  DefDefault = 2
  DefMaximum = 6
  DefBytes = 5
  MaxSales = 3
  None = None
INVARIANTS
  SoldTimeKept
  GrantClamped
  TimeoutInForce
  LimitsExact
