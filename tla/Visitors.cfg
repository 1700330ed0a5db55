\* Two visitors and one slot, over two forwards, under the fairness of the
\* handlers.  The instance may stop once the connection has ended.
SPECIFICATION FairSpec
CHECK_DEADLOCK FALSE
CONSTANTS
  v1 = v1
  v2 = v2
  Visitors <- TwoVisitors
  MaxVisitors = 1
  MaxGens = 2
  Networks <- FirstOnly
INVARIANTS
  TypeOK
  SlotsExact
  CloseReachesAll
PROPERTIES
  TeardownDrains
  CancelEndsPipes
