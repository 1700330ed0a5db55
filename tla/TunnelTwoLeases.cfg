SPECIFICATION Spec
CONSTANTS
  LeaseIds = {a, b}
  Ports <- TwoPorts
  Ranges <- TwoRange
  Durations <- OneSecond
  MaxMints = 2
  MaxTime = 1
  Horizon = 2
  None = None
  Conns = {c1, c2}
  Callers = {api}
  Sweeper = sweeper
SYMMETRY ConnSymmetry
INVARIANTS
  TypeOK
  SessionBacked
  ListenersAccounted
  OneSession
  BindConflictTransient
PROPERTIES
  SweepSparesRenewed
