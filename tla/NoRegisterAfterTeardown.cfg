SPECIFICATION Spec
CONSTANTS
  LeaseIds = {a}
  Ports <- OnePort
  Ranges <- OneRange
  Durations <- OneSecond
  MaxMints = 2
  MaxTime = 1
  Horizon = 2
  None = None
  Conns = {c1, c2}
  Callers = {api}
  Sweeper = sweeper
PROPERTIES
  NoRegisterAfterTeardown
