SPECIFICATION FairSpec
CONSTANTS
  LeaseIds = {a}
  Ports <- OnePort
  Ranges <- OneRange
  Durations <- OneSecond
  MaxMints = 1
  MaxTime = 1
  Horizon = 2
  None = None
  Conns = {c1, c2}
  Callers = {api}
  Sweeper = sweeper
PROPERTIES
  ExpiredGoesDark
  ReplacedHangsUp
