SPECIFICATION Spec
CONSTANTS
  LeaseIds = {a, b}
  Ports <- MCPorts
  Ranges <- MCRanges
  Durations <- MCDurations
  MaxMints = 3
  MaxTime = 2
  Horizon = 3
  None = None
INVARIANTS
  PortsExclusive
  PortAccounting
  AllocateComplete
  StoreInv
PROPERTIES
  LeaseStable
  RepliesDurable
  Implements
