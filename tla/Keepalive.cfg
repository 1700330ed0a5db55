\* A healthy client answers within 3 of an interval of 5.  8 is the longest
\* late answer three misses forgive: 8 + 2 * 3 < 3 * 5.
CONSTANTS
  Interval = 5
  Delay = 3
  MaxLapse = 8
  Spacing = 10
SPECIFICATION Spec
INVARIANTS
  ReapedInTime
PROPERTIES
  HealthyKept
  KeepaliveEnds
