CONSTANTS
  Reqs = {r1, r2}
  MaxKeys = 2
  None = None
SPECIFICATION Spec
INVARIANTS
  KeyPersisted
  GraceHonoured
PROPERTY StopEndsProcess
