CONSTANTS
  Callers = {c1, c2}
  Handles = {h1}
  Ids = {i1, i2}
  None = None
  Run = Run
  MaxConnections = 2
  MaxInbox = 3
  MaxNotifies = 1
  MaxCuts = 1
SPECIFICATION Spec
INVARIANTS
  OpenNotMissed
