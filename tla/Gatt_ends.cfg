CONSTANTS
  Callers = {c1, c2}
  Handles = {h1}
  Ids = {i1, i2}
  None = None
  Run = Run
  MaxConnections = 2
  MaxInbox = 2
  MaxNotifies = 0
  MaxCuts = 1
SPECIFICATION FairSpec
PROPERTIES
  AttemptsEndOfOne
