CONSTANTS
  Peers = {p1, p2}
  Handles = {h1, h2}
  None = None
  MaxSteps = 3
  MaxInbox = 3
SPECIFICATION FairSpec
INVARIANTS
  TypeOK
  RightDevice

  
