SPECIFICATION FairSpec
INVARIANTS
  TypeOK
  OneSession
  
PROPERTIES
  NoSessionWhileClosing
  StopEnds
  CancelEnds
  Reconnects
  KeepsContract
