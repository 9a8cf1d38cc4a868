CONSTANTS
  Conns = {c1, c2, c3, c4, c5}
  NoConn = NoConn
  Jump = TRUE
SPECIFICATION Spec
SYMMETRY ConnSymmetry
INVARIANTS
  TypeOK
  OpenIsOwned
  
PROPERTIES
  TunnelLast
