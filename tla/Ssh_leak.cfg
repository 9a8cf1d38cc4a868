CONSTANTS
  Conns = {c1, c2, c3, c4}
  NoConn = NoConn
  Jump = FALSE
SPECIFICATION Spec
SYMMETRY ConnSymmetry
INVARIANTS
  AlwaysTornDown
