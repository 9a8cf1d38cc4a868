CONSTANTS
  Flows = {f1, f2}
  Bleaks = {b1}
  Keys = {k1, k2}
  None = None
  MaxPairs = 2
  MaxLoads = 2
  MaxSessions = 3
SPECIFICATION Spec
SYMMETRY Interchangeable
INVARIANTS
  TypeOK
  PinHolds
  OwnSession
  UnloadedIsGone
  OneKeyPair
  DownIsShown
