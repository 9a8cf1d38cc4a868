CONSTANTS
  None = None
  BadHex = BadHex
  NoString = NoString
  Bodies <- MCBodies
SPECIFICATION Spec
INVARIANTS
  TypeOK
  FieldsAgree
  UuidsExact
