SPECIFICATION Spec
CONSTANTS
  Procs = {p1, p2}
  Files = {f1, f2, f3, f4}
  NoFile = NoFile
  Empty = Empty
  Torn = Torn
  device = device
  mcp = mcp
  Sections <- MCSections
  Values <- MCValues
  Default <- MCDefault
INVARIANT TypeOK
INVARIANT ReadableUnlessCollided
PROPERTY ImplementsRegister
SYMMETRY Symmetry
