SPECIFICATION Spec
CONSTANTS
  Ops = {m1, m2, c1, c2}
  CliOps = {c1, c2}
  None = None
INVARIANT TypeOK
INVARIANT StoredIsGood
PROPERTY OnlyRefusedCleared
SYMMETRY Symmetry
CHECK_DEADLOCK FALSE
