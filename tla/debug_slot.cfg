SPECIFICATION SlotFairSpec
CONSTANTS
  Calls = {c1, c2, c3}
  None = None
INVARIANT SlotTypeOK
INVARIANT NoProcessLeaks
INVARIANT OwnServerUnlessCrossed
PROPERTY CallsReturn
CHECK_DEADLOCK FALSE
