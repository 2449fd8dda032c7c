SPECIFICATION Spec
CONSTANTS
  Reqs = {r1, r2, r3, r4, r5}
  None = None
INVARIANT TypeOK
INVARIANT OneReplyPerLogin
INVARIANT RefreshNotOlder
PROPERTY PairsOnlyGetNewer
PROPERTY ImplementsTokens
SYMMETRY Symmetry
CHECK_DEADLOCK FALSE
