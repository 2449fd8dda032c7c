SPECIFICATION FairSpec
CONSTANTS
  Writes = {w1}
  Reads = {r1}
  Resets = {z1}
  Monitors = {m1}
  Retries = 1
  MaxPrints = 3
  None = None
  Other = Other
INVARIANT TypeOK
INVARIANT ReadsAreWhole
 
PROPERTY CallsEnd
CHECK_DEADLOCK FALSE
