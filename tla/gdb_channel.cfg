SPECIFICATION FairSpec
CONSTANTS
  MaxCmds = 5
  MaxStops = 2
  MaxExpired = 2
INVARIANT TypeOK
INVARIANT LagAccounted
INVARIANT StalenessBounded
INVARIANT EofOnce
PROPERTY ExecReturns
CHECK_DEADLOCK FALSE
