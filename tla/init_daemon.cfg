SPECIFICATION DaemonFairSpec
CONSTANTS
  Inits = {i1, i2}
  Manuals = {m1}
  Forced = {i2}
  Polls = 2
  Nobody = Nobody
  Other = Other
INVARIANT DaemonTypeOK
INVARIANT OneServes
PROPERTY ImplementsOneServer
PROPERTY InitEnds
PROPERTY NoStrayServer
CHECK_DEADLOCK FALSE
