SPECIFICATION Spec
CONSTANTS
  MaxCmds = 3
  MaxStops = 1
  MaxExpired = 0
PROPERTY BreakpointAllowsInspection
CHECK_DEADLOCK FALSE
