SPECIFICATION FairSpec
CONSTANTS
  Jobs = {j1, j2}
  CliJobs = {j1}
  Retries = 1
  None = None
  Partial = Partial
INVARIANT TypeOK
INVARIANT OkIsFlashed
PROPERTY ImplementsFlashing
PROPERTY McpFlashEnds
CHECK_DEADLOCK FALSE
