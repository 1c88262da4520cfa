CONSTANTS
  SimpleWds = {TRUE, FALSE}
  DryRuns = {FALSE}
  NumMuxes = 1
  MaxTries = 2
  MaxPolls = 2
  MaxNet = 2
  MaxRuns = 1
SPECIFICATION FairSpec
PROPERTY StopEndsProgram
CHECK_DEADLOCK FALSE
