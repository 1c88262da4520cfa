CONSTANTS
  SimpleWds = {TRUE, FALSE}
  DryRuns = {TRUE, FALSE}
  NumMuxes = 2
  MaxTries = 2
  MaxPolls = 2
  MaxNet = 2
  MaxRuns = 2
SPECIFICATION FairSpec
INVARIANTS ResultTrue NoOrphanBearer FullStartOnlyOnLte
PROPERTY ProgramEnds
CHECK_DEADLOCK FALSE
