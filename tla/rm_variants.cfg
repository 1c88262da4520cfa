CONSTANTS
  Variants = {"shared", "others", "perf", "dynamic", "errors"}
  Producers = {2}
  Consumers = {1, 3}
  Dynamic = {}
  Listened = {}
  Dependencies <- FanOutDeps
  SyncCalls = {FALSE}
  DepOwners = {"kernel"}
  DriverResults = {"OK", "INPROGRESS"}
  Bandwidths = {}
  BwMod = 1
  FloorVoltage <- NoVoltage
  DeleteWhileRequesting = FALSE
  DeleteWhileBusy = FALSE
  MaxWq = 1
  MaxTimers = 0
  MaxOther = 0
  MaxLeak = 0
SPECIFICATION MCSpec
INVARIANTS  VotesRight
CHECK_DEADLOCK FALSE
