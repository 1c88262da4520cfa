CONSTANTS
  Variants = {"fan"}
  Producers = {2}
  Consumers = {1, 3}
  Dynamic = {}
  Listened = {}
  Dependencies <- FanOutDeps
  SyncCalls = {FALSE}
  DepOwners = {"kernel"}
  DriverResults = {"OK", "INPROGRESS"}
  Bandwidths = {}
  BwMod = 1
  FloorVoltage <- NoVoltage
  DeleteWhileRequesting = FALSE
  DeleteWhileBusy = FALSE
  MaxWq = 1
  MaxTimers = 0
  MaxOther = 0
  MaxLeak = 0
SPECIFICATION MCFairSpec
INVARIANTS TypeOK UsageCountsUsers UsedConsumersStay GrantsCounted GrantsDelivered
PROPERTY RequestsSettle
CHECK_DEADLOCK FALSE
