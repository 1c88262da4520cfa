CONSTANTS
  NumDescs = 3
  MaxXfers = 4
  MaxPkts = 3
  MaxFrags = 1
  FifoSize = 4
  PoolSize = 2
  Threshold = 0
  TrigThresh = 1
  MaxFrames = 3
  MaxCut = 7
  NONE = NONE
  Callers = {u1, u2}
  MaxRetry = 2
  MaxSends = 3
SPECIFICATION MCSpec
INVARIANTS TxSound RxSound ParseSound 
PROPERTIES FifoImplementsDescQueue TransfersEnd
CHECK_DEADLOCK FALSE
