CONSTANTS
  NumDescs = 3
  MaxXfers = 4
SPECIFICATION SuspendSpec
INVARIANTS OffsetsInOrder
CHECK_DEADLOCK FALSE
