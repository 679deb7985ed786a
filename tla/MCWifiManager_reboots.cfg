SPECIFICATION Spec
CONSTANTS
  Selection = "PREFER_5GHZ"
  Threshold = 1
  MaxStrikes = 1
  ColdStrikes = 2
  MaxReboots = 1
  CounterSize = 3
  Patience = 2
  MaxQueue = 2
  MaxFaults = 1
CHECK_DEADLOCK FALSE
INVARIANT
  RebootsBounded
