SPECIFICATION Spec
CONSTANTS
  d1 = d1
  d2 = d2
  a1 = a1
  a2 = a2
  coordinator = coordinator
  Coordinator = coordinator
  Devices = {d1, d2}
  Addresses = {a1, a2}
  Sleepy = {}
  NumEndpoints = 1
  MaxConcurrent = 2
  RetryCount = 1
  FullRetryCount = 0
  MaxStarts = 2
  MaxFailures = 1
SYMMETRY Symmetry
CHECK_DEADLOCK FALSE
INVARIANTS
  TypeOK
  OneInterviewPerDevice
  NoneForgotten
