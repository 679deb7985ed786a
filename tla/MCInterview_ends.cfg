SPECIFICATION FairSpec
CONSTANTS
  d1 = d1
  d2 = d2
  a1 = a1
  a2 = a2
  coordinator = coordinator
  Coordinator = coordinator
  Devices = {d1}
  Addresses = {a1}
  Sleepy = {d1}
  NumEndpoints = 1
  MaxConcurrent = 1
  RetryCount = 1
  FullRetryCount = 2
  MaxStarts = 1
  MaxFailures = 1
CHECK_DEADLOCK FALSE
INVARIANT ListsInStep
PROPERTY InterviewEnds
