SPECIFICATION FairSpec
CONSTANTS
  router = router
  sensor = sensor
  Devices = {router, sensor}
  Mains = {router}
  None = none
  MaxFailures = 3
  MaxBackoff = 8
  CounterSize = 5
  MaxEvents = 2
CHECK_DEADLOCK FALSE
INVARIANTS
  TypeOK
  PublishedMatches
  OfflineEarned
PROPERTIES
  BackByFrame
  SilentGoesOffline
