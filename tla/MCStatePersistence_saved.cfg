SPECIFICATION FairSpec
CONSTANTS
  d1 = d1
  d2 = d2
  Devices = {d1}
  NoFile = nofile
  MaxReports = 2
  MaxFailures = 1
  MaxReboots = 0
  MaxJoins = 1
  MaxStops = 1
CHECK_DEADLOCK FALSE
PROPERTIES
  EventuallySaved
  StopEnds
