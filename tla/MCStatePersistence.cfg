SPECIFICATION Spec
CONSTANTS
  d1 = d1
  d2 = d2
  Devices = {d1}
  NoFile = nofile
  MaxReports = 1
  MaxFailures = 1
  MaxReboots = 1
  MaxJoins = 1
  MaxStops = 1
CHECK_DEADLOCK FALSE
INVARIANTS
  TypeOK
  UnsavedIsNoticed
  RenamesOwnFile
  DownIsQuiet
