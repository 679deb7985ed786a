SPECIFICATION Spec
CONSTANTS
  d1 = d1
  d2 = d2
  d3 = d3
  zigbee = zigbee
  bridge = bridge
  Ids = {d1, d2, d3}
  Tasks = {zigbee, bridge}
  NoId = id0
  Missing = missing
  MaxDevices = 2
  MaxChanges = 3
  MaxCrashes = 2
  MaxFaults = 1
SYMMETRY Symmetry
CHECK_DEADLOCK FALSE
INVARIANTS
  TypeOK
  NothingStale
PROPERTY ImplementsStoreMap
