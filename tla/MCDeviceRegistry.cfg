SPECIFICATION Spec
CONSTANTS
  id1 = id1
  id2 = id2
  id3 = id3
  c1 = c1
  c2 = c2
  Ids = {id1, id2, id3}
  NoId = zero
  MaxDevices = 2
  HashSize = 2
  Hash <- CollidingHash
  Keys = {k1}
  Values = {v}
  Absent = absent
  NoState = null
  Protocols = {"zigbee"}
  Availabilities = {"offline"}
  Names = {n}
  Clusters = {c1, c2}
  MaxClusters = 1
SYMMETRY Symmetry
INVARIANTS
  TypeOK
  LookupExact
  RoomMeansInsertable
PROPERTY
  ImplementsDeviceMap
  OperationsExact
