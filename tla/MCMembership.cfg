SPECIFICATION MemberSpec
CONSTANTS
  d1 = d1
  d2 = d2
  a1 = a1
  a2 = a2
  Devices = {d1, d2}
  Tuya = {d1, d2}
  Addrs = {a1, a2}
  None = none
  MaxBindings = 1
  MaxDevices = 2
  MaxMoves = 1
SYMMETRY Symmetry
CHECK_DEADLOCK FALSE
INVARIANTS
  MemberTypeOK
  BindingsAreOwn
  AllTracked
PROPERTY ReportFindsRecord
