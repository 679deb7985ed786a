SPECIFICATION FairSpec
CONSTANTS
  d1 = d1
  d2 = d2
  d3 = d3
  s1 = s1
  s2 = s2
  zigbee = zigbee
  monitor = monitor
  Devices = {d1, d2, d3}
  Senders = {s1}
  Zigbee = zigbee
  Monitor = monitor
  MaxPending = 2
  MaxAttempts = 1
  TickMod = 3
  Timeout = 1
  CheckPeriod = 1
  MaxCommands = 3
  MaxSent = 1
INVARIANTS
  TypeOK
  SingleHolder
PROPERTY PendingResolved
