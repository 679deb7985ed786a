SPECIFICATION FairSpec
CONSTANTS
  zigbee = zigbee
  bridge = bridge
  dispatcher = dispatcher
  Publishers = {zigbee, bridge}
  Dispatcher = dispatcher
  QueueSize = 1
  HighQueueSize = 2
  MaxSubscribers = 3
  MaxEvents = 3
INVARIANTS
  TypeOK
  InOrder
  NothingLeaks
  ReadWhileLive
PROPERTY EventsEnd
