\* One producer after another, and frames that go stale on their way.
SPECIFICATION SafeSpec
CONSTANTS
  MaxTime = 2
  Producers = {p1, p2}
  Viewers = {v1}
  None = None
  MaxViewers = 1
  SnapshotTTL = 1
  MaxFrames = 2
  Conns = {v1, p1, p2}
  Actors = {v1, r1, janitor, closer}
  Closer = closer
  Janitor = janitor
  CloseGrace = 1
  Sessions = {s1}
  SessionTTL = 3
  MaxSessions = 1
  MaxViewersPerSession = 1
  Requests = {r1}
  MayShutDown = FALSE
  DrainMayTimeOut = FALSE
SYMMETRY Interchangeable
INVARIANTS
  TypeOK
  QueueOrder
  NoMissedFrame
  SlotHolder
  OneProducer
PROPERTIES
  FrameFeed
  PublishedInOrder
  
CHECK_DEADLOCK FALSE
