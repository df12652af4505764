\* A logout while one of the two viewers of the session stalls a write.
SPECIFICATION SafeSpec
CONSTANTS
  MaxTime = 1
  Producers = {p1}
  Viewers = {v1, v2}
  None = None
  MaxViewers = 2
  SnapshotTTL = 3
  MaxFrames = 1
  Conns = {v1, v2, p1}
  Actors = {v1, v2, r1, r2, janitor, closer}
  Closer = closer
  Janitor = janitor
  CloseGrace = 1
  Sessions = {s1}
  SessionTTL = 5
  MaxSessions = 1
  MaxViewersPerSession = 2
  Requests = {r1, r2}
  MayShutDown = FALSE
  DrainMayTimeOut = FALSE
SYMMETRY Interchangeable
PROPERTIES
  LoopSendsCloseFrame
CHECK_DEADLOCK FALSE
