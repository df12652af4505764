\* Frames on their way to one viewer, which may join, stall, expire and leave.
SPECIFICATION Spec
CONSTANTS
  MaxTime = 2
  Producers = {p1}
  Viewers = {v1}
  None = None
  MaxViewers = 1
  SnapshotTTL = 1
  MaxFrames = 1
  Conns = {v1, p1}
  Actors = {v1, r1, janitor, closer}
  Closer = closer
  Janitor = janitor
  CloseGrace = 1
  Sessions = {s1}
  SessionTTL = 2
  MaxSessions = 1
  MaxViewersPerSession = 1
  Requests = {r1}
  MayShutDown = FALSE
  DrainMayTimeOut = FALSE
PROPERTIES
  FrameArrives
  ExpiredViewersLeave
CHECK_DEADLOCK FALSE
