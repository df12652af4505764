\* A viewer that is still being attached when Server.Close runs.
SPECIFICATION SafeSpec
CONSTANTS
  MaxTime = 0
  Producers = {}
  Viewers = {v1}
  None = None
  MaxViewers = 1
  SnapshotTTL = 1
  MaxFrames = 0
  Conns = {v1}
  Actors = {v1, r1, janitor, closer}
  Closer = closer
  Janitor = janitor
  CloseGrace = 1
  Sessions = {s1}
  SessionTTL = 1
  MaxSessions = 1
  MaxViewersPerSession = 1
  Requests = {r1}
  MayShutDown = TRUE
  DrainMayTimeOut = FALSE
INVARIANTS
  ShutdownCodeIsGoingAway
CHECK_DEADLOCK FALSE
