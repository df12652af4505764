\* Every handler on its way out: shutdown at any point, stalled writes.
SPECIFICATION Spec
CONSTANTS
  MaxTime = 1
  Producers = {p1}
  Viewers = {v1}
  None = None
  MaxViewers = 1
  SnapshotTTL = 1
  MaxFrames = 1
  Conns = {v1, p1}
  Actors = {v1, r1, janitor, closer}
  Closer = closer
  Janitor = janitor
  CloseGrace = 1
  Sessions = {s1}
  SessionTTL = 3
  MaxSessions = 1
  MaxViewersPerSession = 1
  Requests = {r1}
  MayShutDown = TRUE
  DrainMayTimeOut = FALSE
INVARIANTS
  ShutdownLeavesNoConnection
  ShutdownClearsSessions
PROPERTIES
  ShutdownCompletes
CHECK_DEADLOCK FALSE
