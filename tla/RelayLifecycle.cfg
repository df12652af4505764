\* Sessions that expire, are replaced, deleted and pruned under the viewers
\* that hold them.
SPECIFICATION SafeSpec
CONSTANTS
  MaxTime = 1
  Producers = {}
  Viewers = {v1, v2}
  None = None
  MaxViewers = 1
  SnapshotTTL = 1
  MaxFrames = 0
  Conns = {v1, v2}
  Actors = {v1, v2, r1, r2, janitor, closer}
  Closer = closer
  Janitor = janitor
  CloseGrace = 1
  Sessions = {s1, s2}
  SessionTTL = 1
  MaxSessions = 1
  MaxViewersPerSession = 1
  Requests = {r1, r2}
  MayShutDown = FALSE
  DrainMayTimeOut = FALSE
SYMMETRY Interchangeable
INVARIANTS
  ViewersWithinCapacity
  SessionsWithinCapacity
  PlacesHeld
  NoOrphanViewer
  LeavingSessionRevoked
PROPERTIES
  ReplacementSucceeds
CHECK_DEADLOCK FALSE
