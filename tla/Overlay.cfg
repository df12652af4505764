SPECIFICATION MCSpec
CONSTANTS
  Rects <- MCRects
  Contents <- MCContents
  Monitors <- MCMonitors
  Configs <- MCConfigs
  Modes = {0, 2}
  Pawns = {p1, p2}
  LocalPawns = {l1, l2}
  Steam = {s1, s2}
  MapIds = {m1, m2}
  Nothing = Nothing
  KeepTicks = 1
  MaxStarts = 1
  MaxMoves = 1
  MaxFaults = 1
CHECK_DEADLOCK FALSE
INVARIANTS OverlayTypeOK SessionEnclosed DrawnTogether 
PROPERTIES ViewportSettles 
