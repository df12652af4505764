SPECIFICATION Spec
CONSTANTS
  Pauses = TRUE
  OtherPlayers = TRUE
  Controllers = {c1}
  Places = {here}
  Players = {p1, p2}
  NoPlayer = NoPlayer
  LongMax = 1
  SeqBound = 2
  MaxFaults = 2
  MaxLoads = 2
  MaxCalls = 0
  EndKey = TRUE
  Commands <- FlyCommands
  Coordinate = here
INVARIANTS  SnapshotIsOwn 
