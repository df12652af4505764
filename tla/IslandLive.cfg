SPECIFICATION Spec
CONSTANTS
  Pauses = TRUE
  OtherPlayers = FALSE
  Controllers = {c1}
  Places = {here}
  Players = {p1}
  NoPlayer = NoPlayer
  LongMax = 3
  SeqBound = 4
  MaxFaults = 0
  MaxLoads = 1
  MaxCalls = 1
  EndKey = FALSE
  Commands <- LiveCommands
  Coordinate = here
PROPERTIES RequestsAnswered ShutdownEnds
