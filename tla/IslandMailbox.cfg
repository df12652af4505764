SPECIFICATION MailboxSpec
SYMMETRY ControllersAlike
CONSTANTS
  Pauses = FALSE
  OtherPlayers = FALSE
  Controllers = {c1, c2}
  Places = {here, there}
  Players = {p1}
  NoPlayer = NoPlayer
  LongMax = 5
  SeqBound = 4
  MaxFaults = 0
  MaxLoads = 1
  MaxCalls = 0
  EndKey = FALSE
  Commands <- MailboxCommands
  Coordinate = here
INVARIANTS TypeOK TeleportsAreWhole SnapshotsAreWhole ReportsLaterPosition
PROPERTIES AppliesOutstanding
