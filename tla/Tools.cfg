\* The overlay's radar, the island tool's scanner and the offset dumper.
SPECIFICATION Spec
CONSTANTS
  None = None
  NoValue = NoValue
  Definitions <- MCDefinitions
  MapNames <- MCMapNames
  PlayerIds <- MCPlayerIds
  Places <- MCPlaces
  Hysteresis = 24
  MaxTextures = 2
  MaxRevisions = 3
  Word = 2
  Chunk = 4
  Regions <- MCRegions
  DefaultLowest = 0
  DefaultHighest = 14
  CandidateLimit = 3
  Values = {1, 2, 3}
  NotFinite = {3}
  Ranges <- MCRanges
  MaxEvents = 1
  BuiltIn <- MCBuiltIn
  Files <- MCFiles
  Alphabetical <- MCAlphabetical
  Results <- MCResults
  Lists <- MCLists
  Modules <- MCModules
  Scopes <- MCScopes
  Bindings = {"class", "enum"}
  ModuleSize = 8
  ImmediateLimit = 16
  Sensitivity = 88
CHECK_DEADLOCK FALSE
INVARIANTS ToolsTypeOK TexturesOwned  
PROPERTIES FloorHolds
