SPECIFICATION FairSpec
CONSTANTS
  Studio = Studio
  Loft = Loft
  Requests = {c1, c2, c3}
  Rooms <- MCRooms
  Types <- MCTypes
  VenueTypes <- MCVenueTypes
  Asks <- ContestedAsks
  NoAsk = NoAsk
  MaxQuantity = 6
  MinDuration = 4
  MaxDuration = 32
  Units = {10}
  Buffers = {100}
  Retirable = {}
  Archivable = {}
  MaxAttempts = 2
  Faults = FALSE
CHECK_DEADLOCK FALSE
PROPERTIES ContestedSlotIsTaken
