SPECIFICATION Spec
CONSTANTS
  Studio = Studio
  Loft = Loft
  Requests = {c1, c2, c3}
  Rooms <- MCRooms
  Types <- MCTypes
  VenueTypes <- MCVenueTypes
  Asks <- MCAsks
  NoAsk = NoAsk
  MaxQuantity = 6
  MinDuration = 4
  MaxDuration = 32
  Units = {6, 10}
  Buffers = {100}
  Retirable = {2}
  Archivable = {Loft}
  MaxAttempts = 3
  Faults = TRUE
SYMMETRY RequestSymmetry
CHECK_DEADLOCK FALSE
INVARIANTS IInv RoomExclusive EquipmentWithinCapacity PeakIsExact StockLocksDoNotDeadlock
PROPERTIES HiresOfferedEquipment
