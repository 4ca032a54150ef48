SPECIFICATION Spec
CONSTANTS
  Offset = 20
  OffsetAfter = 20
  ClockChange = 0
  Schedules <- MCSchedules
  WindowDays = 2
  Anchors <- Midnights
  Durations = {4, 6}
  MinDuration = 4
  MaxDuration = 32
  Horizon = 140
  Asks <- MCAsks
  MaxBookings = 2
  MaxNow = 1
INVARIANTS TypeOK OfferedIsAccepted AcceptedIsOffered
PROPERTIES OccupiedOnlyWhenOpen
