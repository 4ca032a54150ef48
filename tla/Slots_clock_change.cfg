SPECIFICATION Spec
CONSTANTS
  Offset = 0
  OffsetAfter = 4
  ClockChange = 100
  Schedules <- MCSchedules
  WindowDays = 2
  Anchors <- Midnights
  Durations = {4, 6}
  MinDuration = 4
  MaxDuration = 32
  Horizon = 8640
  Asks <- MCAsks
  MaxBookings = 2
  MaxNow = 2
INVARIANTS OfferedIsAccepted
