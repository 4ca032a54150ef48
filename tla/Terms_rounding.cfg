SPECIFICATION Spec
CONSTANTS
  Bookings = {b1}
  RoomRates = {100, 101}
  TypeRates = {50, 101}
  Quantities = {1}
  Durations = {2, 3}
  Policies <- MCPolicies
  Default <- MCDefault
  HoursLeft <- MCHoursLeft
  MaxVersions = 2
CHECK_DEADLOCK FALSE
INVARIANTS RefundWithinCharge
