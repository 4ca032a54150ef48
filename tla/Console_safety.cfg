SPECIFICATION ConsoleSpec
CONSTANTS
  None = None
  A = A B = B ann = ann root = root
  settingsA = settingsA settingsB = settingsB roomB = roomB
  Venues = {A, B}
  Accounts = {ann, root}
  Home <- MCHome
  Rows = {settingsA, settingsB, roomB}
  VenueOf <- MCVenueOf
  Settings = {settingsA, settingsB}
  Fields = {"name", "mon", "tue"}
  Column <- MCColumn
  Here = {"mon"}
  Elsewhere <- MCElsewhere
INVARIANTS ConsoleInv CacheIsTheSessions OfferedIsAllowed
PROPERTIES OldValuesReturnWithTheirColumn
CONSTRAINTS NotCrossed OneReplaced RoomApart
CHECK_DEADLOCK FALSE
