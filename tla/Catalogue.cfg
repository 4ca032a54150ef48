SPECIFICATION CatalogueSpec
CONSTANTS
  None = None
  A = A lahore = lahore dubai = dubai studio = studio loft = loft
  Venues = {A}
  Rooms = {studio, loft}
  VenueOf <- MCVenueOf
  Cities = {lahore, dubai}
  Rates = {1, 2}
  Prices = {1}
  Windows <- MCWindows
  Holds <- MCHolds
  Limit = 1
  Moves <- MCMoves
  Changes <- MCChanges
  Wanted <- MCWanted
  MaxBooked = 1
  MaxAsking = 1
INVARIANTS RoomsFollowTheirVenue ListedIsFree
CONSTRAINT QuietMoves
CHECK_DEADLOCK FALSE
