SPECIFICATION FairPagesSpec
CONSTANTS
  b1 = b1
  Bookings = {b1}
  Free = {}
  HoldTtl = 1
  CheckoutWindow = 2
  Watched = b1
  PollCeiling = 2
INVARIANTS PagesInv ViewIsCoherent PaidPageNotHeld GaveUpHonestly NothingChargedIsTrue
PROPERTIES WaitIsAnswered
