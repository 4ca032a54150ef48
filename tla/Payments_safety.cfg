SPECIFICATION Spec
CONSTANTS
  b1 = b1 b2 = b2 p1 = p1 p2 = p2 r1 = r1 r2 = r2 w1 = w1 w2 = w2
  Bookings = {b1, b2}
  Payments = {p1, p2}
  Refunds = {r1, r2}
  Workers = {w1, w2}
  Free = {}
  None = None
  HoldTtl = 1
  CheckoutWindow = 2
  Lossy = TRUE
SYMMETRY RowSymmetry
INVARIANTS
  IInv
  CustomerChargedOnce
  CaptureHasOutcome
  ConfirmedIsPaidFor
  LateCaptureOwedInFull
  MoneyReturnedOnce
  RefundedIsReturned
  WorkerNeverAborts
PROPERTIES
  ImplementsRows
CHECK_DEADLOCK FALSE
