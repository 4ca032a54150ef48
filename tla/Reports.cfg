SPECIFICATION ReportsSpec
CONSTANTS
  b1 = b1 p1 = p1 r1 = r1 w1 = w1 w2 = w2
  Bookings = {b1}
  Payments = {p1}
  Refunds = {r1}
  Workers = {w1, w2}
  Free = {}
  None = None
  HoldTtl = 1
  CheckoutWindow = 2
  Lossy = FALSE
  Total <- MCTotal
  Back <- MCBack
INVARIANTS
  ReportStands
PROPERTIES
  PaymentInFlightResolves
  ChargeIsSubmitted
  OwedRefundIsPaid
  ImplementsLedger
CHECK_DEADLOCK FALSE
