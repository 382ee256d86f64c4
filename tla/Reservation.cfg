SPECIFICATION Spec
CONSTANTS
  Bookings = {b1, b2}
  Orders = {o1, o2}
  Handlers = {h1, h2}
  None = None
  ProviderOf <- MCProviderOf
  StartOf <- MCStartOf
  EndOf <- MCEndOf
  PaymentWindow = 0
  CancelLead = 1
  Grace = 1
  Price = 1
  Concurrency = 2
  Attempts = 3
  Requests = {"create", "order", "verify", "webhook", "cancel", "refund"}
  EventKinds = {"payment.captured", "order.paid", "payment.failed", "payment.authorized", "refund.processed"}
  AmountMatches = {TRUE, FALSE}
  MaxFaults = 1
  Horizon = 0
SYMMETRY LoadSymmetry
CONSTRAINT Loads
INVARIANTS NoDoubleBooking ReservationInv FlaggedMoneyIsCaptured LedgerIsTrue EventAppliedOnce CaptureClosesOrder
PROPERTIES ExpiryNeverOverwrites ImplementsCalendar
CHECK_DEADLOCK FALSE
