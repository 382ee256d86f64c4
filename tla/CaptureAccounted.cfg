SPECIFICATION Spec
CONSTANTS
  Bookings = {b1}
  Orders = {o1}
  Handlers = {h1}
  None = None
  ProviderOf <- MCProviderOf
  StartOf <- MCStartOf
  EndOf <- MCEndOf
  PaymentWindow = 0
  CancelLead = 1
  Grace = 1
  Price = 2
  Concurrency = 2
  Attempts = 3
  Requests = {"create", "webhook"}
  EventKinds = {"payment.captured"}
  AmountMatches = {TRUE}
  MaxFaults = 0
  Horizon = 0
INVARIANTS CaptureIsAccounted
CHECK_DEADLOCK FALSE
